--------------------------- MODULE MCParseWorker ---------------------------
(* Three files of different temper and a worker that is worn out early.    *)
EXTENDS ParseWorker
=============================================================================
