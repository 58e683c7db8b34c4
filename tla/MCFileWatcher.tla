--------------------------- MODULE MCFileWatcher ----------------------------
(* The watcher on two files, with a few edits and failures.                *)
EXTENDS FileWatcher, TLC
=============================================================================
