----------------------------- MODULE MCFileLock -----------------------------
(* Two processes, one of which has opened the project twice.               *)
EXTENDS FileLock, TLC

CONSTANTS h1, h2, h3, p1, p2

MCProcOf == h1 :> p1 @@ h2 :> p2 @@ h3 :> p2

\* p2 runs as another user and may not signal p1.
MCStrangers == {<<p2, p1>>}
=============================================================================
