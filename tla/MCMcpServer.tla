----------------------------- MODULE MCMcpServer -----------------------------
(* The directory a client works in lies below the working directory of the *)
(* server.  One client sends two messages at a time, the other one calls  *)
(* with the path of its own directory.                                     *)
EXTENDS McpServer

PathsUp == [d \in Dirs |-> IF d = "sub" THEN <<"sub", "cwd">> ELSE <<d>>]

Message(i, s, path) == [id |-> i, session |-> s, path |-> path]

Calls == {Message(1, "s1", None), Message(2, "s1", "cwd"), Message(3, "s2", "sub")}
=============================================================================
