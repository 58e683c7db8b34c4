----------------------------- MODULE MCProject -----------------------------
(* A server with two calls, two commands, one file.  The second command    *)
(* may not signal the server, as when another user runs it.                *)
EXTENDS Project, TLC

CONSTANTS t1, t2, c1, c2

Beginning(release, x, y, u, v) ==
    [release |-> release, typed |-> c1 :> x @@ c2 :> y, called |-> t1 :> u @@ t2 :> v]

Scenarios ==
    { Beginning(0, "init", "init", "nothing", "nothing"),
      Beginning(1, "status", "sync", "nothing", "nothing"),
      Beginning(2, "status", "status", "nothing", "nothing"),
      Beginning(3, "status", "status", "nothing", "nothing"),
      Beginning(4, "force", "index", "nothing", "nothing"),
      Beginning(4, "status", "uninit", "sync", "indexFiles"),
      Beginning(4, "status", "index", "sync", "indexFiles") }

Strangers == {<<c2, Server>>}
=============================================================================
