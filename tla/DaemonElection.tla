--------------------------- MODULE DaemonElection ---------------------------
(***************************************************************************)
(* How the launchers of one project come to share one daemon: the pid file *)
(* and the socket of src/src/mcp/daemon.ts, the election and the retries   *)
(* of src/src/mcp/index.ts and the attachment of src/src/mcp/proxy.ts.     *)
(*                                                                         *)
(* A daemon stands for its process and its pid.  The pid file is linked    *)
(* into place with its whole record, so its contents is a pid; what is at  *)
(* the socket's path is the daemon that bound it, alive or not.  Every     *)
(* system call on the two files is an action: those of different processes *)
(* interleave.  chmod, the temporary file and the log change nothing here. *)
(***************************************************************************)
EXTENDS Naturals, FiniteSets

CONSTANTS
    Daemons,        \* pids that daemon processes are given, in this order
    NoDaemon,
    Launchers,      \* `codegraph serve --mcp` processes
    OldLaunchers,   \* those of another version
    MaxAttempts,    \* TAKEOVER_MAX_RETRIES
    MaxTries        \* DAEMON_CONNECT_MAX_RETRIES

ASSUME DaemonElectionAssumption ==
    /\ Daemons \subseteq Nat
    /\ NoDaemon \notin Daemons
    /\ OldLaunchers \subseteq Launchers
    /\ MaxAttempts \in Nat \ {0}
    /\ MaxTries \in Nat \ {0}

VARIABLES
    pidFile,    \* whom daemon.pid names
    socket,     \* who has bound what is at the socket's path
    dpc,        \* where each daemon process stands
    existing,   \* the holder it has read from the pid file
    attempts,   \* rounds of the election it has begun
    clients,    \* its sessions
    idleTimer,  \* is its idle timer armed?
    borrowed,   \* pids of dead daemons that some other process has by now
    lpc,        \* where each launcher stands
    conn,       \* the daemon it has connected to
    tries       \* how often it has probed after the spawn

files     == <<pidFile, socket>>
election  == <<existing, attempts>>
service   == <<clients, idleTimer>>
launchers == <<lpc, conn, tries>>
vars == <<pidFile, socket, dpc, existing, attempts, clients, idleTimer, borrowed,
          lpc, conn, tries>>

\* A daemon at one of these has linked the pid file and not yet removed it.
Owning == {"unlinkSocket", "listen", "serving", "closing", "cleanRead", "cleanUnlink"}

\* "killed" is a death without clean-up, "exited" one in good order.
DaemonStates ==
    {"unborn", "link", "readHolder", "judge", "clearRead", "clearUnlink",
     "cleanSocket", "exited", "killed"} \cup Owning

TypeOK ==
    /\ pidFile \in Daemons \cup {NoDaemon}
    /\ socket \in Daemons \cup {NoDaemon}
    /\ dpc \in [Daemons -> DaemonStates]
    /\ existing \in [Daemons -> Daemons \cup {NoDaemon}]
    /\ attempts \in [Daemons -> 0 .. MaxAttempts]
    /\ \A d \in Daemons : dpc[d] \in {"unborn", "link"} => attempts[d] < MaxAttempts
    /\ clients \in [Daemons -> SUBSET Launchers]
    /\ idleTimer \in [Daemons -> BOOLEAN]
    /\ borrowed \subseteq {d \in Daemons : dpc[d] \in {"exited", "killed"}}
    /\ lpc \in [Launchers -> {"probing", "hello", "proxied", "direct", "gone"}]
    /\ conn \in [Launchers -> Daemons \cup {NoDaemon}]
    /\ \A l \in Launchers : lpc[l] \in {"hello", "proxied"} => conn[l] \in Daemons
    /\ tries \in [Launchers -> 0 .. MaxTries]

Runs(d) == dpc[d] \notin {"unborn", "exited", "killed"}

\* isProcessAlive, by pid.
SeemsAlive(d) == Runs(d) \/ d \in borrowed

\* Daemons of an earlier day may have been killed and left their files.
Init ==
    /\ \E first \in Daemons :
          dpc = [d \in Daemons |-> IF d < first THEN "killed" ELSE "unborn"]
    /\ pidFile \in {d \in Daemons : dpc[d] = "killed"} \cup {NoDaemon}
    /\ socket \in {pidFile, NoDaemon}
    /\ existing = [d \in Daemons |-> NoDaemon]
    /\ attempts = [d \in Daemons |-> 0]
    /\ clients = [d \in Daemons |-> {}]
    /\ idleTimer = [d \in Daemons |-> FALSE]
    /\ borrowed = {}
    /\ lpc = [l \in Launchers |-> "probing"]
    /\ conn = [l \in Launchers |-> NoDaemon]
    /\ tries = [l \in Launchers |-> 0]
-----------------------------------------------------------------------------
(* Going from one place of the daemon's code to another.                   *)
Go(d, from, to) ==
    /\ dpc[d] = from
    /\ dpc' = [dpc EXCEPT ![d] = to]

\* Mutation: rename() instead of link(): the later one wins.
LinkReplaces(d) ==
    /\ Go(d, "link", "unlinkSocket")
    /\ pidFile' = d
    /\ UNCHANGED <<socket, election, service, borrowed, launchers>>

(* tryAcquireDaemonLock: link() creates the pid file or finds it taken.    *)
Link(d) ==
    /\ \/ /\ pidFile = NoDaemon
          /\ Go(d, "link", "unlinkSocket")
          /\ pidFile' = d
          /\ attempts' = [attempts EXCEPT ![d] = 0]
       \/ /\ pidFile # NoDaemon
          /\ Go(d, "link", "readHolder")
          /\ attempts' = [attempts EXCEPT ![d] = @ + 1]
          /\ UNCHANGED pidFile
    /\ UNCHANGED <<socket, existing, service, borrowed, launchers>>

(* The file may be gone by the time it is read: then nobody is known.      *)
ReadHolder(d) ==
    /\ Go(d, "readHolder", "judge")
    /\ existing' = [existing EXCEPT ![d] = pidFile]
    /\ UNCHANGED <<files, attempts, service, borrowed, launchers>>

(* A live holder makes this process redundant.                             *)
Judge(d) ==
    /\ LET alive == existing[d] # NoDaemon /\ SeemsAlive(existing[d])
       IN  Go(d, "judge", IF alive THEN "exited" ELSE "clearRead")
    /\ UNCHANGED <<files, election, service, borrowed, launchers>>

\* The next round of the election, if there is one.
NextRound(d) == IF attempts[d] = MaxAttempts THEN "exited" ELSE "link"

\* Mutation: the holder is not probed again.
ClearReadTrusting(d) ==
    /\ LET stale == pidFile # NoDaemon /\ existing[d] \in {pidFile, NoDaemon}
       IN  Go(d, "clearRead", IF stale THEN "clearUnlink" ELSE NextRound(d))
    /\ existing' = [existing EXCEPT ![d] = NoDaemon]
    /\ UNCHANGED <<files, attempts, service, borrowed, launchers>>

(* clearStaleDaemonLock reads again and leaves the file alone if it names  *)
(* another pid than expected, or one that is alive.                        *)
ClearRead(d) ==
    /\ LET stale == /\ pidFile # NoDaemon
                    /\ existing[d] \in {pidFile, NoDaemon}
                    /\ ~SeemsAlive(pidFile)
       IN  Go(d, "clearRead", IF stale THEN "clearUnlink" ELSE NextRound(d))
    /\ existing' = [existing EXCEPT ![d] = NoDaemon]
    /\ UNCHANGED <<files, attempts, service, borrowed, launchers>>

(* unlinkSync removes whatever the file says by now.                       *)
ClearUnlink(d) ==
    /\ Go(d, "clearUnlink", NextRound(d))
    /\ pidFile' = NoDaemon
    /\ UNCHANGED <<socket, election, service, borrowed, launchers>>
-----------------------------------------------------------------------------
(* Daemon.start: a socket file that was left behind goes first.            *)
UnlinkSocket(d) ==
    /\ Go(d, "unlinkSocket", "listen")
    /\ socket' = NoDaemon
    /\ UNCHANGED <<pidFile, election, service, borrowed, launchers>>

(* A daemon starts without clients, so its timer runs from the beginning. *)
Listen(d) ==
    /\ socket = NoDaemon
    /\ Go(d, "listen", "serving")
    /\ socket' = d
    /\ idleTimer' = [idleTimer EXCEPT ![d] = TRUE]
    /\ UNCHANGED <<pidFile, election, clients, borrowed, launchers>>

(* EADDRINUSE: start rejects and the process exits, its pid file in place. *)
BindFails(d) ==
    /\ socket # NoDaemon
    /\ Go(d, "listen", "killed")
    /\ UNCHANGED <<files, election, service, borrowed, launchers>>

\* Mutation: the idle timer runs on when a client comes.
AcceptTimed(d, l) ==
    /\ dpc[d] = "serving"
    /\ lpc[l] = "hello" /\ conn[l] = d
    /\ clients' = [clients EXCEPT ![d] = @ \cup {l}]
    /\ lpc' = [lpc EXCEPT ![l] = IF l \in OldLaunchers THEN "direct" ELSE "proxied"]
    /\ UNCHANGED <<files, dpc, election, idleTimer, borrowed, conn, tries>>

(* handleConnection: a session, and the hello line.  A launcher of another *)
(* version hangs up on reading it.                                         *)
Accept(d, l) ==
    /\ dpc[d] = "serving"
    /\ lpc[l] = "hello" /\ conn[l] = d
    /\ clients' = [clients EXCEPT ![d] = @ \cup {l}]
    /\ idleTimer' = [idleTimer EXCEPT ![d] = FALSE]
    /\ lpc' = [lpc EXCEPT ![l] = IF l \in OldLaunchers THEN "direct" ELSE "proxied"]
    /\ UNCHANGED <<files, dpc, election, borrowed, conn, tries>>

\* Mutation: the last client to go does not arm the timer.
DropClientUntimed(d, l) ==
    /\ dpc[d] = "serving"
    /\ l \in clients[d] /\ lpc[l] # "proxied"
    /\ clients' = [clients EXCEPT ![d] = @ \ {l}]
    /\ UNCHANGED <<files, dpc, election, idleTimer, borrowed, launchers>>

(* dropClient, when a connection has closed.                               *)
DropClient(d, l) ==
    /\ dpc[d] = "serving"
    /\ l \in clients[d] /\ lpc[l] # "proxied"
    /\ clients' = [clients EXCEPT ![d] = @ \ {l}]
    /\ idleTimer' = [idleTimer EXCEPT ![d] = @ \/ clients[d] = {l}]
    /\ UNCHANGED <<files, dpc, election, borrowed, launchers>>

(* stop: all sessions end, and closing the server removes what is at the   *)
(* socket's path.                                                          *)
Stop(d) ==
    /\ Go(d, "serving", "closing")
    /\ idleTimer' = [idleTimer EXCEPT ![d] = FALSE]
    /\ clients' = [clients EXCEPT ![d] = {}]
    /\ socket' = NoDaemon
    /\ UNCHANGED <<pidFile, election, borrowed, launchers>>

(* The idle timer fires; with a client it is only armed again.             *)
IdleTimeout(d) ==
    /\ idleTimer[d]
    /\ clients[d] = {}
    /\ Stop(d)

(* SIGTERM or SIGINT, clients or not.                                      *)
Signal(d) == Stop(d)

(* server.close() calls back when the last connection has ended.           *)
Closed(d) ==
    /\ \A l \in Launchers : ~(lpc[l] = "proxied" /\ conn[l] = d)
    /\ Go(d, "closing", "cleanRead")
    /\ UNCHANGED <<files, election, service, borrowed, launchers>>

\* Mutation: the pid file is left for the next daemon to clear.
CleanReadLeaves(d) ==
    /\ Go(d, "cleanRead", "cleanSocket")
    /\ UNCHANGED <<files, election, service, borrowed, launchers>>

(* cleanupLockfile: the pid file, if it is still this daemon's ...         *)
CleanRead(d) ==
    /\ Go(d, "cleanRead", IF pidFile = d THEN "cleanUnlink" ELSE "cleanSocket")
    /\ UNCHANGED <<files, election, service, borrowed, launchers>>

CleanUnlink(d) ==
    /\ Go(d, "cleanUnlink", "cleanSocket")
    /\ pidFile' = NoDaemon
    /\ UNCHANGED <<socket, election, service, borrowed, launchers>>

(* ... and then the socket's path, whoever has bound it since.             *)
CleanSocket(d) ==
    /\ Go(d, "cleanSocket", "exited")
    /\ socket' = NoDaemon
    /\ UNCHANGED <<pidFile, election, service, borrowed, launchers>>
-----------------------------------------------------------------------------
\* Mutation: the retries are not counted.
ProbeFailedUncounted(l) ==
    /\ tries' = [tries EXCEPT ![l] = 1]
    /\ lpc' = [lpc EXCEPT ![l] = "probing"]
    /\ UNCHANGED <<dpc, conn>>

\* Pids are given in ascending order.
IsNext(d) == \A e \in Daemons : e < d => dpc[e] # "unborn"

(* runProxy has failed.  The first time the launcher spawns a daemon; its  *)
(* last retry makes it serve the session itself.                           *)
ProbeFailed(l) ==
    /\ lpc' = [lpc EXCEPT ![l] = IF tries[l] = MaxTries THEN "direct" ELSE "probing"]
    /\ tries' = [tries EXCEPT ![l] = IF @ = MaxTries THEN @ ELSE @ + 1]
    /\ \/ tries[l] = 0 /\ \E d \in Daemons : IsNext(d) /\ Go(d, "unborn", "link")
       \/ (tries[l] > 0 \/ \A d \in Daemons : dpc[d] # "unborn") /\ UNCHANGED dpc
    /\ UNCHANGED conn

(* The path leads to a listening daemon, to nothing, or to a dead one.     *)
Probe(l) ==
    /\ lpc[l] = "probing"
    /\ LET answers == socket # NoDaemon /\ dpc[socket] = "serving"
       IN  \/ /\ answers
              /\ lpc' = [lpc EXCEPT ![l] = "hello"]
              /\ conn' = [conn EXCEPT ![l] = socket]
              /\ UNCHANGED <<dpc, tries>>
           \/ ~answers /\ ProbeFailed(l)
    /\ UNCHANGED <<files, election, service, borrowed>>

(* The daemon closed before its hello, or three seconds went by.           *)
NoHello(l) ==
    /\ lpc[l] = "hello"
    /\ ProbeFailed(l)
    /\ UNCHANGED <<files, election, service, borrowed>>

(* The host hangs up. *)
HostLeaves(l) ==
    /\ lpc[l] = "proxied"
    /\ lpc' = [lpc EXCEPT ![l] = "gone"]
    /\ UNCHANGED <<files, dpc, election, service, borrowed, conn, tries>>

(* The daemon's end of the connection closes, and the proxy exits.         *)
DaemonLost(l) ==
    /\ lpc[l] = "proxied"
    /\ dpc[conn[l]] # "serving"
    /\ lpc' = [lpc EXCEPT ![l] = "gone"]
    /\ UNCHANGED <<files, dpc, election, service, borrowed, conn, tries>>

(* SIGKILL, or a signal before the handlers are there.                     *)
Kill(d) ==
    /\ Runs(d)
    /\ dpc' = [dpc EXCEPT ![d] = "killed"]
    /\ clients' = [clients EXCEPT ![d] = {}]
    /\ idleTimer' = [idleTimer EXCEPT ![d] = FALSE]
    /\ UNCHANGED <<files, election, borrowed, launchers>>

(* Some other process is given the pid of a dead daemon.                   *)
Reuse(d) ==
    /\ dpc[d] \in {"exited", "killed"}
    /\ pidFile = d
    /\ borrowed' = borrowed \cup {d}
    /\ UNCHANGED <<files, dpc, election, service, launchers>>
-----------------------------------------------------------------------------
Elect(d) == Link(d) \/ ReadHolder(d) \/ Judge(d) \/ ClearRead(d) \/ ClearUnlink(d)
Start(d) == UnlinkSocket(d) \/ Listen(d) \/ BindFails(d)
Leave(d) == Closed(d) \/ CleanRead(d) \/ CleanUnlink(d) \/ CleanSocket(d)

DaemonStep(d) ==
    \/ Elect(d) \/ Start(d) \/ Leave(d)
    \/ IdleTimeout(d) \/ Signal(d) \/ Kill(d) \/ Reuse(d)
    \/ \E l \in Launchers : Accept(d, l) \/ DropClient(d, l)

LauncherStep(l) == Probe(l) \/ NoHello(l) \/ HostLeaves(l) \/ DaemonLost(l)

Next ==
    \/ \E d \in Daemons : DaemonStep(d)
    \/ \E l \in Launchers : LauncherStep(l)

Spec == Init /\ [][Next]_vars

(* Processes run, timers fire, connections are accepted or time out.       *)
(* Nobody has to hang up, to be killed or to be signalled.                 *)
Fairness ==
    /\ \A d \in Daemons :
          /\ WF_vars(Elect(d) \/ Start(d) \/ Leave(d))
          /\ WF_vars(IdleTimeout(d))
          /\ \A l \in Launchers : WF_vars(DropClient(d, l))
    /\ \A l \in Launchers : WF_vars(Probe(l)) /\ WF_vars(NoHello(l)) /\ WF_vars(DaemonLost(l))

FairSpec == Spec /\ Fairness
-----------------------------------------------------------------------------
(* As long as no daemon has died without cleaning up, at most one process  *)
(* is the daemon, from its election until it has removed the pid file,     *)
(* however elections, exits and late clean-ups interleave.                 *)
OneDaemonWithoutCrash ==
    (\A d \in Daemons : dpc[d] # "killed") =>
        \A d, e \in Daemons : dpc[d] \in Owning /\ dpc[e] \in Owning => d = e

\* d's record is in the pid file and no other process is past its check.
Settled(d) ==
    /\ pidFile = d
    /\ dpc[d] \in Owning
    /\ \A e \in Daemons \ {d} : dpc[e] \notin {"clearUnlink", "cleanUnlink"}

(* Crashes or not, once that is so no election and no late clean-up takes  *)
(* the pid file from the daemon before it goes.                            *)
SettledDaemonIsKept ==
    [][\A d \in Daemons :
          Settled(d) => Settled(d)' \/ Kill(d) \/ BindFails(d) \/ CleanUnlink(d)]_vars

(* A daemon with an attached launcher never times out: it counts every     *)
(* launcher it serves, and its timer runs only while it counts none.       *)
AttachedKeepsDaemon ==
    \A d \in Daemons : dpc[d] = "serving" =>
        /\ idleTimer[d] <=> clients[d] = {}
        /\ \A l \in Launchers : lpc[l] = "proxied" /\ conn[l] = d => l \in clients[d]

(* A daemon that has gone in good order leaves no pid file of its own that *)
(* would keep the next one from starting.                                  *)
NoOrphanedPidFile == \A d \in Daemons : dpc[d] = "exited" => pidFile # d

(* The pid file elects: one daemon at a time while none is killed, and no  *)
(* daemon gone in good order that still holds it.                          *)
PidFileElectsOne == OneDaemonWithoutCrash /\ NoOrphanedPidFile

(* A daemon without clients goes, reachable or not.                        *)
IdleDaemonLeaves ==
    \A d \in Daemons :
        (dpc[d] = "serving" /\ clients[d] = {}) ~> (dpc[d] # "serving" \/ clients[d] # {})

(* "A misbehaving daemon must never block a session from starting": every  *)
(* launcher is proxied or serves itself in the end, although daemons die,  *)
(* elections race, sockets vanish and pids are reused.                     *)
LauncherIsServed == \A l \in Launchers : <>(lpc[l] \notin {"probing", "hello"})

(* Nobody is stuck: neither a daemon without clients nor a launcher.       *)
EveryoneMovesOn == IdleDaemonLeaves /\ LauncherIsServed
=============================================================================
