------------------------ MODULE DaemonElectionProofs ------------------------
(* Safety of the daemon's election and service, for any number of daemons, *)
(* launchers, rounds and retries, and with deaths at any point.            *)
EXTENDS DaemonElection, TLAPS

USE DaemonElectionAssumption

LEMMA InitTypeOK == Init => TypeOK
BY DEF Init, TypeOK, DaemonStates, Owning

(* The states of a daemon process and of the launchers stay in their       *)
(* protocols.                                                              *)
LEMMA NextTypeOK == TypeOK /\ [Next]_vars => TypeOK'
<1> SUFFICES ASSUME TypeOK, [Next]_vars PROVE TypeOK'
    OBVIOUS
<1> USE DEF TypeOK, DaemonStates, Owning, files, election, service, launchers, Go
<1>1. ASSUME NEW d \in Daemons, Elect(d) PROVE TypeOK'
    <2>1. CASE Link(d) BY <2>1 DEF Link
    <2>2. CASE ReadHolder(d) BY <2>2 DEF ReadHolder
    <2>3. CASE Judge(d) BY <2>3 DEF Judge
    <2>4. CASE ClearRead(d) BY <2>4 DEF ClearRead, NextRound
    <2>5. CASE ClearUnlink(d) BY <2>5 DEF ClearUnlink, NextRound
    <2> QED BY <1>1, <2>1, <2>2, <2>3, <2>4, <2>5 DEF Elect
<1>2. ASSUME NEW d \in Daemons, Start(d) PROVE TypeOK'
    BY <1>2, ZenonT(30) DEF Start, UnlinkSocket, Listen, BindFails
<1>3. ASSUME NEW d \in Daemons, Leave(d) PROVE TypeOK'
    BY <1>3, ZenonT(30) DEF Leave, Closed, CleanRead, CleanUnlink, CleanSocket
<1>4. ASSUME NEW d \in Daemons, Stop(d) PROVE TypeOK'
    BY <1>4 DEF Stop
<1>5. ASSUME NEW d \in Daemons, Kill(d) \/ Reuse(d) PROVE TypeOK'
    BY <1>5, ZenonT(30) DEF Kill, Reuse, Runs
<1>6. ASSUME NEW d \in Daemons, NEW l \in Launchers, Accept(d, l) \/ DropClient(d, l)
      PROVE  TypeOK'
    <2>1. CASE Accept(d, l)
        BY <2>1 DEF Accept
    <2>2. CASE DropClient(d, l)
        <3>1. (idleTimer[d] \/ clients[d] = {l}) \in BOOLEAN
            OBVIOUS
        <3>2. idleTimer' \in [Daemons -> BOOLEAN]
            BY <2>2, <3>1 DEF DropClient
        <3>3. clients' \in [Daemons -> SUBSET Launchers]
            BY <2>2 DEF DropClient
        <3> QED BY <2>2, <3>2, <3>3 DEF DropClient
    <2> QED BY <1>6, <2>1, <2>2
<1>7. ASSUME NEW l \in Launchers, Probe(l) \/ NoHello(l) PROVE TypeOK'
    <2>1. CASE /\ ProbeFailed(l)
               /\ UNCHANGED <<files, election, service, borrowed>>
        <3>1. /\ lpc' \in [Launchers -> {"probing", "hello", "proxied", "direct", "gone"}]
              /\ \A x \in Launchers : lpc'[x] \in {"hello", "proxied"} => lpc[x] = lpc'[x]
              /\ tries' \in [Launchers -> 0 .. MaxTries]
              /\ conn' = conn
            BY <2>1 DEF ProbeFailed
        <3>2. /\ dpc' \in [Daemons -> DaemonStates]
              /\ \A x \in Daemons : dpc'[x] # dpc[x] => dpc[x] = "unborn"
            BY <2>1 DEF ProbeFailed
        <3> QED BY <2>1, <3>1, <3>2
    <2>2. CASE /\ socket # NoDaemon
               /\ lpc' = [lpc EXCEPT ![l] = "hello"]
               /\ conn' = [conn EXCEPT ![l] = socket]
               /\ UNCHANGED <<dpc, tries>>
               /\ UNCHANGED <<files, election, service, borrowed>>
        BY <2>2
    <2> QED BY <1>7, <2>1, <2>2 DEF Probe, NoHello
<1>8. ASSUME NEW l \in Launchers, HostLeaves(l) \/ DaemonLost(l) PROVE TypeOK'
    <2>1. /\ lpc' = [lpc EXCEPT ![l] = "gone"]
          /\ UNCHANGED <<files, dpc, election, service, borrowed, conn, tries>>
        BY <1>8 DEF HostLeaves, DaemonLost
    <2> QED BY <2>1
<1>9. CASE UNCHANGED vars
    BY <1>9 DEF vars, Runs
<1> QED
    BY <1>1, <1>2, <1>3, <1>4, <1>5, <1>6, <1>7, <1>8, <1>9
       DEF Next, DaemonStep, LauncherStep, IdleTimeout, Signal

(* Every daemon and every launcher stays inside its protocol.              *)
THEOREM DaemonTypeOK == Spec => []TypeOK
BY InitTypeOK, NextTypeOK, PTL DEF Spec

(* The pid file names the daemon it belongs to or one that was killed.     *)
PidFileHasOwner ==
    \A d \in Daemons : pidFile = d => dpc[d] \in Owning \cup {"killed"}

(* Without a death, the daemon is the one in the pid file, and nobody ever *)
(* finds a file to clear.                                                  *)
OwnerIsNamed ==
    (\A d \in Daemons : dpc[d] # "killed") =>
        \A d \in Daemons : /\ dpc[d] \in Owning => pidFile = d
                           /\ dpc[d] # "clearUnlink"

ElectionInv == TypeOK /\ PidFileHasOwner /\ OwnerIsNamed

LEMMA InitElectionInv == Init => ElectionInv
BY InitTypeOK DEF Init, ElectionInv, PidFileHasOwner, OwnerIsNamed, Owning

LEMMA NextElectionInv == ElectionInv /\ [Next]_vars => ElectionInv'
<1> SUFFICES ASSUME ElectionInv, [Next]_vars
             PROVE  PidFileHasOwner' /\ OwnerIsNamed'
    BY NextTypeOK DEF ElectionInv
<1> USE DEF ElectionInv, PidFileHasOwner, OwnerIsNamed, Owning, DaemonStates, TypeOK,
            files, election, service, launchers, Go
<1>1. ASSUME NEW d \in Daemons, Elect(d) PROVE PidFileHasOwner' /\ OwnerIsNamed'
    <2>1. CASE Link(d) BY <2>1 DEF Link
    <2>2. CASE ReadHolder(d) BY <2>2 DEF ReadHolder
    <2>3. CASE Judge(d) BY <2>3 DEF Judge
    <2>4. CASE ClearRead(d) BY <2>4 DEF ClearRead, NextRound, SeemsAlive, Runs
    <2>5. CASE ClearUnlink(d) BY <2>5 DEF ClearUnlink, NextRound
    <2> QED BY <1>1, <2>1, <2>2, <2>3, <2>4, <2>5 DEF Elect
<1>2. ASSUME NEW d \in Daemons, Start(d) PROVE PidFileHasOwner' /\ OwnerIsNamed'
    BY <1>2 DEF Start, UnlinkSocket, Listen, BindFails
<1>3. ASSUME NEW d \in Daemons, Leave(d) PROVE PidFileHasOwner' /\ OwnerIsNamed'
    BY <1>3 DEF Leave, Closed, CleanRead, CleanUnlink, CleanSocket
<1>4. ASSUME NEW d \in Daemons, Stop(d) PROVE PidFileHasOwner' /\ OwnerIsNamed'
    BY <1>4 DEF Stop
<1>5. ASSUME NEW d \in Daemons, Kill(d) \/ Reuse(d) PROVE PidFileHasOwner' /\ OwnerIsNamed'
    BY <1>5 DEF Kill, Reuse
<1>6. ASSUME NEW d \in Daemons, NEW l \in Launchers, Accept(d, l) \/ DropClient(d, l)
      PROVE  PidFileHasOwner' /\ OwnerIsNamed'
    BY <1>6 DEF Accept, DropClient
<1>7. ASSUME NEW l \in Launchers, LauncherStep(l) PROVE PidFileHasOwner' /\ OwnerIsNamed'
    <2>1. /\ pidFile' = pidFile
          /\ dpc' \in [Daemons -> DaemonStates]
          /\ \A x \in Daemons : dpc'[x] = dpc[x] \/ (dpc[x] = "unborn" /\ dpc'[x] = "link")
        BY <1>7 DEF LauncherStep, Probe, NoHello, ProbeFailed, HostLeaves, DaemonLost
    <2> QED BY <2>1
<1>8. CASE UNCHANGED vars
    BY <1>8 DEF vars
<1> QED
    BY <1>1, <1>2, <1>3, <1>4, <1>5, <1>6, <1>7, <1>8
       DEF Next, DaemonStep, IdleTimeout, Signal

LEMMA ElectionIsInvariant == Spec => []ElectionInv
BY InitElectionInv, NextElectionInv, PTL DEF Spec

(* OneDaemonWithoutCrash holds: while no daemon has died without cleaning  *)
(* up, the process named by the pid file is the only daemon.               *)
THEOREM ElectionIsExclusive == Spec => []OneDaemonWithoutCrash
<1>1. ElectionInv => OneDaemonWithoutCrash
    BY DEF ElectionInv, OwnerIsNamed, OneDaemonWithoutCrash
<1> QED BY <1>1, ElectionIsInvariant, PTL

(* NoOrphanedPidFile holds: a daemon that has exited has taken its pid     *)
(* file along.                                                             *)
THEOREM NoPidFileIsOrphaned == Spec => []NoOrphanedPidFile
<1>1. ElectionInv => NoOrphanedPidFile
    BY DEF ElectionInv, PidFileHasOwner, NoOrphanedPidFile, Owning
<1> QED BY <1>1, ElectionIsInvariant, PTL

(* PidFileElectsOne: one daemon while none is killed, and none that left   *)
(* in good order still holds the pid file.                                 *)
THEOREM ThePidFileElects == Spec => []PidFileElectsOne
<1> QED BY ElectionIsExclusive, NoPidFileIsOrphaned, PTL DEF PidFileElectsOne

(* SettledDaemonIsKept holds: no election and no late clean-up takes the   *)
(* pid file from a settled daemon.                                         *)
THEOREM SettledDaemonsAreKept == Spec => SettledDaemonIsKept
<1>1. ASSUME TypeOK, [Next]_vars, NEW d \in Daemons, Settled(d)
      PROVE  Settled(d)' \/ Kill(d) \/ BindFails(d) \/ CleanUnlink(d)
    <2> USE <1>1 DEF Settled, TypeOK, Owning, Go, files, election, service, launchers
    <2>1. ASSUME NEW e \in Daemons, Elect(e) PROVE Settled(d)'
        <3>1. CASE Link(e) BY <3>1 DEF Link
        <3>2. CASE ReadHolder(e) BY <3>2 DEF ReadHolder
        <3>3. CASE Judge(e) BY <3>3 DEF Judge
        <3>4. CASE ClearRead(e) BY <3>4 DEF ClearRead, NextRound, SeemsAlive, Runs
        <3>5. CASE ClearUnlink(e) BY <3>5 DEF ClearUnlink
        <3> QED BY <2>1, <3>1, <3>2, <3>3, <3>4, <3>5 DEF Elect
    <2>2. ASSUME NEW e \in Daemons, Start(e) PROVE Settled(d)' \/ BindFails(d)
        BY <2>2 DEF Start, UnlinkSocket, Listen, BindFails
    <2>3. ASSUME NEW e \in Daemons, Leave(e) PROVE Settled(d)' \/ CleanUnlink(d)
        BY <2>3 DEF Leave, Closed, CleanRead, CleanUnlink, CleanSocket
    <2>4. ASSUME NEW e \in Daemons, Stop(e) PROVE Settled(d)'
        BY <2>4 DEF Stop
    <2>5. ASSUME NEW e \in Daemons, Kill(e) \/ Reuse(e) PROVE Settled(d)' \/ Kill(d)
        BY <2>5 DEF Kill, Reuse
    <2>6. ASSUME NEW e \in Daemons, NEW l \in Launchers, Accept(e, l) \/ DropClient(e, l)
          PROVE  Settled(d)'
        BY <2>6 DEF Accept, DropClient
    <2>7. ASSUME NEW l \in Launchers, LauncherStep(l) PROVE Settled(d)'
        <3>1. /\ pidFile' = pidFile
              /\ \A x \in Daemons : dpc'[x] = dpc[x] \/ (dpc[x] = "unborn" /\ dpc'[x] = "link")
            BY <2>7 DEF LauncherStep, Probe, NoHello, ProbeFailed, HostLeaves, DaemonLost
        <3> QED BY <3>1
    <2>8. CASE UNCHANGED vars
        BY <2>8 DEF vars
    <2> QED
        BY <2>1, <2>2, <2>3, <2>4, <2>5, <2>6, <2>7, <2>8
           DEF Next, DaemonStep, IdleTimeout, Signal
<1>2. TypeOK /\ [Next]_vars
        => [\A d \in Daemons :
              Settled(d) => Settled(d)' \/ Kill(d) \/ BindFails(d) \/ CleanUnlink(d)]_vars
    BY <1>1
<1> QED BY <1>2, DaemonTypeOK, PTL DEF Spec, SettledDaemonIsKept

(* A launcher is connected only to a daemon that serves or has served, and *)
(* a daemon that does not serve has neither clients nor a timer.           *)
Served == {"serving", "closing", "cleanRead", "cleanUnlink", "cleanSocket", "exited", "killed"}

ServiceInv ==
    /\ TypeOK
    /\ AttachedKeepsDaemon
    /\ \A l \in Launchers : lpc[l] \in {"hello", "proxied"} => dpc[conn[l]] \in Served
    /\ \A d \in Daemons : dpc[d] # "serving" => clients[d] = {} /\ ~idleTimer[d]

LEMMA InitServiceInv == Init => ServiceInv
BY InitTypeOK DEF Init, ServiceInv, AttachedKeepsDaemon

LEMMA NextServiceInv == ServiceInv /\ [Next]_vars => ServiceInv'
<1> SUFFICES ASSUME ServiceInv, [Next]_vars PROVE ServiceInv'
    OBVIOUS
<1>0. TypeOK /\ TypeOK'
    BY NextTypeOK DEF ServiceInv
<1> USE <1>0 DEF ServiceInv, AttachedKeepsDaemon, Served, TypeOK,
            files, election, service, launchers, Go
<1>1. ASSUME NEW d \in Daemons, Elect(d) \/ Leave(d) \/ UnlinkSocket(d) \/ BindFails(d)
      PROVE  ServiceInv'
    <2>1. /\ UNCHANGED <<service, launchers>>
          /\ \A x \in Daemons : /\ dpc[x] = "serving" <=> dpc'[x] = "serving"
                                /\ dpc[x] \in Served => dpc'[x] \in Served
        BY <1>1 DEF Elect, Link, ReadHolder, Judge, ClearRead, ClearUnlink, NextRound,
                    Leave, Closed, CleanRead, CleanUnlink, CleanSocket, UnlinkSocket, BindFails
    <2> QED BY <2>1, ZenonT(30)
<1>2. ASSUME NEW d \in Daemons, Listen(d) PROVE ServiceInv'
    BY <1>2 DEF Listen
<1>3. ASSUME NEW d \in Daemons, Stop(d) PROVE ServiceInv'
    BY <1>3 DEF Stop
<1>4. ASSUME NEW d \in Daemons, Kill(d) \/ Reuse(d) PROVE ServiceInv'
    <2>1. CASE Kill(d) BY <2>1 DEF Kill
    <2>2. CASE Reuse(d) BY <2>2 DEF Reuse
    <2> QED BY <1>4, <2>1, <2>2
<1>5. ASSUME NEW d \in Daemons, NEW l \in Launchers, Accept(d, l) PROVE ServiceInv'
    BY <1>5 DEF Accept
<1>6. ASSUME NEW d \in Daemons, NEW l \in Launchers, DropClient(d, l) PROVE ServiceInv'
    <2>1. /\ dpc[d] = "serving" /\ dpc' = dpc /\ UNCHANGED launchers
          /\ l \in clients[d] /\ lpc[l] # "proxied"
          /\ clients' = [clients EXCEPT ![d] = @ \ {l}]
          /\ \A x \in Daemons \ {d} : idleTimer'[x] = idleTimer[x]
          /\ idleTimer'[d] <=> idleTimer[d] \/ clients[d] = {l}
        BY <1>6, ZenonT(30) DEF DropClient
    <2>2. ~idleTimer[d]
        BY <2>1
    <2>3. clients'[d] = {} <=> clients[d] = {l}
        BY <2>1
    <2>4. AttachedKeepsDaemon'
        BY <2>1, <2>2, <2>3
    <2> QED BY <2>1, <2>4
<1>7. ASSUME NEW l \in Launchers, Probe(l) \/ NoHello(l) PROVE ServiceInv'
    <2>1. CASE /\ ProbeFailed(l)
               /\ UNCHANGED service
        <3>1. /\ \A x \in Daemons : /\ dpc[x] = "serving" <=> dpc'[x] = "serving"
                                    /\ dpc[x] \in Served => dpc'[x] \in Served
              /\ \A x \in Launchers : lpc'[x] \in {"hello", "proxied"} => lpc[x] = lpc'[x]
              /\ conn' = conn
            BY <2>1 DEF ProbeFailed
        <3>2. AttachedKeepsDaemon'
            BY <2>1, <3>1
        <3>3. \A x \in Launchers : lpc'[x] \in {"hello", "proxied"} => dpc'[conn'[x]] \in Served
            BY <2>1, <3>1
        <3>4. \A x \in Daemons : dpc'[x] # "serving" => clients'[x] = {} /\ ~idleTimer'[x]
            BY <2>1, <3>1
        <3> QED BY <3>2, <3>3, <3>4
    <2>2. CASE /\ dpc[socket] = "serving" /\ socket \in Daemons
               /\ lpc' = [lpc EXCEPT ![l] = "hello"]
               /\ conn' = [conn EXCEPT ![l] = socket]
               /\ UNCHANGED <<dpc, service>>
        BY <2>2
    <2> QED BY <1>7, <2>1, <2>2 DEF Probe, NoHello
<1>8. ASSUME NEW l \in Launchers, HostLeaves(l) \/ DaemonLost(l) PROVE ServiceInv'
    BY <1>8 DEF HostLeaves, DaemonLost
<1>9. CASE UNCHANGED vars
    BY <1>9 DEF vars
<1> QED
    BY <1>1, <1>2, <1>3, <1>4, <1>5, <1>6, <1>7, <1>8, <1>9
       DEF Next, DaemonStep, Start, LauncherStep, IdleTimeout, Signal

(* AttachedKeepsDaemon holds: a serving daemon counts every launcher it    *)
(* serves, and its idle timer is armed exactly while it counts none.       *)
THEOREM AttachedLaunchersKeepTheDaemon == Spec => []AttachedKeepsDaemon
<1>1. ServiceInv => AttachedKeepsDaemon
    BY DEF ServiceInv
<1> QED BY <1>1, InitServiceInv, NextServiceInv, PTL DEF Spec
=============================================================================
