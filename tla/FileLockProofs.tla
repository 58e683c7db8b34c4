--------------------------- MODULE FileLockProofs ---------------------------
(***************************************************************************)
(* What TLAPS proves of the FileLock, for every set of handles, processes  *)
(* and disturbances.                                                       *)
(***************************************************************************)
EXTENDS FileLock, TLAPS

USE FileLockAssumption

LEMMA InitTypeOK == Init => TypeOK
  BY DEF Init, TypeOK, LockFiles, NoFile, Locations, Unread

LEMMA EmptyFileTyped ==
    /\ NoFile \in LockFiles
    /\ \A h \in Handles : [owner |-> h, pid |-> NoPid, old |-> FALSE] \in LockFiles
    /\ Unread \in [pid : Processes \cup {NoPid}, old : BOOLEAN]
  BY DEF NoFile, LockFiles, Unread

LEMMA HandleStepTypeOK ==
    ASSUME TypeOK, NEW h \in Handles,
           AcquireStep(h) \/ ReleaseStep(h) \/ WriteFails(h)
    PROVE  TypeOK'
<1> USE DEF TypeOK, Locations, Go
<1>1. CASE Check(h) \/ Read(h) \/ Stat(h)
  BY <1>1 DEF Check, Read, Stat, LockFiles
<1>6. CASE Judge(h)
  <2>1. seen' = seen \/ seen' = [seen EXCEPT ![h] = Unread]
    BY <1>6 DEF Judge
  <2>2. seen' \in [Handles -> [pid : Processes \cup {NoPid}, old : BOOLEAN]]
    BY <2>1, EmptyFileTyped
  <2> QED BY <1>6, <2>2 DEF Judge
<1>2. CASE Create(h) \/ WriteFails(h)
  BY <1>2, EmptyFileTyped DEF Create, WriteFails
<1>3. CASE Write(h)
  <2>1. file' \in LockFiles
    BY <1>3 DEF Write, LockFiles
  <2> QED BY <1>3, <2>1 DEF Write
<1>4. CASE Unlink(h) \/ ForceUnlink(h) \/ ReleaseUnlink(h)
  BY <1>4, EmptyFileTyped DEF Unlink, ForceUnlink, ReleaseUnlink
<1>5. CASE Release(h) \/ ReleaseRead(h)
  BY <1>5 DEF Release, ReleaseRead
<1> QED BY <1>1, <1>2, <1>3, <1>4, <1>5, <1>6 DEF AcquireStep, ReleaseStep

LEMMA NextTypeOK == TypeOK /\ [Next]_vars => TypeOK'
<1> SUFFICES ASSUME TypeOK, [Next]_vars PROVE TypeOK'
  OBVIOUS
<1>1. ASSUME NEW h \in Handles, AcquireStep(h) \/ ReleaseStep(h) \/ WriteFails(h)
      PROVE  TypeOK'
  BY <1>1, HandleStepTypeOK
<1>2. ASSUME NEW p \in Processes, Crash(p) \/ Reuse(p) PROVE TypeOK'
  BY <1>2 DEF Crash, Reuse, TypeOK, Locations
<1>3. CASE Age
  <2>1. file' \in LockFiles
    BY <1>3 DEF Age, TypeOK, LockFiles
  <2> QED BY <1>3, <2>1 DEF Age, TypeOK
<1>5. CASE Unlock
  BY <1>5, EmptyFileTyped DEF Unlock, TypeOK
<1>4. CASE UNCHANGED vars
  BY <1>4 DEF vars, TypeOK
<1> QED BY <1>1, <1>2, <1>3, <1>4, <1>5 DEF Next

(* The variables of FileLock keep their types in every behaviour.          *)
THEOREM FileLockTypeOK == Spec => []TypeOK
  BY InitTypeOK, NextTypeOK, PTL DEF Spec
-----------------------------------------------------------------------------
(* A step of v itself out of "holding" can only be the start of release.   *)
LEMMA HolderOnlyReleases ==
    ASSUME NEW v \in Handles, pc[v] = "holding",
           AcquireStep(v) \/ ReleaseStep(v) \/ WriteFails(v)
    PROVE  Release(v)
  BY DEF AcquireStep, ReleaseStep, Check, Read, Stat, Judge, Unlink, ForceUnlink, Create,
         Write, WriteFails, ReleaseRead, ReleaseUnlink, Go

(* A step of another handle leaves a settled lock settled.                 *)
LEMMA OthersAreRefused ==
    ASSUME TypeOK, NEW v \in Handles, Settled(v), NEW h \in Handles, h # v,
           AcquireStep(h) \/ ReleaseStep(h) \/ WriteFails(h)
    PROVE  Settled(v)'
<1> USE DEF TypeOK
<1>1. /\ pc[v] = "holding" /\ ProcOf[v] \in alive
      /\ file = [owner |-> v, pid |-> ProcOf[v], old |-> FALSE]
      /\ <<ProcOf[h], ProcOf[v]>> \notin CannotSignal
      /\ ProcOf[v] \in Processes
  BY DEF Settled, HeldAlone
<1>2. Exists /\ ProcOf[v] # NoPid
  BY <1>1 DEF Exists, NoFile
<1>3. /\ pc[h] \notin {"unlink", "force", "write", "holding", "releaseRead", "releaseUnlink"}
      /\ pc[h] = "stat" => seen[h].pid = ProcOf[v]
      /\ pc[h] = "judge" => seen[h].pid = ProcOf[v] /\ seen[h].old = FALSE
  BY DEF Settled, HeldAlone
<1>4. Check(h) \/ Read(h) \/ Stat(h) \/ Judge(h) \/ Create(h)
  BY <1>3 DEF AcquireStep, ReleaseStep, Unlink, ForceUnlink, Write, WriteFails,
              Release, ReleaseRead, ReleaseUnlink, Go
<1>5. /\ file' = file /\ alive' = alive
      /\ \A g \in Handles \ {h} : pc'[g] = pc[g] /\ seen'[g] = seen[g]
      /\ \/ pc'[h] \in {"outside", "read", "create"}
         \/ pc'[h] = "stat" /\ seen'[h].pid = ProcOf[v]
         \/ pc'[h] = "judge" /\ seen'[h] = [pid |-> ProcOf[v], old |-> FALSE]
  <2>1. CASE Check(h)
    BY <1>1, <2>1 DEF Check, Go
  <2>2. CASE Read(h)
    BY <1>1, <1>2, <2>2 DEF Read, Go
  <2>3. CASE Stat(h)
    <3>1. /\ pc[h] = "stat"
          /\ pc' = [pc EXCEPT ![h] = "judge"]
          /\ seen' = [seen EXCEPT ![h].old = FALSE]
          /\ file' = file /\ alive' = alive
      BY <1>1, <1>2, <2>3 DEF Stat, Go
    <3>2. seen'[h] = [pid |-> ProcOf[v], old |-> FALSE]
      BY <1>3, <3>1
    <3> QED BY <3>1, <3>2
  <2>4. CASE Judge(h)
    BY <1>1, <1>2, <1>3, <2>4 DEF Judge, Go, SeemsAlive
  <2>5. CASE Create(h)
    BY <1>2, <2>5 DEF Create, Go
  <2> QED BY <1>4, <2>1, <2>2, <2>3, <2>4, <2>5
<1>6. ASSUME NEW g \in Handles \ {v}
      PROVE  \/ pc'[g] \in {"outside", "read", "create", "dead"}
             \/ pc'[g] = "stat" /\ seen'[g].pid = ProcOf[v]
             \/ pc'[g] = "judge" /\ seen'[g] = [pid |-> ProcOf[v], old |-> FALSE]
  <2>1. CASE g = h
    BY <1>5, <2>1
  <2>2. CASE g # h
    BY <1>5, <2>2 DEF Settled, HeldAlone
  <2> QED BY <2>1, <2>2
<1>7. HeldAlone(v)'
  BY <1>1, <1>5, <1>6 DEF HeldAlone
<1> QED BY <1>7 DEF Settled

(* A lock that has settled is kept until its holder lets go of it, dies or *)
(* is held up past the staleness timeout, or the user removes it.          *)
THEOREM SettledLocksAreKept == Spec => SettledLockIsKept
<1>1. TypeOK /\ [Next]_vars =>
        [\A v \in Handles : Settled(v) => Settled(v)' \/ GivesUp(v)]_vars
  <2> SUFFICES ASSUME TypeOK, Next, NEW v \in Handles, Settled(v)
               PROVE  Settled(v)' \/ GivesUp(v)
    OBVIOUS
  <2>1. ASSUME NEW h \in Handles, AcquireStep(h) \/ ReleaseStep(h) \/ WriteFails(h)
        PROVE  Settled(v)' \/ GivesUp(v)
    <3>1. CASE h = v
      <4>1. pc[v] = "holding"
        BY DEF Settled, HeldAlone
      <4> QED BY <2>1, <3>1, <4>1, HolderOnlyReleases DEF GivesUp
    <3>2. CASE h # v
      BY <2>1, <3>2, OthersAreRefused
    <3> QED BY <3>1, <3>2
  <2>2. ASSUME NEW p \in Processes, Crash(p)
        PROVE  Settled(v)' \/ GivesUp(v)
    <3>1. CASE p = ProcOf[v]
      BY <2>2, <3>1 DEF GivesUp
    <3>2. CASE p # ProcOf[v]
      BY <2>2, <3>2 DEF Crash, Settled, HeldAlone, TypeOK
    <3> QED BY <3>1, <3>2
  <2>3. ASSUME NEW p \in Processes, Reuse(p)
        PROVE  Settled(v)' \/ GivesUp(v)
    BY <2>3 DEF Reuse, Settled, HeldAlone
  <2>4. CASE Age \/ Unlock
    BY <2>4 DEF GivesUp
  <2> QED BY <2>1, <2>2, <2>3, <2>4 DEF Next
<1> QED BY <1>1, FileLockTypeOK, PTL DEF Spec, SettledLockIsKept
-----------------------------------------------------------------------------
LEMMA HandleStepNoLeak ==
    ASSUME TypeOK, NoLeakedLock, NEW h \in Handles,
           AcquireStep(h) \/ ReleaseStep(h) \/ WriteFails(h)
    PROVE  NoLeakedLock'
<1> USE DEF TypeOK, NoLeakedLock, NoFile, LockFiles
<1>1. CASE Check(h) \/ Read(h) \/ Stat(h) \/ Judge(h) \/ WriteFails(h)
  BY <1>1 DEF Check, Read, Stat, Judge, WriteFails, Go
<1>2. CASE Unlink(h) \/ ForceUnlink(h) \/ ReleaseUnlink(h)
  BY <1>2 DEF Unlink, ForceUnlink, ReleaseUnlink, Go
<1>3. CASE Create(h)
  BY <1>3 DEF Create, Go
<1>4. CASE Write(h)
  BY <1>4 DEF Write, Go
<1>5. CASE Release(h) \/ ReleaseRead(h)
  BY <1>5 DEF Release, ReleaseRead, Go
<1> QED BY <1>1, <1>2, <1>3, <1>4, <1>5 DEF AcquireStep, ReleaseStep

(* No handle that is through with release leaves its own lock behind.      *)
THEOREM LocksDoNotLeak == Spec => []NoLeakedLock
<1>1. Init => NoLeakedLock
  BY DEF Init, NoLeakedLock, NoFile
<1>2. TypeOK /\ NoLeakedLock /\ [Next]_vars => NoLeakedLock'
  <2> SUFFICES ASSUME TypeOK, NoLeakedLock, [Next]_vars PROVE NoLeakedLock'
    OBVIOUS
  <2>1. ASSUME NEW h \in Handles, AcquireStep(h) \/ ReleaseStep(h) \/ WriteFails(h)
        PROVE  NoLeakedLock'
    BY <2>1, HandleStepNoLeak
  <2>2. ASSUME NEW p \in Processes, Crash(p) \/ Reuse(p) PROVE NoLeakedLock'
    BY <2>2 DEF Crash, Reuse, NoLeakedLock, TypeOK
  <2>3. CASE Age \/ Unlock
    BY <2>3 DEF Age, Unlock, NoLeakedLock, TypeOK, LockFiles, NoFile
  <2>4. CASE UNCHANGED vars
    BY <2>4 DEF vars, NoLeakedLock
  <2> QED BY <2>1, <2>2, <2>3, <2>4 DEF Next
<1> QED BY <1>1, <1>2, FileLockTypeOK, PTL DEF Spec
=============================================================================
