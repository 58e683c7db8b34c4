--------------------------- MODULE ProjectProofs ---------------------------
(***************************************************************************)
(* What TLAPS proves of the Mutex, for every set of tasks, and of Project, *)
(* whose jobs go through it, for every set of commands, calls and files: a *)
(* database is current for whoever has opened it, and jobs write alone     *)
(* except where the code lets go of its lock.                              *)
(***************************************************************************)
EXTENDS Project, SequenceTheorems, TLAPS

(* The flag says whether somebody holds the lock. *)
FlagMatchesHolder == locked <=> \E t \in Tasks : pc[t] = "holding"

IInv ==
    /\ TypeOK
    /\ FlagMatchesHolder
    /\ MutualExclusion
    /\ NoLostWakeup
    /\ QueuedExactlyOnce

(* The first waiter of a non-empty queue is a task, and the others keep    *)
(* their order when it leaves.                                             *)
LEMMA HeadOfQueue ==
    ASSUME TypeOK, QueuedExactlyOnce, waitQueue # <<>>
    PROVE  /\ Head(waitQueue) \in Tasks
           /\ Head(waitQueue) = waitQueue[1]
           /\ 1 \in DOMAIN waitQueue
           /\ pc[Head(waitQueue)] = "waiting"
           /\ Tail(waitQueue) \in Seq(Tasks)
           /\ DOMAIN Tail(waitQueue) = {i \in Nat \ {0} : i + 1 \in DOMAIN waitQueue}
           /\ \A i \in DOMAIN Tail(waitQueue) : Tail(waitQueue)[i] = waitQueue[i + 1]
<1> USE DEF TypeOK
<1>1. /\ Len(waitQueue) \in Nat \ {0}
      /\ DOMAIN waitQueue = 1 .. Len(waitQueue)
  BY EmptySeq, LenProperties
<1>2. /\ Head(waitQueue) \in Tasks
      /\ Tail(waitQueue) \in Seq(Tasks)
      /\ Len(Tail(waitQueue)) = Len(waitQueue) - 1
      /\ \A i \in 1 .. Len(Tail(waitQueue)) : Tail(waitQueue)[i] = waitQueue[i + 1]
  BY HeadTailProperties
<1>3. DOMAIN Tail(waitQueue) = 1 .. Len(Tail(waitQueue))
  BY <1>2, LenProperties
<1>4. Head(waitQueue) = waitQueue[1]
  BY <1>1
<1>5. pc[Head(waitQueue)] = "waiting"
  BY <1>1, <1>2, <1>4 DEF QueuedExactlyOnce
<1> QED BY <1>1, <1>2, <1>3, <1>4, <1>5

LEMMA InitIInv == Init => IInv
<1> SUFFICES ASSUME Init PROVE IInv
  OBVIOUS
<1>1. TypeOK
  BY EmptySeq DEF Init, TypeOK, States
<1>2. QueuedExactlyOnce
  BY DEF Init, QueuedExactlyOnce
<1> QED BY <1>1, <1>2 DEF Init, IInv, FlagMatchesHolder, MutualExclusion, NoLostWakeup

(* A turn of acquire's loop, by a task that is neither parked nor inside.  *)
LEMMA TryLockStep ==
    ASSUME IInv, NEW t \in Tasks, pc[t] \in {"idle", "woken"}, TryLock(t)
    PROVE  IInv'
<1> USE DEF IInv, TypeOK
<1>1. CASE locked
  <2>1. /\ waitQueue' = Append(waitQueue, t)
        /\ pc' = [pc EXCEPT ![t] = "waiting"]
        /\ locked' = locked
    BY <1>1 DEF TryLock
  <2>2. /\ Len(waitQueue) \in Nat
        /\ DOMAIN waitQueue = 1 .. Len(waitQueue)
        /\ waitQueue' \in Seq(Tasks)
        /\ DOMAIN waitQueue' = 1 .. Len(waitQueue) + 1
        /\ \A i \in DOMAIN waitQueue : waitQueue'[i] = waitQueue[i]
        /\ waitQueue'[Len(waitQueue) + 1] = t
    BY <2>1, AppendProperties, LenProperties
  <2>3. TypeOK'
    BY <2>1, <2>2 DEF States
  <2>4. FlagMatchesHolder' /\ MutualExclusion' /\ NoLostWakeup'
    BY <1>1, <2>1 DEF FlagMatchesHolder, MutualExclusion, NoLostWakeup
  <2>5. QueuedExactlyOnce'
    <3>1. \A i \in DOMAIN waitQueue : waitQueue[i] # t
      BY DEF QueuedExactlyOnce
    <3>2. \A i, j \in DOMAIN waitQueue' : waitQueue'[i] = waitQueue'[j] => i = j
      BY <2>2, <3>1 DEF QueuedExactlyOnce
    <3>3. ASSUME NEW u \in Tasks
          PROVE  pc'[u] = "waiting" <=> \E i \in DOMAIN waitQueue' : waitQueue'[i] = u
      <4>1. CASE u = t
        BY <2>1, <2>2, <4>1
      <4>2. CASE u # t
        BY <2>1, <2>2, <4>2 DEF QueuedExactlyOnce
      <4> QED BY <4>1, <4>2
    <3> QED BY <3>2, <3>3 DEF QueuedExactlyOnce
  <2> QED BY <2>3, <2>4, <2>5
<1>2. CASE ~locked
  <2>1. /\ locked' = TRUE
        /\ pc' = [pc EXCEPT ![t] = "holding"]
        /\ waitQueue' = waitQueue
    BY <1>2 DEF TryLock
  <2>2. TypeOK'
    BY <2>1 DEF States
  <2>3. FlagMatchesHolder' /\ MutualExclusion' /\ NoLostWakeup'
    BY <1>2, <2>1 DEF FlagMatchesHolder, MutualExclusion, NoLostWakeup
  <2>4. QueuedExactlyOnce'
    BY <2>1 DEF QueuedExactlyOnce
  <2> QED BY <2>2, <2>3, <2>4
<1> QED BY <1>1, <1>2

(* The release function: it frees the flag and wakes the oldest waiter.    *)
LEMMA ReleaseStep ==
    ASSUME IInv, NEW t \in Tasks, Release(t)
    PROVE  IInv'
<1> USE DEF IInv, TypeOK
<1>1. pc[t] = "holding" /\ locked' = FALSE
  BY DEF Release
<1>2. CASE waitQueue = <<>>
  <2>1. waitQueue' = waitQueue /\ pc' = [pc EXCEPT ![t] = "done"]
    BY <1>2 DEF Release
  <2>2. TypeOK'
    BY <1>1, <2>1 DEF States
  <2>3. FlagMatchesHolder' /\ MutualExclusion' /\ NoLostWakeup'
    BY <1>1, <1>2, <2>1 DEF FlagMatchesHolder, MutualExclusion, NoLostWakeup
  <2>4. QueuedExactlyOnce'
    BY <1>1, <2>1 DEF QueuedExactlyOnce
  <2> QED BY <2>2, <2>3, <2>4
<1>3. CASE waitQueue # <<>>
  <2> DEFINE h == Head(waitQueue)
  <2>1. /\ waitQueue' = Tail(waitQueue)
        /\ pc' = [pc EXCEPT ![t] = "done", ![h] = "woken"]
    BY <1>3 DEF Release
  <2>2. h \in Tasks /\ h # t /\ h = waitQueue[1] /\ pc[h] = "waiting"
    BY <1>1, <1>3, HeadOfQueue
  <2>3. /\ 1 \in DOMAIN waitQueue
        /\ waitQueue' \in Seq(Tasks)
        /\ DOMAIN waitQueue' = {i \in Nat \ {0} : i + 1 \in DOMAIN waitQueue}
        /\ \A i \in DOMAIN waitQueue' : waitQueue'[i] = waitQueue[i + 1]
    BY <1>3, <2>1, HeadOfQueue
  <2>4. pc'[h] = "woken" /\ pc'[t] = "done" /\ \A u \in Tasks \ {h, t} : pc'[u] = pc[u]
    BY <2>1, <2>2
  <2>5. TypeOK'
    BY <1>1, <2>1, <2>2, <2>3 DEF States
  <2>6. FlagMatchesHolder' /\ MutualExclusion' /\ NoLostWakeup'
    BY <1>1, <2>2, <2>4 DEF FlagMatchesHolder, MutualExclusion, NoLostWakeup
  <2>7. QueuedExactlyOnce'
    <3>1. DOMAIN waitQueue = 1 .. Len(waitQueue) /\ Len(waitQueue) \in Nat
      BY LenProperties
    <3>2. \A i, j \in DOMAIN waitQueue' : waitQueue'[i] = waitQueue'[j] => i = j
      BY <2>3 DEF QueuedExactlyOnce
    <3>3. ASSUME NEW u \in Tasks
          PROVE  pc'[u] = "waiting" <=> \E i \in DOMAIN waitQueue' : waitQueue'[i] = u
      <4>1. CASE u = h
        <5>1. ASSUME NEW i \in DOMAIN waitQueue', waitQueue'[i] = h PROVE FALSE
          BY <2>2, <2>3, <5>1 DEF QueuedExactlyOnce
        <5> QED BY <2>4, <4>1, <5>1
      <4>2. CASE u = t
        <5>1. ASSUME NEW i \in DOMAIN waitQueue', waitQueue'[i] = t PROVE FALSE
          BY <1>1, <2>3, <5>1 DEF QueuedExactlyOnce
        <5> QED BY <2>4, <4>2, <5>1
      <4>3. CASE u \notin {h, t}
        <5>1. pc'[u] = pc[u]
          BY <2>4, <4>3
        <5>2. ASSUME NEW i \in DOMAIN waitQueue, waitQueue[i] = u
              PROVE  i - 1 \in DOMAIN waitQueue' /\ waitQueue'[i - 1] = u
          BY <2>2, <2>3, <3>1, <4>3, <5>2
        <5> QED BY <2>3, <5>1, <5>2 DEF QueuedExactlyOnce
      <4> QED BY <4>1, <4>2, <4>3
    <3> QED BY <3>2, <3>3 DEF QueuedExactlyOnce
  <2> QED BY <2>5, <2>6, <2>7
<1> QED BY <1>2, <1>3

LEMMA NextIInv == IInv /\ [Next]_vars => IInv'
<1> SUFFICES ASSUME IInv, [Next]_vars PROVE IInv'
  OBVIOUS
<1>1. ASSUME NEW t \in Tasks, Acquire(t) \/ Resume(t) PROVE IInv'
  BY <1>1, TryLockStep DEF Acquire, Resume
<1>2. ASSUME NEW t \in Tasks, Release(t) PROVE IInv'
  BY <1>2, ReleaseStep
<1>3. CASE UNCHANGED vars
  BY <1>3 DEF vars, IInv, TypeOK, FlagMatchesHolder, MutualExclusion,
              NoLostWakeup, QueuedExactlyOnce
<1> QED BY <1>1, <1>2, <1>3 DEF Next, Terminated

(* The strengthened invariant holds in every behaviour of the mutex.       *)
LEMMA SpecIInv == Spec => []IInv
  BY InitIInv, NextIInv, PTL DEF Spec

(* Two bodies passed to withLock never run at the same time, however many  *)
(* calls are made and in whatever order woken calls run again.             *)
THEOREM MutexIsExclusive == Spec => []MutualExclusion
<1>1. IInv => MutualExclusion
  BY DEF IInv
<1> QED BY <1>1, SpecIInv, PTL

(* The release function never leaves calls parked behind a free lock.      *)
THEOREM MutexLosesNoWakeup == Spec => []NoLostWakeup
<1>1. IInv => NoLostWakeup
  BY DEF IInv
<1> QED BY <1>1, SpecIInv, PTL

(* Each parked call is in the queue once, and only parked calls are.       *)
THEOREM MutexQueueIsExact == Spec => []QueuedExactlyOnce
<1>1. IInv => QueuedExactlyOnce
  BY DEF IInv
<1> QED BY <1>1, SpecIInv, PTL

(* MutexIsSafe: the lock and its queue stay sound for any set of callers.  *)
THEOREM MutexStaysSafe == Spec => []MutexIsSafe
<1> QED BY MutexIsExclusive, MutexLosesNoWakeup, MutexQueueIsExact, PTL DEF MutexIsSafe

-----------------------------------------------------------------------------
(* The steps of the mutex are steps of ExclusiveAccess: taking the lock    *)
(* enters when nobody is inside, parking asks, a wake-up stutters.         *)
LEMMA TryLockRefines ==
    ASSUME IInv, NEW t \in Tasks, pc[t] \in {"idle", "woken"}, TryLock(t)
    PROVE  [Access!Next]_Stage
<1> USE DEF IInv, TypeOK
<1>1. CASE locked
  <2>1. pc' = [pc EXCEPT ![t] = "waiting"]
    BY <1>1 DEF TryLock
  <2>2. CASE pc[t] = "idle"
    <3>1. Stage[t] = "outside" /\ Stage' = [Stage EXCEPT ![t] = "asking"]
      BY <2>1, <2>2 DEF Stage, States
    <3> QED BY <3>1 DEF Access!Next, Access!Ask
  <2>3. CASE pc[t] = "woken"
    <3>1. Stage' = Stage
      BY <2>1, <2>3 DEF Stage, States
    <3> QED BY <3>1
  <2> QED BY <2>2, <2>3
<1>2. CASE ~locked
  <2>1. pc' = [pc EXCEPT ![t] = "holding"]
    BY <1>2 DEF TryLock
  <2>2. \A u \in Tasks : Stage[u] # "inside"
    BY <1>2 DEF FlagMatchesHolder, Stage, States
  <2>3. Stage[t] \in {"outside", "asking"}
    BY DEF Stage
  <2>4. Stage' = [Stage EXCEPT ![t] = "inside"]
    BY <2>1 DEF Stage, States
  <2> QED BY <2>2, <2>3, <2>4 DEF Access!Next, Access!Enter, Access!NobodyInside
<1> QED BY <1>1, <1>2

LEMMA ReleaseRefines ==
    ASSUME IInv, NEW t \in Tasks, Release(t)
    PROVE  [Access!Next]_Stage
<1> USE DEF IInv, TypeOK
<1>1. pc[t] = "holding" /\ Stage[t] = "inside"
  BY DEF Release, Stage
<1>2. Stage' = [Stage EXCEPT ![t] = "left"]
  <2>1. CASE waitQueue = <<>>
    <3>1. pc' = [pc EXCEPT ![t] = "done"]
      BY <2>1 DEF Release
    <3> QED BY <3>1 DEF Stage, States
  <2>2. CASE waitQueue # <<>>
    <3> DEFINE h == Head(waitQueue)
    <3>1. pc' = [pc EXCEPT ![t] = "done", ![h] = "woken"]
      BY <2>2 DEF Release
    <3>2. h \in Tasks /\ pc[h] = "waiting" /\ h # t
      BY <1>1, <2>2, HeadOfQueue
    <3>3. pc'[h] = "woken" /\ pc'[t] = "done" /\ \A u \in Tasks \ {h, t} : pc'[u] = pc[u]
      BY <3>1, <3>2
    <3> QED BY <1>1, <3>2, <3>3 DEF Stage, States
  <2> QED BY <2>1, <2>2
<1> QED BY <1>1, <1>2 DEF Access!Next, Access!Leave

(* The mutex implements exclusive access under the mapping Stage.          *)
THEOREM MutexImplementsExclusiveAccess == Spec => ImplementsExclusiveAccess
<1>1. Init => Access!Init
  BY DEF Init, Access!Init, Stage
<1>2. IInv /\ [Next]_vars => [Access!Next]_Stage
  <2> SUFFICES ASSUME IInv, [Next]_vars PROVE [Access!Next]_Stage
    OBVIOUS
  <2>1. ASSUME NEW t \in Tasks, Acquire(t) \/ Resume(t) PROVE [Access!Next]_Stage
    BY <2>1, TryLockRefines DEF Acquire, Resume
  <2>2. ASSUME NEW t \in Tasks, Release(t) PROVE [Access!Next]_Stage
    BY <2>2, ReleaseRefines
  <2>3. CASE UNCHANGED vars
    <3>1. Stage' = Stage
      BY <2>3 DEF vars, Stage
    <3> QED BY <3>1
  <2> QED BY <2>1, <2>2, <2>3 DEF Next, Terminated
<1> QED BY <1>1, <1>2, SpecIInv, PTL DEF Spec, ImplementsExclusiveAccess, Access!Spec
-----------------------------------------------------------------------------

Verbs    == {"init", "index", "force", "sync", "status", "uninit", "serve"}
Inside   == {"ready", "closing", "done", "dead"}
Places   == Initializing \cup Ended \cup {"start", "create", "open", "migrate", "ready", "closing"}
Stages   == {"idle", "locking", "writing", "ok", "refused", "error"}
Kinds    == {"indexAll", "indexFiles", "sync", "nothing"}
Versions == 0 .. 4

DbType ==
    /\ db \in [id : Nat, version : Versions, layout : Versions, rows : SUBSET Files]
    /\ created \in Nat
    /\ db.id <= created
    /\ db.id = 0 => db = NoDb
    /\ torn \in BOOLEAN
    /\ crashes \in 0 .. MaxCrashes

Looks == [pid : Processes \cup {None}, old : BOOLEAN]

LockType ==
    /\ lock \in Lock!LockFiles
    /\ call \in [Processes -> Lock!Locations]
    /\ looked \in [Processes -> Looks]
    /\ overtaken \subseteq Processes

ProcessType ==
    /\ cmd \in [Processes -> Verbs]
    /\ at \in [Processes -> Places]
    /\ seen \in [Processes -> Versions]
    /\ on \in [Processes -> Nat]
    /\ \A p \in Processes : on[p] <= created
    /\ \A p \in Processes : at[p] = "migrate" => seen[p] < 4

JobType ==
    /\ stage \in [Jobs -> Stages]
    /\ kind \in [Jobs -> Kinds]
    /\ todo \in [Jobs -> SUBSET Files]

ProjectTypes == DbType /\ LockType /\ ProcessType /\ JobType
-----------------------------------------------------------------------------
(* A call of the server's instance owns the mutex while its job runs, and  *)
(* no job runs before its process has opened the database.                 *)
JobsAreInside ==
    /\ \A t \in Tasks : stage[t] \in {"locking", "writing"} => pc[t] = "holding"
    /\ \A t \in Tasks : pc[t] # "idle" => at[Server] \in Inside
    /\ \A j \in Jobs : stage[j] \in {"locking", "writing"} => at[ProcOf(j)] \in Inside

(* A process is inside acquire or release only for its job, and whoever    *)
(* writes with his database open has got the lock, unless it is indexFiles.*)
CallsMatch ==
    /\ \A p \in Processes : at[p] = "dead" => call[p] = "dead"
    /\ \A p \in Processes : at[p] \notin Inside => call[p] = "outside"
    /\ \A j \in Jobs :
          Writing(j) /\ kind[j] # "indexFiles" => call[ProcOf(j)] = "holding"

(* Nobody is about to remove a file that he has found young and complete,  *)
(* with a living process in it that he may signal.                         *)
RemovalIsJustified ==
    \A p \in Processes :
        call[p] = "unlink" =>
            \/ looked[p].old
            \/ looked[p].pid \notin Alive
            \/ <<p, looked[p].pid>> \in CannotSignal

(* The file of whoever has the lock of the database at the path is the one *)
(* he created, unless it was taken from him.                               *)
HoldersOwnTheFile ==
    \A p \in Processes :
        call[p] \in {"write", "holding"} /\ OnPath(p) => lock.owner = p \/ p \in overtaken

LockInv == CallsMatch /\ RemovalIsJustified /\ HoldersOwnTheFile

(* What a process knows of the database it has open, by where it stands.   *)
StandsRight(p) ==
    OnPath(p) =>
        /\ at[p] = "tables"  => db.version = 1 /\ db.layout = 0
        /\ at[p] = "record"  => db.version = 1 /\ db.layout = 4
        /\ at[p] = "migrate" => seen[p] <= db.version
        /\ at[p] = "ready"   => db.version = 4 /\ db.layout = 4

Creating(p) == at[p] \in {"tables", "record"} /\ OnPath(p)

(* The row of version 1 lets only one process go on to create the tables.  *)
OneCreates == \A p, q \in Processes : Creating(p) /\ Creating(q) => p = q

Someone(place) == torn \/ \E p \in Processes : at[p] = place /\ OnPath(p)

(* A database is whole, or somebody is at the statement that comes next,   *)
(* or somebody died there.                                                 *)
HalfIsAttended ==
    \/ db.id = 0
    \/ db.version = db.layout /\ db.version > 0
    \/ db.version = 0 /\ db.layout = 0 /\ Someone("versions")
    \/ db.version = 1 /\ db.layout = 0 /\ Someone("tables")
    \/ db.version = 1 /\ db.layout = 4 /\ Someone("record")

SchemaInv == (\A p \in Processes : StandsRight(p)) /\ OneCreates /\ HalfIsAttended

ProjectInv == IInv /\ ProjectTypes /\ JobsAreInside /\ LockInv /\ SchemaInv
-----------------------------------------------------------------------------
LEMMA ProcOfType ==
    /\ \A j \in Jobs : ProcOf(j) \in Processes
    /\ Server \in Processes /\ Commands \subseteq Processes
    /\ Tasks \subseteq Jobs /\ Commands \subseteq Jobs
    /\ None \notin Processes
BY ProjectAssumption DEF ProcOf, Processes, Jobs

LEMMA NothingsType ==
    /\ NoDb \in [id : Nat, version : Versions, layout : Versions, rows : SUBSET Files]
    /\ NoDb.id = 0 /\ NoDb.version = 0 /\ NoDb.layout = 0
    /\ Lock!NoFile \in Lock!LockFiles /\ Lock!NoFile.owner = None
    /\ Lock!Unread \in Looks
BY DEF NoDb, Versions, Looks, Lock!NoFile, Lock!LockFiles, Lock!Unread

LEMMA BeginningType ==
    ASSUME NEW b \in Beginnings
    PROVE  /\ b.release \in Versions
           /\ b.typed \in [Commands -> Verbs]
           /\ b.called \in [Tasks -> Kinds]
BY ProjectAssumption DEF Versions, Verbs, Kinds

(* A system call of acquire: it moves the handle of one process, and       *)
(* removes a file only at unlink and force.                                *)
LEMMA AcquireMoves ==
    ASSUME LockType, NEW p \in Processes, Lock!AcquireStep(p)
    PROVE  /\ lock' \in Lock!LockFiles
           /\ call' \in [Processes -> Lock!Locations]
           /\ looked' \in [Processes -> Looks]
           /\ \A q \in Processes \ {p} : call'[q] = call[q] /\ looked'[q] = looked[q]
           /\ call[p] \notin {"holding", "releaseRead", "releaseUnlink", "dead"}
           /\ call'[p] \notin {"releaseRead", "releaseUnlink", "dead"}
           /\ call'[p] = "holding" => call[p] = "write"
           /\ call'[p] = "write" => lock'.owner = p
           /\ \/ lock'.owner = lock.owner
              \/ lock = Lock!NoFile
              \/ lock' = Lock!NoFile /\ call[p] \in {"unlink", "force"}
           /\ call'[p] = "unlink" =>
                 \/ looked'[p].old
                 \/ looked'[p].pid \notin Alive
                 \/ <<p, looked'[p].pid>> \in CannotSignal
<1> USE NothingsType DEF LockType, Lock!Go, Lock!Locations
<1> DEFINE Moved ==
             /\ lock' \in Lock!LockFiles
             /\ call' \in [Processes -> Lock!Locations]
             /\ looked' \in [Processes -> Looks]
             /\ \A q \in Processes \ {p} : call'[q] = call[q] /\ looked'[q] = looked[q]
           Removes == call'[p] = "unlink" =>
                 \/ looked'[p].old
                 \/ looked'[p].pid \notin Alive
                 \/ <<p, looked'[p].pid>> \in CannotSignal
           Passes ==
             /\ call[p] \notin {"holding", "releaseRead", "releaseUnlink", "dead"}
             /\ call'[p] \notin {"releaseRead", "releaseUnlink", "dead"}
             /\ call'[p] = "holding" => call[p] = "write"
             /\ call'[p] = "write" => lock'.owner = p
           Keeps ==
              \/ lock'.owner = lock.owner
              \/ lock = Lock!NoFile
              \/ lock' = Lock!NoFile /\ call[p] \in {"unlink", "force"}
<1> SUFFICES Moved /\ Removes /\ Passes /\ Keeps
  OBVIOUS
<1>1. CASE Lock!Check(p)
  BY <1>1 DEF Lock!Check
<1>2. CASE Lock!Read(p)
  BY <1>2 DEF Lock!Read, Lock!LockFiles, Looks
<1>3. CASE Lock!Stat(p)
  BY <1>3 DEF Lock!Stat, Lock!LockFiles, Looks
<1>4. CASE Lock!Judge(p)
  <2>1. call[p] = "judge" /\ lock' = lock
    BY <1>4 DEF Lock!Judge
  <2>2. \/ /\ call' = [call EXCEPT ![p] = "outside"]
           /\ looked' = [looked EXCEPT ![p] = Lock!Unread]
        \/ /\ call' = [call EXCEPT ![p] = "unlink"] /\ looked' = looked
           /\ \/ looked[p].old
              \/ looked[p].pid \notin Alive
              \/ <<p, looked[p].pid>> \in CannotSignal
    <3> DEFINE fresh == ~looked[p].old /\ looked[p].pid # None /\ Lock!SeemsAlive(p, looked[p].pid)
    <3>1. CASE fresh
      BY <1>4, <3>1 DEF Lock!Judge
    <3>2. CASE ~fresh
      <4>1. None \notin Alive
        BY ProjectAssumption DEF Alive, Processes
      <4> QED BY <1>4, <3>2, <4>1 DEF Lock!Judge, Lock!SeemsAlive
    <3> QED BY <3>1, <3>2
  <2> QED BY <2>1, <2>2
<1>5. CASE Lock!Unlink(p) \/ Lock!ForceUnlink(p)
  <2>1. /\ call[p] \in {"unlink", "force"}
        /\ call' = [call EXCEPT ![p] = "create"] \/ call' = [call EXCEPT ![p] = "force"]
        /\ lock' = Lock!NoFile
        /\ looked' = [looked EXCEPT ![p] = Lock!Unread]
    BY <1>5 DEF Lock!Unlink, Lock!ForceUnlink
  <2> QED BY <2>1
<1>6. CASE Lock!Create(p)
  <2>1. /\ call[p] = "create" /\ looked' = looked
        /\ \/ call' = [call EXCEPT ![p] = "outside"] /\ lock' = lock
           \/ /\ call' = [call EXCEPT ![p] = "write"]
              /\ lock = Lock!NoFile
              /\ lock' = [owner |-> p, pid |-> None, old |-> FALSE]
    BY <1>6 DEF Lock!Create, Lock!Exists
  <2>2. [owner |-> p, pid |-> None, old |-> FALSE] \in Lock!LockFiles
    BY DEF Lock!LockFiles
  <2>3. [owner |-> p, pid |-> None, old |-> FALSE].owner = p
    OBVIOUS
  <2>4. looked' \in [Processes -> Looks] /\ lock' \in Lock!LockFiles
    BY <2>1, <2>2
  <2>5. CASE call' = [call EXCEPT ![p] = "outside"] /\ lock' = lock
    BY <2>1, <2>4, <2>5
  <2>6. CASE /\ call' = [call EXCEPT ![p] = "write"]
             /\ lock = Lock!NoFile
             /\ lock' = [owner |-> p, pid |-> None, old |-> FALSE]
    BY <2>1, <2>3, <2>4, <2>6
  <2> QED BY <2>1, <2>5, <2>6
<1>7. CASE Lock!Write(p)
  BY <1>7 DEF Lock!Write, Lock!LockFiles
<1> QED BY <1>1, <1>2, <1>3, <1>4, <1>5, <1>6, <1>7 DEF Lock!AcquireStep

(* A system call of release.                                               *)
LEMMA ReleaseMoves ==
    ASSUME LockType, NEW p \in Processes, Lock!ReleaseStep(p)
    PROVE  /\ lock' \in Lock!LockFiles
           /\ call' \in [Processes -> Lock!Locations]
           /\ looked' = looked
           /\ \A q \in Processes \ {p} : call'[q] = call[q]
           /\ call[p] \in {"holding", "releaseRead", "releaseUnlink"}
           /\ call'[p] \in {"outside", "releaseRead", "releaseUnlink"}
           /\ lock' = lock \/ (lock' = Lock!NoFile /\ call[p] = "releaseUnlink")
<1>1. /\ call[p] \in {"holding", "releaseRead", "releaseUnlink"} /\ looked' = looked
      /\ \/ call' = [call EXCEPT ![p] = "outside"]
         \/ call' = [call EXCEPT ![p] = "releaseRead"]
         \/ call' = [call EXCEPT ![p] = "releaseUnlink"]
      /\ lock' = lock \/ (lock' = Lock!NoFile /\ call[p] = "releaseUnlink")
  <2>1. CASE Lock!Release(p)
    BY <2>1 DEF Lock!Release, Lock!Go
  <2>2. CASE Lock!ReleaseRead(p)
    BY <2>2 DEF Lock!ReleaseRead, Lock!Go
  <2>3. CASE Lock!ReleaseUnlink(p)
    BY <2>3 DEF Lock!ReleaseUnlink, Lock!Go
  <2> QED BY <2>1, <2>2, <2>3 DEF Lock!ReleaseStep
<1>2. lock' \in Lock!LockFiles
  BY <1>1, NothingsType DEF LockType
<1> QED BY <1>1, <1>2 DEF LockType, Lock!Locations

(* release is called.                                                      *)
LEMMA CallReleaseMoves ==
    ASSUME LockType, NEW p \in Processes, CallRelease(p)
    PROVE  /\ UNCHANGED <<lock, looked>>
           /\ call' \in [Processes -> Lock!Locations]
           /\ \A q \in Processes \ {p} : call'[q] = call[q]
           /\ call'[p] = IF call[p] = "holding" THEN "releaseRead" ELSE call[p]
BY DEF LockType, CallRelease, Lock!Release, Lock!Go, Lock!Locations

(* Killed processes are no longer inside a call.                           *)
LEMMA CrashMoves ==
    ASSUME LockType, NEW p \in Processes, Lock!Crash(p)
    PROVE  /\ UNCHANGED <<lock, looked>>
           /\ call' \in [Processes -> Lock!Locations]
           /\ \A q \in Processes \ {p} : call'[q] = call[q]
           /\ call'[p] = "dead"
           /\ Alive' = Alive \ {p}
BY DEF LockType, Lock!Crash, Lock!Locations

LEMMA InitTypes == ProjectInit => ProjectTypes
<1> SUFFICES ASSUME NEW b \in Beginnings, BeginAs(b) PROVE ProjectTypes
  BY DEF ProjectInit
<1> USE BeginningType, NothingsType
<1>1. DbType
  <2> USE DEF BeginAs
  <2>1. created = db.id /\ torn \in BOOLEAN /\ crashes \in 0 .. MaxCrashes
    <3>1. created = db.id
      OBVIOUS
    <3>2. torn \in BOOLEAN
      OBVIOUS
    <3>3. crashes \in 0 .. MaxCrashes
      BY ProjectAssumption
    <3> QED BY <3>1, <3>2, <3>3
  <2>2. CASE b.release = 0
    BY <2>1, <2>2 DEF DbType
  <2>3. CASE b.release # 0
    <3>1. db = [id |-> 1, version |-> b.release, layout |-> b.release, rows |-> {}]
      BY <2>3
    <3>2. db.id = 1 /\ db \in [id : Nat, version : Versions, layout : Versions, rows : SUBSET Files]
      BY <3>1
    <3> QED BY <2>1, <3>2 DEF DbType
  <2> QED BY <2>2, <2>3
<1>2. LockType
  BY DEF BeginAs, LockType, Lock!Locations
<1>3. ProcessType
  <2> USE DEF BeginAs
  <2>1. cmd \in [Processes -> Verbs]
    BY ProjectAssumption DEF Verbs, Processes
  <2>2. at \in [Processes -> Places]
    BY DEF Places
  <2>3. created \in Nat
    BY <1>1 DEF DbType
  <2> QED BY <2>1, <2>2, <2>3 DEF ProcessType, Versions
<1>4. JobType
  BY ProjectAssumption DEF BeginAs, JobType, Stages, Kinds, Jobs
<1> QED BY <1>1, <1>2, <1>3, <1>4 DEF ProjectTypes

(* Each action keeps every variable within its type.                       *)
LEMMA StepTypes ==
    ASSUME ProjectTypes, [ProjectNext]_allVars
    PROVE  ProjectTypes'
<1> USE DEF ProjectTypes
<1> USE ProcOfType, NothingsType
<1>1. ASSUME NEW p \in Processes, Start(p) PROVE ProjectTypes'
  BY <1>1 DEF Start, DbType, LockType, ProcessType, JobType, Places, Ended, locking, job
<1>2. ASSUME NEW p \in Processes, CreateDatabase(p) PROVE ProjectTypes'
  BY <1>2 DEF CreateDatabase, DbType, LockType, ProcessType, JobType, Places, Initializing, NoDb, Versions, locking, job
<1>3. ASSUME NEW p \in Processes, InitializeSchema(p) PROVE ProjectTypes'
  BY <1>3 DEF InitializeSchema, DbType, LockType, ProcessType, JobType, Places, Initializing, Ended, OnPath, Versions, locking, job
<1>4. ASSUME NEW p \in Processes, Open(p) PROVE ProjectTypes'
  BY <1>4 DEF Open, DbType, LockType, ProcessType, JobType, Places, Ended, CURRENT_SCHEMA_VERSION, locking, job
<1>5. ASSUME NEW p \in Processes, Migrate(p) PROVE ProjectTypes'
  <2> DEFINE k == Pending(p)
  <2>0. k \in Versions
    BY <1>5 DEF Migrate, Pending, ProcessType, Versions
  <2>1. \/ UNCHANGED <<db, seen>>
        \/ /\ OnPath(p) => Applies(k)
           /\ db' = IF OnPath(p) THEN [db EXCEPT !.layout = IF @ < k THEN k ELSE @, !.version = k] ELSE db
           /\ seen' = [seen EXCEPT ![p] = k]
    BY <1>5 DEF Migrate, Migrated
  <2>2. on' = on \/ on' = [on EXCEPT ![p] = 0]
    BY <1>5 DEF Migrate, Migrated
  <2>3. /\ at' = [at EXCEPT ![p] = at'[p]] /\ at'[p] \in {"failed", "ready", "migrate"}
        /\ at'[p] = "migrate" => seen' = [seen EXCEPT ![p] = k] /\ k # 4
    BY <1>5 DEF Migrate, Migrated, ProcessType, CURRENT_SCHEMA_VERSION
  <2>4. LockType' /\ JobType' /\ UNCHANGED <<created, torn, crashes, cmd>>
    BY <1>5 DEF Migrate, LockType, JobType, locking, job
  <2>5. DbType' /\ seen' \in [Processes -> Versions]
    <3>1. CASE UNCHANGED <<db, seen>>
      BY <2>4, <3>1 DEF DbType, ProcessType
    <3>2. CASE /\ OnPath(p) => Applies(k)
               /\ db' = IF OnPath(p) THEN [db EXCEPT !.layout = IF @ < k THEN k ELSE @, !.version = k] ELSE db
               /\ seen' = [seen EXCEPT ![p] = k]
      <4>2. seen' \in [Processes -> Versions]
        BY <2>0, <3>2 DEF ProcessType
      <4>3. CASE OnPath(p)
        <5>1. db' = [id |-> db.id, version |-> k, layout |-> IF db.layout < k THEN k ELSE db.layout, rows |-> db.rows]
          BY <3>2, <4>3 DEF DbType
        <5>2. db.id # 0
          BY <4>3 DEF OnPath
        <5>3. db' \in [id : Nat, version : Versions, layout : Versions, rows : SUBSET Files]
          BY <2>0, <5>1 DEF DbType
        <5>4. db'.id = db.id
          BY <5>1
        <5>5. created' \in Nat /\ db'.id <= created' /\ crashes' \in 0 .. MaxCrashes
          BY <2>4, <5>4 DEF DbType
        <5>6. torn' \in BOOLEAN
          BY <2>4 DEF DbType
        <5>7. db'.id # 0
          BY <5>2, <5>4
        <5> QED BY <4>2, <5>3, <5>5, <5>6, <5>7 DEF DbType
      <4> QED BY <2>4, <3>2, <4>2, <4>3 DEF DbType
    <3> QED BY <2>1, <3>1, <3>2
  <2>6. \A q \in Processes : at'[q] = "migrate" => seen'[q] < 4
    <3>1. CASE at'[p] = "migrate"
      BY <2>0, <2>3, <3>1 DEF ProcessType, Versions
    <3>2. CASE at'[p] # "migrate"
      BY <2>1, <2>3, <3>2 DEF ProcessType
    <3> QED BY <3>1, <3>2
  <2>7. at' \in [Processes -> Places]
    BY <2>3 DEF ProcessType, Places, Ended
  <2>8. on' \in [Processes -> Nat] /\ \A q \in Processes : on'[q] <= created'
    BY <2>2, <2>4 DEF ProcessType, DbType
  <2> QED BY <2>4, <2>5, <2>6, <2>7, <2>8 DEF ProcessType
<1>6. ASSUME NEW p \in Processes, Clear(p) PROVE ProjectTypes'
  BY <1>6 DEF Clear, DbType, LockType, ProcessType, JobType, Verbs, OnPath, locking, job
<1>7. ASSUME NEW p \in Processes, Close(p) PROVE ProjectTypes'
  <2>1. LockType'
    BY <1>7, CallReleaseMoves DEF Close, LockType
  <2> QED BY <1>7, <2>1 DEF Close, DbType, ProcessType, JobType, Places, job
<1>8. ASSUME NEW p \in Processes, CloseDatabase(p) PROVE ProjectTypes'
  <2>1. LockType'
    BY <1>8 DEF CloseDatabase, LockType
  <2>2. DbType' /\ created' = created
    BY <1>8 DEF CloseDatabase, DbType
  <2> QED BY <1>8, <2>1, <2>2 DEF CloseDatabase, DbType, ProcessType, JobType, Places, Ended, Versions, job
<1>9. ASSUME NEW p \in Processes, Crash(p) PROVE ProjectTypes'
  <2>1. LockType'
    BY <1>9, CrashMoves DEF Crash, LockType
  <2> QED BY <1>9, <2>1, ProjectAssumption
          DEF Crash, DbType, ProcessType, JobType, Places, Ended, Versions, OnPath, job
<1>10. ASSUME NEW t \in Tasks, Call(t) \/ Wake(t) \/ Return(t) PROVE ProjectTypes'
  BY <1>10 DEF Call, Wake, Return, DbType, LockType, ProcessType, JobType, locking, process, job
<1>11. ASSUME NEW j \in Jobs, Begin(j) PROVE ProjectTypes'
  <2>1. Lock!AcquireStep(ProcOf(j)) /\ overtaken' = overtaken
    BY <1>11 DEF Begin, Lock!AcquireStep
  <2>2. LockType'
    BY <2>1, AcquireMoves DEF LockType
  <2> QED BY <1>11, <2>2 DEF Begin, DbType, ProcessType, JobType, Stages, process
<1>12. ASSUME NEW j \in Jobs, TakeLock(j) PROVE ProjectTypes'
  <2> DEFINE p == ProcOf(j)
  <2>1. LockType'
    <3>1. CASE call' = [call EXCEPT ![p] = "outside"] /\ UNCHANGED <<lock, looked, overtaken>>
      BY <3>1 DEF LockType, Lock!Locations
    <3>2. CASE Lock!AcquireStep(p) /\ Overtake(p)
      BY <3>2, AcquireMoves DEF LockType, Overtake
    <3> QED BY <1>12, <3>1, <3>2 DEF TakeLock
  <2>2. stage' \in [Jobs -> Stages]
    BY <1>12 DEF TakeLock, JobType, Stages
  <2>3. todo' \in [Jobs -> SUBSET Files]
    <3>1. \/ todo' = todo
          \/ todo' = [todo EXCEPT ![j] = IF kind[j] = "sync" /\ OnPath(p) THEN Files \ db.rows ELSE Files]
      BY <1>12 DEF TakeLock
    <3> QED BY <3>1 DEF JobType
  <2>4. UNCHANGED <<db, created, torn, process, kind, crashes>>
    BY <1>12 DEF TakeLock
  <2> QED BY <2>1, <2>2, <2>3, <2>4 DEF DbType, ProcessType, JobType, process
<1>13. ASSUME NEW p \in Processes, DropLock(p) PROVE ProjectTypes'
  <2>1. Lock!ReleaseStep(p) /\ Overtake(p)
    BY <1>13 DEF DropLock
  <2>2. LockType'
    BY <2>1, ReleaseMoves DEF LockType, Overtake
  <2> QED BY <1>13, <2>2 DEF DropLock, DbType, ProcessType, JobType, process, job
<1>14. ASSUME NEW j \in Jobs, Store(j) PROVE ProjectTypes'
  BY <1>14 DEF Store, DbType, LockType, ProcessType, JobType, OnPath, locking, process
<1>15. ASSUME NEW j \in Jobs, Finish(j) PROVE ProjectTypes'
  <2>1. LockType'
    BY <1>15, CallReleaseMoves DEF Finish, LockType
  <2>2. stage' \in [Jobs -> Stages]
    BY <1>15 DEF Finish, JobType, Stages
  <2> QED BY <1>15, <2>1, <2>2 DEF Finish, DbType, ProcessType, JobType, process
<1>16. ASSUME Age PROVE ProjectTypes'
  <2>1. lock' = [lock EXCEPT !.old = TRUE] /\ UNCHANGED <<call, looked, overtaken>>
    BY <1>16 DEF Age, Lock!Age
  <2>2. LockType'
    BY <2>1 DEF LockType, Lock!LockFiles
  <2> QED BY <1>16, <2>2 DEF Age, DbType, ProcessType, JobType, process, job
<1>17. ASSUME UNCHANGED allVars PROVE ProjectTypes'
  BY <1>17 DEF allVars, DbType, LockType, ProcessType, JobType, locking, process, job
<1> QED
  BY <1>1, <1>2, <1>3, <1>4, <1>5, <1>6, <1>7, <1>8, <1>9, <1>10, <1>11, <1>12, <1>13, <1>14,
     <1>15, <1>16, <1>17
     DEF ProjectNext, Connect, Work, Over
-----------------------------------------------------------------------------
(* The mutex moves as Mutex has it.                                        *)
LEMMA StepMutex ==
    ASSUME IInv, [ProjectNext]_allVars
    PROVE  IInv'
<1>1. [Next]_vars
  BY DEF ProjectNext, allVars, mutex, vars, Next, Connect, Work, Over, Start, CreateDatabase, InitializeSchema,
         Open, Migrate, Clear, Close, CloseDatabase, Crash, Call, Wake, Return, Begin, TakeLock, DropLock,
         Store, Finish, Age
<1> QED BY <1>1, NextIInv

(* Who holds the mutex keeps it until he releases it, and only a call of   *)
(* the server makes a task leave idle.                                     *)
LEMMA HoldersStay ==
    ASSUME IInv, ProjectTypes, NEW u \in Tasks, NEW t \in Tasks
    PROVE  /\ Call(t) \/ Wake(t) => (pc[u] = "holding" => pc'[u] = "holding")
           /\ Return(t) => (pc[u] = "holding" /\ u # t => pc'[u] = "holding")
           /\ Wake(t) \/ Return(t) => (pc[u] = "idle" => pc'[u] = "idle") /\ pc[t] # "idle"
<1>1. ASSUME Call(t) \/ Wake(t)
      PROVE  /\ pc[u] = "holding" => pc'[u] = "holding"
             /\ pc[t] \in {"idle", "woken"} /\ (Wake(t) => pc[t] = "woken")
             /\ u # t => pc'[u] = pc[u]
  BY <1>1 DEF Call, Wake, Acquire, Resume, TryLock, IInv, TypeOK
<1>2. ASSUME Return(t)
      PROVE  /\ pc[t] = "holding"
             /\ pc[u] \in {"holding", "idle"} /\ u # t => pc'[u] = pc[u]
  <2>1. CASE waitQueue = <<>>
    BY <1>2, <2>1 DEF Return, Release, IInv, TypeOK
  <2>2. CASE waitQueue # <<>>
    <3>1. pc[Head(waitQueue)] = "waiting"
      BY <2>2, HeadOfQueue DEF IInv
    <3>2. pc' = [pc EXCEPT ![t] = "done", ![Head(waitQueue)] = "woken"]
      BY <1>2, <2>2 DEF Return, Release
    <3> QED BY <1>2, <3>1, <3>2 DEF Return, Release, IInv, TypeOK
  <2> QED BY <2>1, <2>2
<1> QED BY <1>1, <1>2

LEMMA StepInside ==
    ASSUME IInv, ProjectTypes, JobsAreInside, [ProjectNext]_allVars
    PROVE  JobsAreInside'
<1> USE ProcOfType DEF JobsAreInside
<1> DEFINE Active(s) == s \in {"locking", "writing"}
<1>1. ASSUME NEW p \in Processes, Connect(p) PROVE JobsAreInside'
  <2>1. at[p] \notin Inside /\ at' = [at EXCEPT ![p] = at'[p]] /\ UNCHANGED <<pc, stage>>
    BY <1>1 DEF Connect, Start, CreateDatabase, InitializeSchema, Open, Migrate, Migrated, mutex, job,
                Inside, Initializing, ProjectTypes, ProcessType
  <2> QED BY <2>1 DEF ProjectTypes, ProcessType, ProcOf
<1>2. ASSUME NEW p \in Processes, Clear(p) \/ Close(p) \/ CloseDatabase(p) \/ Crash(p) PROVE JobsAreInside'
  <2>1. /\ \A q \in Processes : at'[q] = at[q] \/ at'[q] \in Inside
        /\ UNCHANGED <<pc, stage>>
    BY <1>2 DEF Clear, Close, CloseDatabase, Crash, Inside, mutex, job, ProjectTypes, ProcessType
  <2> QED BY <2>1 DEF ProcOf
<1>3. ASSUME NEW t \in Tasks, Call(t) PROVE JobsAreInside'
  <2>1. at[Server] \in Inside /\ UNCHANGED <<at, stage>>
    BY <1>3 DEF Call, process, job, Inside
  <2> QED BY <1>3, <2>1, HoldersStay DEF ProcOf
<1>4. ASSUME NEW t \in Tasks, Wake(t) PROVE JobsAreInside'
  <2>1. UNCHANGED <<at, stage>>
    BY <1>4 DEF Wake, process, job
  <2> QED BY <1>4, <2>1, HoldersStay DEF ProcOf
<1>5. ASSUME NEW t \in Tasks, Return(t) PROVE JobsAreInside'
  <2>1. ~Active(stage[t]) /\ UNCHANGED <<at, stage>>
    BY <1>5 DEF Return, process, job
  <2> QED BY <1>5, <2>1, HoldersStay DEF ProcOf
<1>6. ASSUME NEW j \in Jobs, Begin(j) PROVE JobsAreInside'
  <2>1. /\ MayBegin(j)
        /\ UNCHANGED <<pc, at>>
        /\ stage' = [stage EXCEPT ![j] = stage'[j]]
    BY <1>6 DEF Begin, mutex, process, ProjectTypes, JobType
  <2>2. j \in Tasks => pc[j] = "holding"
    BY <2>1 DEF MayBegin
  <2>3. at[ProcOf(j)] \in Inside
    BY <2>1, <2>2 DEF MayBegin, ProcOf, Inside
  <2> QED BY <2>1, <2>2, <2>3 DEF ProjectTypes, JobType
<1>7. ASSUME NEW j \in Jobs, TakeLock(j) \/ Store(j) \/ Finish(j) PROVE JobsAreInside'
  <2>1. /\ UNCHANGED <<pc, at>>
        /\ \A i \in Jobs : Active(stage'[i]) => Active(stage[i])
    BY <1>7 DEF TakeLock, Store, Finish, MayWrite, mutex, process, ProjectTypes, JobType
  <2> QED BY <2>1 DEF ProcOf
<1>8. ASSUME Age \/ (\E p \in Processes : DropLock(p)) \/ UNCHANGED allVars PROVE JobsAreInside'
  BY <1>8 DEF Age, DropLock, allVars, mutex, process, job, ProcOf
<1> QED BY <1>1, <1>2, <1>3, <1>4, <1>5, <1>6, <1>7, <1>8 DEF ProjectNext, Work, Over
-----------------------------------------------------------------------------
(* Two jobs of one process are calls of the server, which take turns.      *)
LEMMA OneWriterEach ==
    ASSUME IInv, JobsAreInside, NEW i \in Jobs, NEW j \in Jobs,
           stage[i] \in {"locking", "writing"}, stage[j] \in {"locking", "writing"},
           ProcOf(i) = ProcOf(j)
    PROVE  i = j
<1>1. CASE i \in Tasks /\ j \in Tasks
  BY <1>1 DEF IInv, MutualExclusion, JobsAreInside
<1>2. CASE i \notin Tasks \/ j \notin Tasks
  BY <1>2, ProjectAssumption DEF ProcOf, Jobs
<1> QED BY <1>1, <1>2

(* A step that touches no lock, by which nobody begins to write or dies.   *)
LEMMA LockStays ==
    ASSUME LockInv, UNCHANGED <<locking, kind>>,
           \A j \in Jobs : Writing(j)' => Writing(j),
           \A p \in Processes :
              /\ OnPath(p)' /\ call[p] \in {"write", "holding"} => OnPath(p)
              /\ at'[p] = "dead" <=> at[p] = "dead"
              /\ at'[p] \notin Inside => at[p] \notin Inside
    PROVE  LockInv'
<1> USE ProcOfType DEF LockInv, locking
<1>1. CallsMatch'
  BY DEF CallsMatch, ProcOf
<1>2. RemovalIsJustified'
  BY DEF RemovalIsJustified, Alive
<1>3. HoldersOwnTheFile'
  BY DEF HoldersOwnTheFile
<1> QED BY <1>1, <1>2, <1>3

LEMMA BeginKeepsLock ==
    ASSUME ProjectTypes, JobsAreInside, LockInv, NEW j \in Jobs, Begin(j)
    PROVE  LockInv'
<1> USE ProcOfType DEF LockInv
<1> DEFINE p == ProcOf(j)
<1>1. /\ call[p] = "outside" /\ call'[p] \in {"read", "create"}
      /\ \A q \in Processes \ {p} : call'[q] = call[q]
      /\ UNCHANGED <<lock, looked, overtaken, at, on, db, kind>>
  BY DEF Begin, Lock!Check, Lock!Go, process, ProjectTypes, LockType
<1>2. /\ stage'[j] = "locking" /\ \A i \in Jobs \ {j} : stage'[i] = stage[i]
  BY DEF Begin, ProjectTypes, JobType
<1>3. at[p] \in Inside \ {"dead"}
  BY DEF Begin, MayBegin, Free, JobsAreInside, ProcOf, Inside
<1>4. CallsMatch'
  <2>1. ASSUME NEW i \in Jobs, Writing(i)', kind[i] # "indexFiles" PROVE call'[ProcOf(i)] = "holding"
    <3>1. Writing(i)
      BY <1>1, <1>2, <2>1 DEF Writing, OnPath, ProcOf
    <3>2. call[ProcOf(i)] = "holding"
      BY <2>1, <3>1 DEF CallsMatch
    <3> QED BY <1>1, <3>2
  <2> QED BY <1>1, <1>3, <2>1 DEF CallsMatch, ProcOf
<1>5. RemovalIsJustified'
  BY <1>1 DEF RemovalIsJustified, Alive
<1>6. HoldersOwnTheFile'
  BY <1>1 DEF HoldersOwnTheFile, OnPath
<1> QED BY <1>4, <1>5, <1>6

(* Whoever has his own file loses it to another only as Overtakes says.    *)
LEMMA LosersAreOvertaken ==
    ASSUME ProjectTypes, LockInv, NEW p \in Processes, NEW q \in Processes, p # q,
           lock.owner = q, call[q] \in {"write", "holding"}, lock' = Lock!NoFile, Overtake(p)
    PROVE  q \in overtaken'
<1>1. q \in Alive \ {p}
  BY DEF Alive, LockInv, CallsMatch
<1>2. Overtakes(p, q)
  BY <1>1 DEF Overtakes, LockInv, RemovalIsJustified
<1> QED BY <1>2 DEF Overtake

LEMMA TakeLockKeepsLock ==
    ASSUME ProjectTypes, JobsAreInside, LockInv, NEW j \in Jobs, TakeLock(j)
    PROVE  LockInv'
<1> USE ProcOfType DEF LockInv
<1>0. PICK p \in Processes : p = ProcOf(j)
  OBVIOUS
<1>1. /\ UNCHANGED <<at, on, db, kind>> /\ stage[j] = "locking"
      /\ \A i \in Jobs \ {j} : stage'[i] = stage[i]
      /\ stage'[j] = "writing" => call'[p] = "holding"
  BY <1>0 DEF TakeLock, process, ProjectTypes, JobType, Lock!AtRest
<1>2. at[p] \in Inside \ {"dead"}
  BY <1>0 DEF TakeLock, JobsAreInside
<1>3. CASE db = NoDb /\ call' = [call EXCEPT ![p] = "outside"] /\ UNCHANGED <<lock, looked, overtaken>>
  <2>1. \A q \in Processes : ~OnPath(q)'
    BY <1>1, <1>3, NothingsType DEF OnPath
  <2>2. CallsMatch'
    BY <1>1, <1>2, <1>3, <2>1 DEF CallsMatch, Writing, ProjectTypes, LockType
  <2>3. RemovalIsJustified'
    BY <1>1, <1>3 DEF RemovalIsJustified, Alive, ProjectTypes, LockType
  <2>4. HoldersOwnTheFile'
    BY <2>1 DEF HoldersOwnTheFile
  <2> QED BY <2>2, <2>3, <2>4
<1>4. CASE Lock!AcquireStep(p) /\ Overtake(p)
  <2>1. LockType
    BY DEF ProjectTypes
  <2>2. /\ \A q \in Processes \ {p} : call'[q] = call[q] /\ looked'[q] = looked[q]
        /\ call[p] \notin {"holding", "releaseRead", "releaseUnlink", "dead"}
        /\ call'[p] = "holding" => call[p] = "write"
        /\ call'[p] = "write" => lock'.owner = p
        /\ \/ lock'.owner = lock.owner
           \/ lock = Lock!NoFile
           \/ lock' = Lock!NoFile /\ call[p] \in {"unlink", "force"}
    BY <1>4, <2>1, AcquireMoves
  <2>3. call'[p] = "unlink" =>
           \/ looked'[p].old
           \/ looked'[p].pid \notin Alive
           \/ <<p, looked'[p].pid>> \in CannotSignal
    BY <1>4, <2>1, AcquireMoves
  <2>4. CallsMatch'
    <3>1. ASSUME NEW i \in Jobs, Writing(i)', kind[i] # "indexFiles" PROVE call'[ProcOf(i)] = "holding"
      <4>1. CASE i = j
        BY <1>0, <1>1, <3>1, <4>1 DEF Writing
      <4>2. CASE i # j
        <5>1. Writing(i)
          BY <1>1, <3>1, <4>2 DEF Writing, OnPath, ProcOf
        <5>2. call[ProcOf(i)] = "holding"
          BY <3>1, <5>1 DEF CallsMatch
        <5> QED BY <2>2, <5>2
      <4> QED BY <4>1, <4>2
    <3> QED BY <1>1, <1>2, <2>2, <3>1 DEF CallsMatch, ProcOf
  <2>5. RemovalIsJustified'
    <3>1. Alive' = Alive
      BY <1>1 DEF Alive
    <3> QED BY <2>2, <2>3, <3>1 DEF RemovalIsJustified
  <2>6. overtaken \subseteq overtaken'
    BY <1>4 DEF Overtake
  <2>7. ASSUME NEW q \in Processes, call'[q] \in {"write", "holding"}, OnPath(q)'
        PROVE  lock'.owner = q \/ q \in overtaken'
    <3>1. OnPath(q)
      BY <1>1, <2>7 DEF OnPath
    <3>2. CASE q = p
      BY <2>2, <2>6, <2>7, <3>1, <3>2, NothingsType DEF HoldersOwnTheFile
    <3>3. CASE q # p
      <4>1. call[q] \in {"write", "holding"}
        BY <2>2, <2>7, <3>3
      <4>2. lock.owner = q \/ q \in overtaken
        BY <3>1, <4>1 DEF HoldersOwnTheFile
      <4>3. lock.owner = q /\ lock' = Lock!NoFile => q \in overtaken'
        BY <1>4, <3>3, <4>1, LosersAreOvertaken
      <4> QED BY <2>2, <2>6, <4>2, <4>3, NothingsType
    <3> QED BY <3>2, <3>3
  <2>8. HoldersOwnTheFile'
    BY <2>7 DEF HoldersOwnTheFile
  <2> QED BY <2>4, <2>5, <2>8
<1> QED BY <1>0, <1>3, <1>4 DEF TakeLock

LEMMA DropLockKeepsLock ==
    ASSUME IInv, ProjectTypes, JobsAreInside, LockInv, NEW p \in Processes, DropLock(p)
    PROVE  LockInv'
<1> USE ProcOfType DEF LockInv
<1>1. UNCHANGED <<at, on, db, kind, stage>> /\ Lock!ReleaseStep(p) /\ Overtake(p)
  BY DEF DropLock, process, job
<1>2. /\ looked' = looked
      /\ \A q \in Processes \ {p} : call'[q] = call[q]
      /\ call[p] \in {"holding", "releaseRead", "releaseUnlink"}
      /\ call'[p] \in {"outside", "releaseRead", "releaseUnlink"}
      /\ lock' = lock \/ (lock' = Lock!NoFile /\ call[p] = "releaseUnlink")
  BY <1>1, ReleaseMoves DEF ProjectTypes
<1>3. CallsMatch'
  <2>1. ASSUME NEW i \in Jobs, Writing(i)', kind[i] # "indexFiles" PROVE call'[ProcOf(i)] = "holding"
    <3>1. Writing(i)
      BY <1>1, <2>1 DEF Writing, OnPath, ProcOf
    <3>2. call[ProcOf(i)] = "holding"
      BY <2>1, <3>1 DEF CallsMatch
    <3>3. ProcOf(i) # p
      <4> SUFFICES ASSUME ProcOf(i) = p PROVE FALSE
        OBVIOUS
      <4>1. PICK j \in Jobs : ProcOf(j) = p /\ stage[j] = "writing" /\ kind[j] = "indexFiles"
        BY <3>2 DEF DropLock
      <4> QED BY <2>1, <3>1, <4>1, OneWriterEach DEF Writing
    <3> QED BY <1>2, <3>2, <3>3
  <2> QED BY <1>1, <1>2, <2>1 DEF CallsMatch, ProcOf
<1>4. RemovalIsJustified'
  BY <1>1, <1>2 DEF RemovalIsJustified, Alive
<1>5. ASSUME NEW q \in Processes, call'[q] \in {"write", "holding"}, OnPath(q)'
      PROVE  lock'.owner = q \/ q \in overtaken'
  <2>1. q # p /\ OnPath(q) /\ call[q] \in {"write", "holding"}
    BY <1>1, <1>2, <1>5 DEF OnPath
  <2>2. lock.owner = q \/ q \in overtaken
    BY <2>1 DEF HoldersOwnTheFile
  <2>3. lock.owner = q /\ lock' = Lock!NoFile => q \in overtaken'
    BY <1>1, <2>1, LosersAreOvertaken
  <2> QED BY <1>1, <1>2, <2>2, <2>3 DEF Overtake
<1>6. HoldersOwnTheFile'
  BY <1>5 DEF HoldersOwnTheFile
<1> QED BY <1>3, <1>4, <1>6

LEMMA FinishKeepsLock ==
    ASSUME IInv, ProjectTypes, JobsAreInside, LockInv, NEW j \in Jobs, Finish(j)
    PROVE  LockInv'
<1> USE ProcOfType DEF LockInv
<1>0. PICK p \in Processes : p = ProcOf(j)
  OBVIOUS
<1>1. /\ UNCHANGED <<at, on, db, kind>> /\ stage[j] = "writing" /\ stage'[j] # "writing"
      /\ \A i \in Jobs \ {j} : stage'[i] = stage[i]
      /\ overtaken' = overtaken \ {p}
      /\ call[p] \in {"outside", "holding", "dead"} /\ at[p] \in Inside \ {"dead"}
  BY <1>0 DEF Finish, MayWrite, Free, Lock!AtRest, JobsAreInside, process, ProjectTypes, JobType
<1>2. /\ UNCHANGED <<lock, looked>>
      /\ \A q \in Processes \ {p} : call'[q] = call[q]
      /\ call'[p] = IF call[p] = "holding" THEN "releaseRead" ELSE call[p]
  BY <1>0, CallReleaseMoves DEF Finish, ProjectTypes
<1>3. CallsMatch'
  <2>1. ASSUME NEW i \in Jobs, Writing(i)', kind[i] # "indexFiles" PROVE call'[ProcOf(i)] = "holding"
    <3>1. Writing(i) /\ i # j
      BY <1>1, <2>1 DEF Writing, OnPath, ProcOf
    <3>2. call[ProcOf(i)] = "holding"
      BY <2>1, <3>1 DEF CallsMatch
    <3>3. ProcOf(i) # p
      BY <1>0, <1>1, <3>1, OneWriterEach DEF Writing
    <3> QED BY <1>2, <3>2, <3>3
  <2> QED BY <1>1, <1>2, <2>1 DEF CallsMatch, ProcOf
<1>4. RemovalIsJustified'
  BY <1>1, <1>2 DEF RemovalIsJustified, Alive
<1>5. HoldersOwnTheFile'
  BY <1>1, <1>2 DEF HoldersOwnTheFile, OnPath
<1> QED BY <1>3, <1>4, <1>5

LEMMA CloseKeepsLock ==
    ASSUME ProjectTypes, LockInv, NEW p \in Processes, Close(p)
    PROVE  LockInv'
<1> USE ProcOfType DEF LockInv
<1>1. /\ UNCHANGED <<stage, on, db, kind, overtaken>>
      /\ at' = [at EXCEPT ![p] = "closing"]
      /\ call[p] \in {"outside", "holding", "dead"}
  BY DEF Close, Free, Lock!AtRest, job
<1>2. /\ UNCHANGED <<lock, looked>>
      /\ \A q \in Processes \ {p} : call'[q] = call[q]
      /\ call'[p] = IF call[p] = "holding" THEN "releaseRead" ELSE call[p]
  BY CallReleaseMoves DEF Close, ProjectTypes
<1>3. at[p] = "ready" /\ \A q \in Processes : at'[q] = IF q = p THEN "closing" ELSE at[q]
  BY <1>1 DEF Close, ProjectTypes, ProcessType
<1>4. CallsMatch'
  <2>1. ASSUME NEW i \in Jobs, Writing(i)', kind[i] # "indexFiles" PROVE call'[ProcOf(i)] = "holding"
    <3>1. Writing(i) /\ ProcOf(i) # p
      BY <1>1, <1>3, <2>1 DEF Writing, OnPath, ProcOf
    <3> QED BY <1>2, <2>1, <3>1 DEF CallsMatch
  <2> QED BY <1>1, <1>2, <1>3, <2>1 DEF CallsMatch, ProcOf, Inside
<1>5. RemovalIsJustified'
  BY <1>2, <1>3 DEF RemovalIsJustified, Alive
<1>6. HoldersOwnTheFile'
  BY <1>1, <1>2 DEF HoldersOwnTheFile, OnPath
<1> QED BY <1>4, <1>5, <1>6

LEMMA CloseDatabaseKeepsLock ==
    ASSUME ProjectTypes, LockInv, NEW p \in Processes, CloseDatabase(p)
    PROVE  LockInv'
<1> USE ProcOfType DEF LockInv
<1>1. /\ UNCHANGED <<stage, kind, call, looked, overtaken>>
      /\ at[p] = "closing" /\ \A q \in Processes : at'[q] = IF q = p THEN "done" ELSE at[q]
      /\ \A q \in Processes : on'[q] = IF q = p THEN 0 ELSE on[q]
  BY DEF CloseDatabase, job, ProjectTypes, ProcessType
<1>2. \A q \in Processes : OnPath(q)' => OnPath(q) /\ q # p /\ UNCHANGED <<db, lock>>
  BY <1>1, NothingsType DEF OnPath, CloseDatabase
<1>3. \A j \in Jobs : Writing(j)' => Writing(j)
  BY <1>1, <1>2 DEF Writing, ProcOf
<1>4. CallsMatch'
  BY <1>1, <1>3 DEF CallsMatch, ProcOf, Inside
<1>5. RemovalIsJustified'
  BY <1>1 DEF RemovalIsJustified, Alive
<1>6. HoldersOwnTheFile'
  BY <1>1, <1>2 DEF HoldersOwnTheFile
<1> QED BY <1>4, <1>5, <1>6

LEMMA CrashKeepsLock ==
    ASSUME ProjectTypes, LockInv, NEW p \in Processes, Crash(p)
    PROVE  LockInv'
<1> USE ProcOfType DEF LockInv
<1>1. /\ UNCHANGED <<stage, kind, db, overtaken>>
      /\ \A q \in Processes : at'[q] = IF q = p THEN "dead" ELSE at[q]
      /\ \A q \in Processes : on'[q] = IF q = p THEN 0 ELSE on[q]
  BY DEF Crash, job, ProjectTypes, ProcessType
<1>2. /\ UNCHANGED <<lock, looked>>
      /\ \A q \in Processes \ {p} : call'[q] = call[q]
      /\ call'[p] = "dead"
      /\ Alive' = Alive \ {p}
  BY CrashMoves DEF Crash, ProjectTypes
<1>3. CallsMatch'
  <2>1. ASSUME NEW i \in Jobs, Writing(i)', kind[i] # "indexFiles" PROVE call'[ProcOf(i)] = "holding"
    <3>1. Writing(i) /\ ProcOf(i) # p
      BY <1>1, <2>1 DEF Writing, OnPath, ProcOf
    <3> QED BY <1>2, <2>1, <3>1 DEF CallsMatch
  <2> QED BY <1>1, <1>2, <2>1 DEF CallsMatch, ProcOf, Inside
<1>4. RemovalIsJustified'
  BY <1>2 DEF RemovalIsJustified
<1>5. HoldersOwnTheFile'
  BY <1>1, <1>2 DEF HoldersOwnTheFile, OnPath
<1> QED BY <1>3, <1>4, <1>5

LEMMA StepLock ==
    ASSUME IInv, ProjectTypes, JobsAreInside, LockInv, [ProjectNext]_allVars
    PROVE  LockInv'
<1> USE ProcOfType
<1>1. ASSUME NEW p \in Processes, Connect(p) PROVE LockInv'
  <2>1. /\ at[p] \notin Inside /\ at'[p] # "dead"
        /\ \A q \in Processes \ {p} : at'[q] = at[q] /\ on'[q] = on[q]
        /\ UNCHANGED <<stage, locking, kind>>
    BY <1>1 DEF Connect, Start, CreateDatabase, InitializeSchema, Open, Migrate, Migrated, job,
                Inside, Initializing, ProjectTypes, ProcessType
  <2>2. db'.id = db.id \/ db'.id = created + 1
    BY <1>1 DEF Connect, Start, CreateDatabase, InitializeSchema, Open, Migrate, Migrated, NoDb, ProjectTypes, DbType
  <2>3. ASSUME NEW q \in Processes, q # p, OnPath(q)' PROVE OnPath(q)
    <3>1. on[q] # 0 /\ on[q] = db'.id
      BY <2>1, <2>3 DEF OnPath
    <3>2. db'.id # created + 1
      BY <3>1 DEF ProjectTypes, ProcessType, DbType
    <3> QED BY <2>2, <3>1, <3>2 DEF OnPath
  <2>4. call[p] = "outside"
    BY <2>1 DEF LockInv, CallsMatch
  <2>5. ASSUME NEW j \in Jobs, Writing(j)' PROVE Writing(j)
    <3>1. ProcOf(j) \in Processes \ {p} /\ stage[j] = "writing"
      BY <2>1, <2>5 DEF Writing, JobsAreInside
    <3>2. OnPath(ProcOf(j))' /\ at'[ProcOf(j)] \notin {"closing", "dead"}
      BY <2>5 DEF Writing, ProcOf
    <3> QED BY <2>1, <2>3, <3>1, <3>2 DEF Writing
  <2> QED BY <2>1, <2>3, <2>4, <2>5, LockStays DEF Inside
<1>2. ASSUME NEW p \in Processes, Clear(p) PROVE LockInv'
  <2>1. UNCHANGED <<stage, at, on, locking, kind>> /\ db'.id = db.id
    BY <1>2 DEF Clear, job, ProjectTypes, DbType
  <2> QED BY <2>1, LockStays DEF Writing, OnPath, ProcOf
<1>3. ASSUME NEW t \in Tasks, Call(t) \/ Wake(t) \/ Return(t) PROVE LockInv'
  <2>1. UNCHANGED <<stage, at, on, db, locking, kind>>
    BY <1>3 DEF Call, Wake, Return, process, job
  <2> QED BY <2>1, LockStays DEF Writing, OnPath, ProcOf
<1>4. ASSUME NEW j \in Jobs, Store(j) PROVE LockInv'
  <2>1. UNCHANGED <<stage, at, on, locking, kind>> /\ db'.id = db.id
    BY <1>4 DEF Store, process, ProjectTypes, DbType
  <2> QED BY <2>1, LockStays DEF Writing, OnPath, ProcOf
<1>5. ASSUME Age PROVE LockInv'
  <2>1. /\ UNCHANGED <<stage, at, on, db, call, looked, overtaken, kind>>
        /\ lock'.owner = lock.owner
    BY <1>5 DEF Age, Lock!Age, process, job, ProjectTypes, LockType, Lock!LockFiles
  <2>2. CallsMatch' /\ RemovalIsJustified'
    BY <2>1 DEF LockInv, CallsMatch, RemovalIsJustified, Writing, OnPath, ProcOf, Alive
  <2>3. HoldersOwnTheFile'
    BY <2>1 DEF LockInv, HoldersOwnTheFile, OnPath
  <2> QED BY <2>2, <2>3 DEF LockInv
<1>6. ASSUME UNCHANGED allVars PROVE LockInv'
  <2>1. UNCHANGED <<stage, at, on, db, locking, kind>>
    BY <1>6 DEF allVars, process, job
  <2> QED BY <2>1, LockStays DEF Writing, OnPath, ProcOf
<1> QED
  BY <1>1, <1>2, <1>3, <1>4, <1>5, <1>6, BeginKeepsLock, TakeLockKeepsLock, DropLockKeepsLock,
     FinishKeepsLock, CloseKeepsLock, CloseDatabaseKeepsLock, CrashKeepsLock
     DEF ProjectNext, Work, Over
-----------------------------------------------------------------------------
(* A step that changes at most the rows of the database.                   *)
LEMMA SchemaStays ==
    ASSUME SchemaInv, UNCHANGED <<at, on, seen, torn>>,
           db'.id = db.id, db'.version = db.version, db'.layout = db.layout
    PROVE  SchemaInv'
BY DEF SchemaInv, StandsRight, OneCreates, Creating, HalfIsAttended, Someone, OnPath

(* A step of one process that leaves the schema as it is and does not      *)
(* leave a half created database alone.                                    *)
LEMMA SchemaMoves ==
    ASSUME SchemaInv, ProjectTypes, NEW p \in Processes,
           db'.id = db.id, db'.version = db.version, db'.layout = db.layout,
           \A q \in Processes \ {p} : at'[q] = at[q] /\ on'[q] = on[q] /\ seen'[q] = seen[q],
           torn => torn',
           StandsRight(p)', ~Creating(p)',
           at[p] \in Initializing /\ OnPath(p) => torn' \/ (at[p] = "versions" /\ db.version # 0)
    PROVE  SchemaInv'
<1>1. ASSUME NEW q \in Processes, q # p
      PROVE  (StandsRight(q)' <=> StandsRight(q)) /\ (Creating(q)' <=> Creating(q)) /\ (OnPath(q)' <=> OnPath(q))
  BY <1>1 DEF StandsRight, Creating, OnPath
<1>2. (\A q \in Processes : StandsRight(q))'
  BY <1>1 DEF SchemaInv
<1>3. OneCreates'
  <2> SUFFICES ASSUME NEW q \in Processes, NEW r \in Processes, Creating(q)', Creating(r)' PROVE q = r
    BY DEF OneCreates
  <2> QED BY <1>1 DEF SchemaInv, OneCreates
<1>4. HalfIsAttended'
  <2>1. ASSUME NEW place \in Initializing, Someone(place), place = "versions" => db.version = 0
        PROVE  Someone(place)'
    BY <1>1, <2>1 DEF Someone, OnPath, Initializing
  <2> QED BY <2>1 DEF SchemaInv, HalfIsAttended, Initializing
<1> QED BY <1>2, <1>3, <1>4 DEF SchemaInv

LEMMA CreateKeepsSchema ==
    ASSUME ProjectTypes, SchemaInv, NEW p \in Processes, CreateDatabase(p)
    PROVE  SchemaInv'
<1>1. /\ at[p] = "create" /\ at'[p] = "versions" /\ on'[p] = db'.id
      /\ \A q \in Processes \ {p} : at'[q] = at[q] /\ on'[q] = on[q] /\ seen'[q] = seen[q]
      /\ torn' = torn
  BY DEF CreateDatabase, ProjectTypes, ProcessType
<1>2. StandsRight(p)' /\ ~Creating(p)'
  BY <1>1 DEF StandsRight, Creating
<1>3. CASE db # NoDb
  <2>1. UNCHANGED db
    BY <1>3 DEF CreateDatabase
  <2> QED BY <1>1, <1>2, <2>1, SchemaMoves DEF Initializing
<1>4. CASE db = NoDb
  <2>1. db'.id = created + 1 /\ db'.version = 0 /\ db'.layout = 0
    BY <1>4 DEF CreateDatabase, NoDb
  <2>2. \A q \in Processes \ {p} : ~OnPath(q)'
    BY <1>1, <2>1 DEF OnPath, ProjectTypes, ProcessType, DbType
  <2>3. OnPath(p)'
    BY <1>1, <2>1 DEF OnPath, ProjectTypes, DbType
  <2>4. (\A q \in Processes : StandsRight(q))'
    BY <1>2, <2>2 DEF StandsRight
  <2>5. OneCreates'
    BY <1>2, <2>2 DEF OneCreates, Creating
  <2>6. HalfIsAttended'
    BY <1>1, <2>1, <2>3 DEF HalfIsAttended, Someone
  <2> QED BY <2>4, <2>5, <2>6 DEF SchemaInv
<1> QED BY <1>3, <1>4

LEMMA InitializeKeepsSchema ==
    ASSUME ProjectTypes, SchemaInv, NEW p \in Processes, InitializeSchema(p)
    PROVE  SchemaInv'
<1>1. /\ \A q \in Processes \ {p} : at'[q] = at[q] /\ on'[q] = on[q] /\ seen'[q] = seen[q]
      /\ torn' = torn /\ at[p] \in Initializing
      /\ db'.id = db.id
  BY DEF InitializeSchema, Initializing, ProjectTypes, ProcessType, DbType
<1>2. CASE ~OnPath(p)
  <2>1. UNCHANGED db /\ (on'[p] = on[p] \/ on'[p] = 0)
    BY <1>2 DEF InitializeSchema, ProjectTypes, ProcessType
  <2>2. ~OnPath(p)'
    BY <1>2, <2>1 DEF OnPath
  <2> QED BY <1>1, <1>2, <2>1, <2>2, SchemaMoves DEF StandsRight, Creating
<1>3. CASE OnPath(p) /\ at[p] = "versions" /\ db.version # 0
  <2>1. UNCHANGED db /\ at'[p] = "failed"
    BY <1>3 DEF InitializeSchema, ProjectTypes, ProcessType
  <2> QED BY <1>1, <1>3, <2>1, SchemaMoves DEF StandsRight, Creating
\* The other cases set the next part of the schema.
<1>4. CASE OnPath(p) /\ ~(at[p] = "versions" /\ db.version # 0)
  <2>1. OnPath(p)' /\ db.id # 0 /\ on'[p] = on[p] /\ \A q \in Processes \ {p} : OnPath(q)' <=> OnPath(q)
    BY <1>1, <1>4 DEF OnPath, InitializeSchema
  <2>2. \/ /\ at[p] = "versions" /\ at'[p] = "tables" /\ db.version = 0 /\ db.layout = 0
           /\ db'.version = 1 /\ db'.layout = 0
        \/ /\ at[p] = "tables" /\ at'[p] = "record" /\ db.version = 1 /\ db.layout = 0
           /\ db'.version = 1 /\ db'.layout = 4
        \/ /\ at[p] = "record" /\ at'[p] = "ready" /\ db.version = 1 /\ db.layout = 4
           /\ db'.version = 4 /\ db'.layout = 4
    <3>1. db.version = 0 => db.layout = 0
      BY <2>1 DEF SchemaInv, HalfIsAttended, ProjectTypes, DbType, Versions
    <3> QED BY <1>4, <3>1 DEF InitializeSchema, SchemaInv, StandsRight, ProjectTypes, ProcessType, DbType
  <2>3. \A q \in Processes \ {p} : ~Creating(q)
    BY <1>4, <2>2 DEF SchemaInv, OneCreates, Creating, StandsRight
  <2>4. \A q \in Processes \ {p} : ~Creating(q)'
    BY <1>1, <2>1, <2>3 DEF Creating
  <2>5. ASSUME NEW q \in Processes PROVE StandsRight(q)'
    <3>1. CASE q = p
      BY <2>2, <3>1 DEF StandsRight
    <3>2. CASE q # p
      <4>1. OnPath(q) => at[q] \notin {"tables", "record", "ready"} /\ (at[q] = "migrate" => seen[q] <= db.version)
        BY <2>2, <2>3, <3>2 DEF Creating, SchemaInv, StandsRight
      <4>2. seen[q] <= db.version => seen[q] <= db'.version
        BY <2>2 DEF ProjectTypes, ProcessType, Versions
      <4> QED BY <1>1, <2>1, <3>2, <4>1, <4>2 DEF StandsRight
    <3> QED BY <3>1, <3>2
  <2>6. OneCreates'
    BY <2>4 DEF OneCreates
  <2>7. HalfIsAttended'
    BY <2>1, <2>2 DEF HalfIsAttended, Someone
  <2> QED BY <2>5, <2>6, <2>7 DEF SchemaInv
<1> QED BY <1>2, <1>3, <1>4

LEMMA MigrateKeepsSchema ==
    ASSUME ProjectTypes, SchemaInv, NEW p \in Processes, Migrate(p)
    PROVE  SchemaInv'
<1> DEFINE k == Pending(p)
<1>1. /\ \A q \in Processes \ {p} : at'[q] = at[q] /\ on'[q] = on[q] /\ seen'[q] = seen[q]
      /\ torn' = torn /\ at[p] = "migrate" /\ at'[p] \in {"failed", "ready", "migrate"}
  BY DEF Migrate, Migrated, ProjectTypes, ProcessType
<1>2. CASE OnPath(p) /\ ~Applies(k)
  <2>1. UNCHANGED db /\ at'[p] = "failed"
    BY <1>2 DEF Migrate, Migrated, ProjectTypes, ProcessType
  <2> QED BY <1>1, <2>1, SchemaMoves DEF StandsRight, Creating, Initializing
<1>3. CASE ~OnPath(p)
  <2>1. UNCHANGED <<db, on>>
    BY <1>3 DEF Migrate, Migrated
  <2>2. ~OnPath(p)'
    BY <1>3, <2>1 DEF OnPath
  <2> QED BY <1>1, <1>3, <2>1, <2>2, SchemaMoves DEF StandsRight, Creating
<1>4. CASE OnPath(p) /\ Applies(k)
  <2>1. /\ db' = [db EXCEPT !.layout = IF @ < k THEN k ELSE @, !.version = k]
        /\ seen'[p] = k /\ on' = on
        /\ at'[p] = IF k = 4 THEN "ready" ELSE "migrate"
    BY <1>4 DEF Migrate, Migrated, CURRENT_SCHEMA_VERSION, ProjectTypes, ProcessType
  <2>2. k \in 2 .. 4 /\ db.version \in 0 .. 4 /\ db.layout \in 0 .. 4 /\ db.id # 0
    BY <1>1, <1>4 DEF Pending, ProjectTypes, ProcessType, DbType, Versions, OnPath
  <2>3. db.version = k - 1 /\ db.layout = k - 1
    <3>1. seen[p] <= db.version /\ (k = 2 \/ seen[p] = k - 1)
      BY <1>1, <1>4 DEF SchemaInv, StandsRight, Pending, ProjectTypes, ProcessType, Versions
    <3>2. db.version < k /\ (k = 2 => db.layout = 1) /\ (k # 2 => db.layout >= 2)
      BY <1>4 DEF Applies
    <3>3. \/ db.version = db.layout /\ db.version > 0
          \/ db.version = 0 /\ db.layout = 0
          \/ db.version = 1 /\ db.layout \in {0, 4}
      BY <2>2 DEF SchemaInv, HalfIsAttended
    <3>4. seen[p] \in 0 .. 4
      BY DEF ProjectTypes, ProcessType, Versions
    <3> HIDE DEF k
    <3> QED BY <2>2, <3>1, <3>2, <3>3, <3>4
  <2>4. db'.version = k /\ db'.layout = k /\ db'.id = db.id
    <3> HIDE DEF k
    <3> QED BY <2>1, <2>2, <2>3 DEF ProjectTypes, DbType
  <2>5. \A q \in Processes : OnPath(q)' <=> OnPath(q)
    BY <2>1, <2>4 DEF OnPath
  <2>6. ASSUME NEW q \in Processes, q # p, OnPath(q)
        PROVE  at[q] \notin {"tables", "record", "ready"} /\ (at[q] = "migrate" => seen[q] <= k)
    <3>1. seen[q] \in 0 .. 4
      BY DEF ProjectTypes, ProcessType, Versions
    <3>2. StandsRight(q)
      BY DEF SchemaInv
    <3> HIDE DEF k
    <3> QED BY <2>2, <2>3, <2>6, <3>1, <3>2 DEF StandsRight
  <2>7. ASSUME NEW q \in Processes PROVE StandsRight(q)'
    <3>1. CASE q = p
      <4> HIDE DEF k
      <4> QED BY <2>1, <2>2, <2>4, <3>1 DEF StandsRight
    <3>2. CASE q # p
      <4> HIDE DEF k
      <4> QED BY <1>1, <2>4, <2>5, <2>6, <3>2 DEF StandsRight
    <3> QED BY <3>1, <3>2
  <2>8. \A q \in Processes : ~Creating(q)'
    BY <1>1, <2>5, <2>6 DEF Creating
  <2>9. HalfIsAttended'
    <3> HIDE DEF k
    <3> QED BY <2>2, <2>4 DEF HalfIsAttended
  <2> QED BY <2>7, <2>8, <2>9 DEF SchemaInv, OneCreates
<1> QED BY <1>2, <1>3, <1>4

LEMMA StepSchema ==
    ASSUME ProjectTypes, SchemaInv, [ProjectNext]_allVars
    PROVE  SchemaInv'
<1> USE ProcOfType
<1>1. ASSUME NEW p \in Processes, Start(p) PROVE SchemaInv'
  <2>1. /\ UNCHANGED <<db, on, seen, torn>> /\ at[p] = "start" /\ at'[p] \in {"create", "failed"}
        /\ \A q \in Processes \ {p} : at'[q] = at[q]
    BY <1>1 DEF Start, ProjectTypes, ProcessType
  <2> QED BY <2>1, SchemaMoves DEF StandsRight, Creating, Initializing
<1>2. ASSUME NEW p \in Processes, Open(p) PROVE SchemaInv'
  <2>1. /\ UNCHANGED <<db, torn>> /\ at[p] = "open" /\ at'[p] \in {"failed", "migrate", "ready"}
        /\ at'[p] = "migrate" => seen'[p] = db.version
        /\ at'[p] = "ready" => db.version = 4 /\ db.id # 0
        /\ \A q \in Processes \ {p} : at'[q] = at[q] /\ on'[q] = on[q] /\ seen'[q] = seen[q]
    BY <1>2 DEF Open, CURRENT_SCHEMA_VERSION, ProjectTypes, ProcessType, DbType, Versions, NoDb
  <2>2. db.version = 4 /\ db.id # 0 => db.layout = 4
    BY DEF SchemaInv, HalfIsAttended
  <2>3. StandsRight(p)'
    BY <2>1, <2>2 DEF StandsRight, ProjectTypes, DbType, Versions
  <2> QED BY <2>1, <2>3, SchemaMoves DEF Creating, Initializing
<1>3. ASSUME NEW p \in Processes, Clear(p) PROVE SchemaInv'
  BY <1>3, SchemaStays DEF Clear, ProjectTypes, DbType
<1>4. ASSUME NEW p \in Processes, Close(p) PROVE SchemaInv'
  <2>1. /\ UNCHANGED <<db, on, seen, torn>> /\ at[p] = "ready" /\ at'[p] = "closing"
        /\ \A q \in Processes \ {p} : at'[q] = at[q]
    BY <1>4 DEF Close, ProjectTypes, ProcessType
  <2> QED BY <2>1, SchemaMoves DEF StandsRight, Creating, Initializing
<1>9. ASSUME NEW p \in Processes, CloseDatabase(p) PROVE SchemaInv'
  <2>1. /\ at[p] = "closing" /\ at'[p] = "done" /\ torn' = torn
        /\ \A q \in Processes \ {p} : at'[q] = at[q] /\ on'[q] = on[q] /\ seen'[q] = seen[q]
    BY <1>9 DEF CloseDatabase, ProjectTypes, ProcessType
  <2>2. CASE UNCHANGED db
    BY <2>1, <2>2, SchemaMoves DEF StandsRight, Creating, Initializing
  <2>3. CASE db' = NoDb
    <3>1. \A q \in Processes : ~OnPath(q)'
      BY <2>3, NothingsType DEF OnPath
    <3> QED BY <2>3, <3>1, NothingsType DEF SchemaInv, StandsRight, OneCreates, Creating, HalfIsAttended
  <2> QED BY <1>9, <2>2, <2>3 DEF CloseDatabase
<1>5. ASSUME NEW p \in Processes, Crash(p) PROVE SchemaInv'
  <2>1. /\ UNCHANGED db /\ at'[p] = "dead" /\ torn' = (torn \/ (at[p] \in Initializing /\ OnPath(p)))
        /\ \A q \in Processes \ {p} : at'[q] = at[q] /\ on'[q] = on[q] /\ seen'[q] = seen[q]
    BY <1>5 DEF Crash, ProjectTypes, ProcessType
  <2> QED BY <2>1, SchemaMoves DEF StandsRight, Creating
<1>6. ASSUME NEW t \in Tasks, Call(t) \/ Wake(t) \/ Return(t) PROVE SchemaInv'
  BY <1>6, SchemaStays DEF Call, Wake, Return, process
<1>7. ASSUME NEW j \in Jobs, Work(j) PROVE SchemaInv'
  BY <1>7, SchemaStays DEF Work, Begin, TakeLock, Store, Finish, process, ProjectTypes, DbType
<1>8. ASSUME Age \/ (\E p \in Processes : DropLock(p)) \/ UNCHANGED allVars PROVE SchemaInv'
  BY <1>8, SchemaStays DEF Age, DropLock, allVars, process
<1> QED
  BY <1>1, <1>2, <1>3, <1>4, <1>5, <1>6, <1>7, <1>8, <1>9, CreateKeepsSchema, InitializeKeepsSchema, MigrateKeepsSchema
     DEF ProjectNext, Connect, Over
-----------------------------------------------------------------------------
LEMMA InitProjectInv == ProjectInit => ProjectInv
<1> SUFFICES ASSUME NEW b \in Beginnings, BeginAs(b) PROVE ProjectInv
  BY DEF ProjectInit
<1> USE ProcOfType
<1>1. IInv /\ ProjectTypes
  BY InitIInv, InitTypes DEF ProjectInit, BeginAs
<1>2. \A p \in Processes : ~OnPath(p) /\ at[p] \in {"start", "open"} /\ call[p] = "outside"
  BY DEF BeginAs, OnPath
<1>3. (\A j \in Jobs : stage[j] = "idle") /\ (\A t \in Tasks : pc[t] = "idle")
  BY DEF BeginAs, Init
<1>4. JobsAreInside /\ LockInv
  BY <1>2, <1>3 DEF JobsAreInside, LockInv, CallsMatch, RemovalIsJustified, HoldersOwnTheFile, Writing
<1>5. HalfIsAttended
  <2>1. CASE b.release = 0
    BY <2>1, NothingsType DEF HalfIsAttended, BeginAs
  <2>2. CASE b.release # 0
    <3>1. db = [id |-> 1, version |-> b.release, layout |-> b.release, rows |-> {}]
      BY <2>2 DEF BeginAs
    <3>2. b.release \in 1 .. 4
      BY <2>2, BeginningType DEF Versions
    <3>3. db.version = b.release /\ db.layout = b.release
      BY <3>1
    <3> QED BY <3>2, <3>3 DEF HalfIsAttended
  <2> QED BY <2>1, <2>2
<1>6. SchemaInv
  BY <1>2, <1>5 DEF SchemaInv, StandsRight, OneCreates, Creating
<1> QED BY <1>1, <1>4, <1>6 DEF ProjectInv

LEMMA SpecProjectInv == ProjectSpec => []ProjectInv
<1>1. ProjectInv /\ [ProjectNext]_allVars => ProjectInv'
  BY StepMutex, StepTypes, StepInside, StepLock, StepSchema DEF ProjectInv
<1> QED BY <1>1, InitProjectInv, PTL DEF ProjectSpec

(* Whoever has opened a database finds the current schema, whatever others *)
(* created or migrated at the same time; and unless a process died inside  *)
(* initialize, the next open succeeds.  For any number of processes, each  *)
(* of which may die anywhere.                                              *)
THEOREM SchemaStaysSound == ProjectSpec => []SchemaIsSound
<1>1. ProjectInv => SchemaIsSound
  <2> SUFFICES ASSUME ProjectInv PROVE SchemaIsSound
    OBVIOUS
  <2> USE DEF ProjectInv
  <2>1. TypeInvariant
    <3>1. db.id \in 0 .. created /\ db.rows \subseteq Files /\ {db.version, db.layout} \subseteq 0 .. CURRENT_SCHEMA_VERSION
      BY DEF ProjectTypes, DbType, Versions, CURRENT_SCHEMA_VERSION
    <3>2. torn \in BOOLEAN /\ crashes \in 0 .. MaxCrashes
      BY DEF ProjectTypes, DbType
    <3>3. Lock!TypeOK /\ overtaken \subseteq Processes
      BY DEF ProjectTypes, LockType, Looks, Lock!TypeOK, Alive
    <3>4. /\ at \in [Processes -> Initializing \cup Ended
                                \cup {"start", "create", "open", "migrate", "ready", "closing"}]
          /\ stage \in [Jobs -> {"idle", "locking", "writing", "ok", "refused", "error"}]
          /\ todo \in [Jobs -> SUBSET Files]
      BY DEF ProjectTypes, ProcessType, JobType, Places, Stages
    <3> QED BY <3>1, <3>2, <3>3, <3>4 DEF TypeInvariant, IInv
  <2>2. OpenIsCurrent
    BY DEF SchemaInv, StandsRight, OpenIsCurrent, CURRENT_SCHEMA_VERSION
  <2>3. OnlyTornInitBricks
    BY DEF SchemaInv, HalfIsAttended, Someone, OnlyTornInitBricks, ProjectTypes, DbType, Initializing
  <2> QED BY <2>1, <2>2, <2>3 DEF SchemaIsSound
<1> QED BY <1>1, SpecProjectInv, PTL

(* Two jobs write to one database only if one of them is indexFiles, which *)
(* lets go of the lock file at once, or the file was taken from one: by a  *)
(* process that found it two minutes old, may not signal its owner, or     *)
(* removed it without having read it.  Two calls of one process never do.  *)
(* For any number of processes, between any two of their system calls.     *)
THEOREM WritersStayAlone == ProjectSpec => []WritersAreAlone
<1>1. ProjectInv => WritersAreAlone
  <2> SUFFICES ASSUME ProjectInv, NEW i \in Jobs, NEW j \in Jobs, i # j, Writing(i), Writing(j)
               PROVE  /\ ProcOf(i) # ProcOf(j)
                      /\ \/ "indexFiles" \in {kind[i], kind[j]}
                         \/ overtaken \cap {ProcOf(i), ProcOf(j)} # {}
    BY DEF WritersAreAlone
  <2> USE ProcOfType
  <2>1. ProcOf(i) # ProcOf(j)
    BY OneWriterEach DEF ProjectInv, Writing
  <2>2. ASSUME NEW k \in {i, j}, kind[k] # "indexFiles"
        PROVE  lock.owner = ProcOf(k) \/ ProcOf(k) \in overtaken
    <3>1. call[ProcOf(k)] = "holding"
      BY <2>2 DEF ProjectInv, LockInv, CallsMatch
    <3> QED BY <3>1 DEF ProjectInv, LockInv, HoldersOwnTheFile, Writing
  <2> QED BY <2>1, <2>2
<1> QED BY <1>1, SpecProjectInv, PTL
=============================================================================
