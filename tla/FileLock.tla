------------------------------ MODULE FileLock ------------------------------
(***************************************************************************)
(* The cross-process FileLock of src/src/utils.ts: a file that holds the   *)
(* pid of its owner.  A handle is one FileLock object; a process may have  *)
(* several of them on the same path.  acquire and release are synchronous, *)
(* so two handles of one process never interleave inside them, but every   *)
(* system call of one process interleaves with those of another: each of   *)
(* existsSync, readFileSync, statSync, process.kill(pid, 0), unlinkSync    *)
(* and the open and the write of writeFileSync(..., {flag: 'wx'}) is an    *)
(* action.                                                                 *)
(*                                                                         *)
(* The contents of the file is all that acquire looks at; `owner` names    *)
(* the handle whose open created the file, which no code can see, and lets *)
(* the properties tell a handle's own file from a later one at its path.   *)
(***************************************************************************)
EXTENDS Naturals

CONSTANTS
    Handles,        \* FileLock objects on one lock path
    Processes,      \* process ids
    ProcOf,         \* the process of each handle
    CannotSignal,   \* <<p, q>>: kill(q, 0) fails in p although q is alive
    NoHandle, NoPid,
    Disturbances    \* which of the outside events below may happen

AllDisturbances == {"crash", "reuse", "age", "unlock", "writeFails"}

ASSUME FileLockAssumption ==
    /\ ProcOf \in [Handles -> Processes]
    /\ CannotSignal \subseteq Processes \X Processes
    /\ NoHandle \notin Handles
    /\ NoPid \notin Processes
    /\ Disturbances \subseteq AllDisturbances

VARIABLES
    file,       \* the file at lockPath: its creator, its contents, its age
    alive,      \* the pids some process runs under
    pc,         \* the system call each handle is about to make
    seen        \* what a call of acquire has read: the pid, and is it old?

vars == <<file, alive, pc, seen>>

Locations ==
    {"outside", "read", "stat", "judge", "unlink", "force", "create", "write",
     "holding", "releaseRead", "releaseUnlink", "dead"}

\* A handle of a process that is at one of these is not inside a call.
AtRest == {"outside", "holding", "dead"}

LockFiles == [owner : Handles \cup {NoHandle}, pid : Processes \cup {NoPid}, old : BOOLEAN]

NoFile == [owner |-> NoHandle, pid |-> NoPid, old |-> FALSE]

Exists == file # NoFile

Unread == [pid |-> NoPid, old |-> FALSE]

TypeOK ==
    /\ file \in LockFiles
    /\ alive \subseteq Processes
    /\ pc \in [Handles -> Locations]
    /\ seen \in [Handles -> [pid : Processes \cup {NoPid}, old : BOOLEAN]]

Init ==
    /\ file = NoFile
    /\ alive = Processes
    /\ pc = [h \in Handles |-> "outside"]
    /\ seen = [h \in Handles |-> Unread]

\* The other handles of the process are not in the middle of a call.
MayRun(h) ==
    \A g \in Handles \ {h} : ProcOf[g] = ProcOf[h] => pc[g] \in AtRest

Go(h, from, to) ==
    /\ pc[h] = from
    /\ MayRun(h)
    /\ pc' = [pc EXCEPT ![h] = to]
-----------------------------------------------------------------------------
(* acquire: existsSync. *)
Check(h) ==
    /\ Go(h, "outside", IF Exists THEN "read" ELSE "create")
    /\ UNCHANGED <<file, alive, seen>>

(* readFileSync and parseInt; a file that is gone is an error like any     *)
(* other, which the catch block answers by removing the file.              *)
Read(h) ==
    \/ /\ Exists
       /\ Go(h, "read", "stat")
       /\ seen' = [seen EXCEPT ![h].pid = file.pid]
       /\ UNCHANGED <<file, alive>>
    \/ /\ ~Exists
       /\ Go(h, "read", "force")
       /\ UNCHANGED <<file, alive, seen>>

Stat(h) ==
    \/ /\ Exists
       /\ Go(h, "stat", "judge")
       /\ seen' = [seen EXCEPT ![h].old = file.old]
       /\ UNCHANGED <<file, alive>>
    \/ /\ ~Exists
       /\ Go(h, "stat", "force")
       /\ UNCHANGED <<file, alive, seen>>

\* isProcessAlive: any error of process.kill(pid, 0) counts as dead.
SeemsAlive(h, pid) == pid \in alive /\ <<ProcOf[h], pid>> \notin CannotSignal

(* Mutation: a lock never goes stale while its pid seems alive.            *)
JudgeIgnoresAge(h) ==
    /\ Go(h, "judge", IF seen[h].pid # NoPid /\ SeemsAlive(h, seen[h].pid)
                      THEN "outside" ELSE "unlink")
    /\ UNCHANGED <<file, alive, seen>>

(* The staleness test: refuse, or remove the file.                         *)
Judge(h) ==
    /\ LET fresh == ~seen[h].old /\ seen[h].pid # NoPid /\ SeemsAlive(h, seen[h].pid)
       IN  /\ Go(h, "judge", IF fresh THEN "outside" ELSE "unlink")
           /\ seen' = IF fresh THEN [seen EXCEPT ![h] = Unread] ELSE seen
    /\ UNCHANGED <<file, alive>>

(* unlinkSync removes whatever is at the path by now.  When nothing is, it *)
(* throws and the catch block tries once more, ignoring the outcome.       *)
Unlink(h) ==
    /\ Go(h, "unlink", IF Exists THEN "create" ELSE "force")
    /\ file' = NoFile
    /\ seen' = [seen EXCEPT ![h] = Unread]
    /\ UNCHANGED alive

ForceUnlink(h) ==
    /\ Go(h, "force", "create")
    /\ file' = NoFile
    /\ seen' = [seen EXCEPT ![h] = Unread]
    /\ UNCHANGED alive

(* Mutation: the file is opened without the exclusive flag.                *)
CreateNotExclusive(h) ==
    /\ Go(h, "create", "write")
    /\ file' = [owner |-> h, pid |-> NoPid, old |-> FALSE]
    /\ UNCHANGED <<alive, seen>>

(* open(O_CREAT | O_EXCL): EEXIST refuses the caller.                      *)
Create(h) ==
    \/ /\ Exists
       /\ Go(h, "create", "outside")
       /\ UNCHANGED <<file, alive, seen>>
    \/ /\ ~Exists
       /\ Go(h, "create", "write")
       /\ file' = [owner |-> h, pid |-> NoPid, old |-> FALSE]
       /\ UNCHANGED <<alive, seen>>

(* The write goes to the file that was opened, wherever it is by now.      *)
Write(h) ==
    /\ Go(h, "write", "holding")
    /\ file' = IF file.owner = h
               THEN [owner |-> h, pid |-> ProcOf[h], old |-> FALSE] ELSE file
    /\ UNCHANGED <<alive, seen>>

(* A write that fails (a full disk) leaves the empty file behind.          *)
WriteFails(h) ==
    /\ "writeFails" \in Disturbances
    /\ Go(h, "write", "outside")
    /\ UNCHANGED <<file, alive, seen>>

(* Mutation: release only forgets that the lock is held.                   *)
ReleaseForgets(h) ==
    /\ Go(h, "holding", "outside")
    /\ UNCHANGED <<file, alive, seen>>

(* release: the call begins only on a lock that is held.                   *)
Release(h) ==
    /\ Go(h, "holding", "releaseRead")
    /\ UNCHANGED <<file, alive, seen>>

(* The file is removed only if it holds the caller's own pid.              *)
ReleaseRead(h) ==
    /\ Go(h, "releaseRead", IF file.pid = ProcOf[h] THEN "releaseUnlink" ELSE "outside")
    /\ UNCHANGED <<file, alive, seen>>

ReleaseUnlink(h) ==
    /\ Go(h, "releaseUnlink", "outside")
    /\ file' = NoFile
    /\ UNCHANGED <<alive, seen>>
-----------------------------------------------------------------------------
(* Two minutes pass since the file was written.                            *)
Age ==
    /\ "age" \in Disturbances
    /\ Exists /\ ~file.old
    /\ file' = [file EXCEPT !.old = TRUE]
    /\ UNCHANGED <<alive, pc, seen>>

(* A process dies anywhere, and with it all its handles.                   *)
Crash(p) ==
    /\ "crash" \in Disturbances
    /\ \E h \in Handles : ProcOf[h] = p /\ pc[h] # "dead"
    /\ alive' = alive \ {p}
    /\ pc' = [h \in Handles |-> IF ProcOf[h] = p THEN "dead" ELSE pc[h]]
    /\ UNCHANGED <<file, seen>>

(* An unrelated process is given the pid of a dead one.                    *)
Reuse(p) ==
    /\ "reuse" \in Disturbances
    /\ p \in Processes \ alive
    /\ alive' = alive \cup {p}
    /\ UNCHANGED <<file, pc, seen>>

(* `codegraph unlock` removes the file, no questions asked.                *)
Unlock ==
    /\ "unlock" \in Disturbances
    /\ Exists
    /\ file' = NoFile
    /\ UNCHANGED <<alive, pc, seen>>
-----------------------------------------------------------------------------
AcquireStep(h) ==
    \/ Check(h) \/ Read(h) \/ Stat(h) \/ Judge(h)
    \/ Unlink(h) \/ ForceUnlink(h) \/ Create(h) \/ Write(h)

ReleaseStep(h) == Release(h) \/ ReleaseRead(h) \/ ReleaseUnlink(h)

Next ==
    \/ \E h \in Handles : AcquireStep(h) \/ ReleaseStep(h) \/ WriteFails(h)
    \/ \E p \in Processes : Crash(p) \/ Reuse(p)
    \/ Age
    \/ Unlock

Spec == Init /\ [][Next]_vars

(* A process that is not killed runs on, operations end, time passes, and  *)
(* callers that are refused come back (a watcher retries after every       *)
(* debounce, a user types the command again).                              *)
Fairness ==
    /\ \A h \in Handles : WF_vars(AcquireStep(h)) /\ WF_vars(ReleaseStep(h))
    /\ WF_vars(Age)

FairSpec == Spec /\ Fairness
-----------------------------------------------------------------------------
Holding(h) == pc[h] \in {"holding", "releaseRead", "releaseUnlink"}

(* What FileLock's documentation says of it: two processes never have the  *)
(* lock together.  Two processes that start at the same time break it.     *)
MutualExclusion == \A g, h \in Handles : Holding(g) /\ Holding(h) => g = h

(* v's file is complete and young, nobody else is inside, and no call that *)
(* is under way has already read anything else.                            *)
HeldAlone(v) ==
    /\ pc[v] = "holding"
    /\ ProcOf[v] \in alive
    /\ file = [owner |-> v, pid |-> ProcOf[v], old |-> FALSE]
    /\ \A h \in Handles \ {v} :
          \/ pc[h] \in {"outside", "read", "create", "dead"}
          \/ pc[h] = "stat" /\ seen[h].pid = ProcOf[v]
          \/ pc[h] = "judge" /\ seen[h] = [pid |-> ProcOf[v], old |-> FALSE]

Settled(v) ==
    /\ HeldAlone(v)
    /\ \A h \in Handles : <<ProcOf[h], ProcOf[v]>> \notin CannotSignal

\* v lets go, dies, is held up for two minutes, or is unlocked by the user.
GivesUp(v) == Release(v) \/ Crash(ProcOf[v]) \/ Age \/ Unlock

(* Once a lock has settled, acquire refuses everybody, in whatever order   *)
(* the calls of any number of processes interleave, until its holder       *)
(* releases it or dies, two minutes pass or the user removes it.           *)
SettledLockIsKept ==
    [][\A v \in Handles : Settled(v) => Settled(v)' \/ GivesUp(v)]_vars

(* A handle that has released leaves no lock file of its own behind, even  *)
(* when its lock was stolen, removed or taken again meanwhile.             *)
NoLeakedLock ==
    \A h \in Handles :
        pc[h] \notin {"holding", "releaseRead", "releaseUnlink", "dead"} =>
            ~(file.owner = h /\ file.pid = ProcOf[h])

(* The lock of a process that died is reclaimed as long as somebody alive  *)
(* keeps asking, even when its pid was given to another process.           *)
DeadLockIsReclaimed ==
    (Exists /\ pc[file.owner] = "dead") ~>
        \/ ~Exists
        \/ pc[file.owner] # "dead"
        \/ \A h \in Handles : pc[h] = "dead"
=============================================================================
