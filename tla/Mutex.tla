------------------------------- MODULE Mutex -------------------------------
(***************************************************************************)
(* The in-process Mutex of src/src/utils.ts, as CodeGraph.indexAll,        *)
(* indexFiles and sync use it through withLock.  A task is one call of     *)
(* withLock.  Everything a task does between two awaits is one action: the *)
(* only interleaving points are the await inside acquire's loop and the    *)
(* body of withLock itself.                                                *)
(*                                                                         *)
(* next() resolves the waiter's promise, and the waiter runs again only in *)
(* a later microtask: until then it is "woken", and another call may take  *)
(* the lock first.  The order in which woken tasks run is left open, which *)
(* covers the order of the microtask queue.                                *)
(***************************************************************************)
EXTENDS Naturals, Sequences

CONSTANT Tasks

VARIABLES
    locked,       \* the mutex's flag
    waitQueue,    \* the resolvers parked by acquire, oldest first
    pc            \* where each task stands

vars == <<locked, waitQueue, pc>>

States == {"idle", "waiting", "woken", "holding", "done"}

TypeOK ==
    /\ locked \in BOOLEAN
    /\ waitQueue \in Seq(Tasks)
    /\ pc \in [Tasks -> States]

Init ==
    /\ locked = FALSE
    /\ waitQueue = <<>>
    /\ pc = [t \in Tasks |-> "idle"]

(* One turn of `while (this.locked) { await ... }`: park, or take the lock. *)
TryLock(t) ==
    \/ /\ locked
       /\ waitQueue' = Append(waitQueue, t)
       /\ pc' = [pc EXCEPT ![t] = "waiting"]
       /\ UNCHANGED locked
    \/ /\ ~locked
       /\ locked' = TRUE
       /\ pc' = [pc EXCEPT ![t] = "holding"]
       /\ UNCHANGED waitQueue

Acquire(t) == pc[t] = "idle" /\ TryLock(t)

(* Mutation: a woken call trusts its wake-up, `if` instead of `while`. *)
ResumeUnchecked(t) ==
    /\ pc[t] = "woken"
    /\ locked' = TRUE
    /\ pc' = [pc EXCEPT ![t] = "holding"]
    /\ UNCHANGED waitQueue

Resume(t) == pc[t] = "woken" /\ TryLock(t)

(* Mutation: the lock is freed and next() is never called. *)
ReleaseWithoutNext(t) ==
    /\ pc[t] = "holding"
    /\ locked' = FALSE
    /\ pc' = [pc EXCEPT ![t] = "done"]
    /\ UNCHANGED waitQueue

(* Mutation: the oldest waiter is read from the queue but not removed. *)
ReleasePeeks(t) ==
    /\ pc[t] = "holding"
    /\ locked' = FALSE
    /\ pc' = [u \in Tasks |-> IF u = t THEN "done"
                              ELSE IF waitQueue # <<>> /\ u = Head(waitQueue)
                                   THEN "woken" ELSE pc[u]]
    /\ UNCHANGED waitQueue

(* The function acquire returns, run by withLock's finally block whether   *)
(* the body returned or threw.                                             *)
Release(t) ==
    /\ pc[t] = "holding"
    /\ locked' = FALSE
    /\ \/ /\ waitQueue = <<>>
          /\ pc' = [pc EXCEPT ![t] = "done"]
          /\ UNCHANGED waitQueue
       \/ /\ waitQueue # <<>>
          /\ waitQueue' = Tail(waitQueue)
          /\ pc' = [pc EXCEPT ![t] = "done", ![Head(waitQueue)] = "woken"]

(* Every call has returned. *)
Terminated ==
    /\ \A t \in Tasks : pc[t] = "done"
    /\ UNCHANGED vars

Next ==
    \/ \E t \in Tasks : Acquire(t) \/ Resume(t) \/ Release(t)
    \/ Terminated

Spec == Init /\ [][Next]_vars

(* The event loop runs every resolved promise, and the bodies that         *)
(* withLock runs end (a body that never settles is the parse-pool hazard,  *)
(* which is modelled apart).                                               *)
Fairness == \A t \in Tasks : WF_vars(Resume(t)) /\ WF_vars(Release(t))

FairSpec == Spec /\ Fairness
-----------------------------------------------------------------------------
(* At most one body runs at a time, although a waiter is woken before it   *)
(* owns the lock and may be overtaken.                                     *)
MutualExclusion ==
    \A s, t \in Tasks : pc[s] = "holding" /\ pc[t] = "holding" => s = t

(* A free mutex with parked callers has somebody on the way who will take  *)
(* it or wake the next: a call is never left parked behind a free lock.    *)
NoLostWakeup ==
    ~locked /\ waitQueue # <<>> => \E t \in Tasks : pc[t] = "woken"

(* Every parked call is in the queue exactly once, so one release wakes it *)
(* and no release wakes a call that is not waiting.                        *)
QueuedExactlyOnce ==
    /\ \A i, j \in DOMAIN waitQueue : waitQueue[i] = waitQueue[j] => i = j
    /\ \A t \in Tasks :
          pc[t] = "waiting" <=> \E i \in DOMAIN waitQueue : waitQueue[i] = t

(* What every release hands on is sound: one body at a time, nobody parked *)
(* behind a free mutex, and each parked call woken by one release.         *)
MutexIsSafe == MutualExclusion /\ NoLostWakeup /\ QueuedExactlyOnce

(* Every call of withLock that has to wait gets its turn, overtaken or not. *)
EveryWaiterServed ==
    \A t \in Tasks : pc[t] = "waiting" ~> pc[t] = "holding"

(* The refinement mapping: a parked or woken call is asking. *)
Stage ==
    [t \in Tasks |-> CASE pc[t] = "idle"    -> "outside"
                       [] pc[t] = "waiting" -> "asking"
                       [] pc[t] = "woken"   -> "asking"
                       [] pc[t] = "holding" -> "inside"
                       [] pc[t] = "done"    -> "left"]

Access == INSTANCE ExclusiveAccess WITH Callers <- Tasks, stage <- Stage

(* The mutex gives exclusive access in the sense of ExclusiveAccess. *)
ImplementsExclusiveAccess == Access!Spec
=============================================================================
