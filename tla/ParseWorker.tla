---------------------------- MODULE ParseWorker ----------------------------
(***************************************************************************)
(* How indexAll of src/src/extraction/index.ts has its files parsed by     *)
(* src/src/extraction/parse-worker.ts: one request at a time to a worker   *)
(* thread that may crash or hang, is replaced after so many parses, and    *)
(* whose events reach the main thread when they like, also after it has    *)
(* been replaced.  A file that a crash has failed is tried again alone,    *)
(* and a last time without its comments.                                   *)
(*                                                                         *)
(* A request is a file: each is requested at most once per pass, and the   *)
(* ids of the code tell the requests of the passes apart.                  *)
(***************************************************************************)
EXTENDS Naturals, Sequences, FiniteSets

CONSTANTS
    Files,
    NoFile,
    Slow,               \* files whose parse may take longer than its timeout
    Fatal,              \* files whose parse may kill the worker
    Barren,             \* files whose parse yields errors and no symbols
    Vanishing,          \* files that cannot be read at any time
    RecycleInterval,    \* WORKER_RECYCLE_INTERVAL
    Workers,            \* numbers of workers, given in ascending order
    NoWorker

ASSUME ParseWorkerAssumption ==
    /\ NoFile \notin Files
    /\ Slow \cup Fatal \cup Barren \cup Vanishing \subseteq Files
    /\ RecycleInterval \in Nat \ {0}
    /\ Workers \subseteq Nat
    /\ NoWorker \notin Workers

VARIABLES
    pass,       \* the loop that indexAll is in
    todo,       \* files this loop has still to take
    mpc,        \* where the main thread stands
    job,        \* the file it has taken
    outcome,    \* what has become of each file
    stored,     \* whose symbols have been stored for each file
    aborted,    \* signal.aborted
    worker,     \* parseWorker
    count,      \* workerParseCount
    pending,    \* pendingParses: <<file, pass>>
    state,      \* of each worker thread
    inbox,      \* the parses each worker has been sent and not yet answered
    posted,     \* auxiliary: how many parses each worker was ever sent
    hit         \* auxiliary: files whose last request met another one's failure

main    == <<pass, todo, mpc, job>>
results == <<outcome, stored, hit>>
pool    == <<worker, count, pending>>
threads == <<state, inbox, posted>>
vars == <<pass, todo, mpc, job, outcome, stored, hit, aborted,
          worker, count, pending, state, inbox, posted>>

Passes   == {"main", "retry", "stripped"}
Requests == Files \X Passes

\* "crashed" is before the error event, "dying" before the exit event.
Alive  == {"loading", "ready"}
States == Alive \cup {"unborn", "crashed", "dying", "terminated", "gone"}

\* "exited": with "Worker exited" or a memory error; "still": in stillFailing; "failed": for good.
Outcomes == {"waiting", "stored", "failed", "exited", "still"}

TypeOK ==
    /\ pass \in Passes
    /\ todo \subseteq Files
    /\ mpc \in {"pick", "request", "boot", "await", "done", "thrown"}
    /\ job \in Files \cup {NoFile}
    /\ mpc \in {"request", "boot", "await"} => job \in Files \ todo
    /\ outcome \in [Files -> Outcomes]
    /\ stored \in [Files -> Files \cup {NoFile}]
    /\ aborted \in BOOLEAN
    /\ worker \in Workers \cup {NoWorker}
    /\ count \in 0 .. RecycleInterval
    /\ pending \subseteq Requests
    /\ mpc = "await" <=> pending # {}
    /\ mpc = "await" => worker # NoWorker
    /\ state \in [Workers -> States]
    /\ inbox \in [Workers -> Seq(Requests)]
    /\ posted \in [Workers -> Nat]
    /\ hit \subseteq Files

\* The first worker is started before the loop and has loaded its grammars.
Init ==
    /\ pass = "main" /\ todo = Files /\ mpc = "pick" /\ job = NoFile
    /\ outcome = [f \in Files |-> "waiting"]
    /\ stored = [f \in Files |-> NoFile]
    /\ hit = {}
    /\ aborted = FALSE
    /\ worker \in {w \in Workers : \A v \in Workers : w <= v}
    /\ count = 0
    /\ pending = {}
    /\ state = [w \in Workers |-> IF w = worker THEN "ready" ELSE "unborn"]
    /\ inbox = [w \in Workers |-> <<>>]
    /\ posted = [w \in Workers |-> 0]
-----------------------------------------------------------------------------
(* What requestParse's end means for the file: in the main loop an error   *)
(* with its code, in the retry loop an entry of stillFailing, and in the   *)
(* last one nothing.                                                       *)
FailsWith(code) ==
    outcome' = [outcome EXCEPT ![job] =
                  CASE pass = "main"     -> code
                    [] pass = "retry"    -> "still"
                    [] pass = "stripped" -> @]

\* terminate(), unless the thread has already stopped by itself.
Terminated(w) ==
    [state EXCEPT ![w] = IF @ \in Alive THEN "terminated" ELSE @]

Abort ==
    /\ mpc \notin {"done", "thrown"} /\ ~aborted
    /\ aborted' = TRUE
    /\ UNCHANGED <<main, results, pool, threads>>

(* A loop takes its next file.  The two later loops recycle the worker     *)
(* first.                                                                  *)
Take(f) ==
    /\ mpc = "pick" /\ ~aborted /\ f \in todo
    /\ todo' = todo \ {f}
    /\ job' = f
    /\ IF pass # "main" /\ worker # NoWorker
       THEN /\ worker' = NoWorker
            /\ count' = 0
            /\ state' = Terminated(worker)
       ELSE UNCHANGED <<worker, count, state>>

Pick(f) ==
    /\ Take(f)
    /\ mpc' = "request"
    /\ UNCHANGED <<pass, results, aborted, pending, inbox, posted>>

(* The file cannot be read: an error of its own in the main loop, and the  *)
(* earlier error stands in the others.                                     *)
ReadFails(f) ==
    /\ f \in Vanishing
    /\ Take(f)
    /\ outcome' = [outcome EXCEPT ![f] = IF pass = "main" THEN "failed" ELSE @]
    /\ UNCHANGED <<pass, mpc, stored, hit, aborted, pending, inbox, posted>>

(* The message and the timer of a request to worker w.  It is hit if w is  *)
(* at something else or no longer there.                                   *)
Post(w) ==
    /\ mpc' = "await"
    /\ pending' = {<<job, pass>>}
    /\ inbox' = [inbox EXCEPT ![w] = Append(@, <<job, pass>>)]
    /\ posted' = [posted EXCEPT ![w] = @ + 1]
    /\ hit' = IF state[w] \in Alive /\ inbox[w] = <<>> THEN hit \ {job} ELSE hit \cup {job}

\* Mutation: one parse too many.
WornOutLate == worker # NoWorker /\ count > RecycleInterval

\* requestParse recycles a worker that has had its number of parses.
WornOut == worker # NoWorker /\ count >= RecycleInterval

(* ensureWorker finds a worker ...                                         *)
RequestAtOnce ==
    /\ mpc = "request"
    /\ worker # NoWorker /\ ~WornOut
    /\ Post(worker)
    /\ count' = count + 1
    /\ UNCHANGED <<pass, todo, job, outcome, stored, aborted, worker, state>>

IsNext(w) == state[w] = "unborn" /\ \A v \in Workers : v < w => state[v] # "unborn"

(* ... or starts one and waits for its grammars.                           *)
Spawn(w) ==
    /\ mpc = "request"
    /\ worker = NoWorker \/ WornOut
    /\ IsNext(w)
    /\ worker' = w
    /\ count' = 0
    /\ state' = [v \in Workers |->
                   IF v = w THEN "loading"
                   ELSE IF v = worker THEN Terminated(worker)[v] ELSE state[v]]
    /\ mpc' = "boot"
    /\ UNCHANGED <<pass, todo, job, results, aborted, pending, inbox, posted>>

(* grammars-loaded.                                                        *)
Loaded(w) ==
    /\ state[w] = "loading"
    /\ state' = [state EXCEPT ![w] = "ready"]
    /\ Post(w)
    /\ count' = count + 1
    /\ UNCHANGED <<pass, todo, job, outcome, stored, aborted, worker>>

(* It dies instead, and nothing settles ensureWorker's promise.            *)
BootFails(w) ==
    /\ state[w] = "loading"
    /\ state' = [state EXCEPT ![w] = "crashed"]
    /\ UNCHANGED <<main, results, aborted, pool, inbox, posted>>
-----------------------------------------------------------------------------
\* Mutation: an answer is taken for the answer to what is being waited for.
AnswersAny(request) == pending # {}

\* An answer counts if its id is waited for.
Answers(request) == request \in pending

(* The worker has parsed what it was sent first, and its answer arrives,   *)
(* perhaps after it was told to stop.                                      *)
OnMessage(w) ==
    /\ state[w] \in {"ready", "terminated"}
    /\ inbox[w] # <<>>
    /\ inbox' = [inbox EXCEPT ![w] = Tail(@)]
    /\ LET request == Head(inbox[w])
       IN  IF Answers(request)
           THEN /\ pending' = {}
                /\ mpc' = "pick"
                /\ IF request[1] \in Barren
                   THEN /\ outcome' = [outcome EXCEPT ![job] =
                                         IF pass = "main" THEN "failed" ELSE @]
                        /\ UNCHANGED stored
                   ELSE /\ outcome' = [outcome EXCEPT ![job] = "stored"]
                        /\ stored' = [stored EXCEPT ![job] = request[1]]
           ELSE UNCHANGED <<pending, mpc, outcome, stored>>
    /\ UNCHANGED <<pass, todo, job, hit, aborted, worker, count, state, posted>>

(* The file of an answer in a later loop is gone: stat throws out of       *)
(* indexAll.                                                               *)
StatThrows(w) ==
    /\ state[w] \in {"ready", "terminated"}
    /\ inbox[w] # <<>> /\ Head(inbox[w]) \in pending
    /\ pass # "main" /\ job \in Vanishing \ Barren
    /\ inbox' = [inbox EXCEPT ![w] = Tail(@)]
    /\ pending' = {}
    /\ mpc' = "thrown"
    /\ UNCHANGED <<pass, todo, job, results, aborted, worker, count, state, posted>>

(* A parse kills the thread, with an error event or by process.exit(1).    *)
Crash(w) ==
    /\ state[w] = "ready"
    /\ inbox[w] # <<>> /\ Head(inbox[w])[1] \in Fatal
    /\ \E s \in {"crashed", "dying"} : state' = [state EXCEPT ![w] = s]
    /\ UNCHANGED <<main, results, aborted, pool, inbox, posted>>

(* rejectAllPending fails what is waited for, whoever was to answer it.    *)
RejectAllPending(w, code) ==
    IF pending = {}
    THEN UNCHANGED <<pending, mpc, outcome, hit>>
    ELSE /\ pending' = {}
         /\ mpc' = "pick"
         /\ FailsWith(code)
         /\ hit' = IF w = worker THEN hit ELSE hit \cup {job}

(* The error event: a message of memory out of bounds is tried again, like *)
(* an exit, any other is not.                                              *)
OnError(w) ==
    /\ state[w] = "crashed"
    /\ \E code \in {"failed", "exited"} : RejectAllPending(w, code)
    /\ state' = [state EXCEPT ![w] = "dying"]
    /\ UNCHANGED <<pass, todo, job, stored, aborted, worker, count, inbox, posted>>

(* The exit event, with code 1 for terminated threads as well.             *)
OnExit(w) ==
    /\ state[w] \in {"dying", "terminated"}
    /\ RejectAllPending(w, "exited")
    /\ state' = [state EXCEPT ![w] = "gone"]
    /\ inbox' = [inbox EXCEPT ![w] = <<>>]
    /\ IF worker = w
       THEN worker' = NoWorker /\ count' = 0
       ELSE UNCHANGED <<worker, count>>
    /\ UNCHANGED <<pass, todo, job, stored, aborted, posted>>

\* A timer only fires if the worker is slow, dead, or at an earlier request.
TimesOut ==
    /\ pending # {}
    /\ \/ state[worker] # "ready"
       \/ Head(inbox[worker]) \notin pending
       \/ Head(inbox[worker])[1] \in Slow

\* Mutation: the worker is replaced and left to itself.
TimeoutLeaves ==
    /\ TimesOut
    /\ pending' = {} /\ mpc' = "pick"
    /\ FailsWith("failed")
    /\ worker' = NoWorker /\ count' = 0
    /\ UNCHANGED <<pass, todo, job, stored, hit, aborted, threads>>

\* Mutation: terminate() is awaited before the request is rejected.
TimeoutAwaitsTerminate ==
    /\ TimesOut
    /\ pending' = {}
    /\ worker' = NoWorker /\ count' = 0
    /\ state' = Terminated(worker)
    /\ UNCHANGED <<main, results, aborted, inbox, posted>>

(* The timer of the request fires: the worker is replaced and told to      *)
(* stop, but not waited for.                                               *)
Timeout ==
    /\ TimesOut
    /\ pending' = {} /\ mpc' = "pick"
    /\ FailsWith("failed")
    /\ worker' = NoWorker /\ count' = 0
    /\ state' = Terminated(worker)
    /\ UNCHANGED <<pass, todo, job, stored, hit, aborted, inbox, posted>>
-----------------------------------------------------------------------------
\* Mutation: nothing is tried again.
RetryableNever(p) == {}

\* What the loop after pass p goes through.
Retryable(p) ==
    {f \in Files : \/ p = "main"  /\ outcome[f] = "exited"
                   \/ p = "retry" /\ outcome[f] = "still"}

NextPass == IF pass = "main" THEN "retry" ELSE "stripped"

(* A loop ends, and the next one has something to do.                      *)
Again ==
    /\ mpc = "pick" /\ ~aborted /\ todo = {}
    /\ Retryable(pass) # {}
    /\ pass' = NextPass
    /\ todo' = Retryable(pass)
    /\ UNCHANGED <<mpc, job, results, aborted, pool, threads>>

(* indexAll ends, early or not, and terminates the worker it has.          *)
Finish ==
    /\ mpc = "pick"
    /\ aborted \/ (todo = {} /\ Retryable(pass) = {})
    /\ mpc' = "done"
    /\ state' = IF worker = NoWorker THEN state ELSE Terminated(worker)
    /\ UNCHANGED <<pass, todo, job, results, aborted, pool, inbox, posted>>

Main ==
    \/ \E f \in Files : Pick(f) \/ ReadFails(f)
    \/ RequestAtOnce
    \/ \E w \in Workers : Spawn(w)
    \/ Again \/ Finish

Event(w) == Loaded(w) \/ OnMessage(w) \/ StatThrows(w) \/ OnError(w) \/ OnExit(w)

Next ==
    \/ Main \/ Timeout \/ Abort
    \/ \E w \in Workers : Event(w) \/ BootFails(w) \/ Crash(w)

Spec == Init /\ [][Next]_vars

(* The main thread goes on, timers fire, workers load and answer unless    *)
(* the file is slow, and one that dies by itself is reported.  A thread    *)
(* that was told to stop need not do so.                                   *)
Fairness ==
    /\ WF_vars(Main) /\ WF_vars(Timeout)
    /\ \A w \in Workers :
          /\ WF_vars(Loaded(w)) /\ WF_vars(OnError(w))
          /\ WF_vars(OnMessage(w) /\ Head(inbox[w])[1] \notin Slow)
          /\ WF_vars(OnExit(w) /\ state[w] = "dying")

FairSpec == Spec /\ Fairness
-----------------------------------------------------------------------------
(* The symbols stored for a file are those of its own text, although       *)
(* answers arrive after their request has timed out or been rejected.      *)
ResultsAreTheirOwn == \A f \in Files : stored[f] \in {f, NoFile}

(* No worker parses more than WORKER_RECYCLE_INTERVAL files, whatever      *)
(* exit events of earlier workers arrive in between.                       *)
WorkersAreRecycled == \A w \in Workers : posted[w] <= RecycleInterval

(* A file whose own parse is in order fails only if its last request met   *)
(* the failure of another file's worker, and one that failed by an exit or *)
(* out of memory is tried again.                                           *)
FailuresAreExplained ==
    /\ \A f \in Files \ (Slow \cup Fatal \cup Barren \cup Vanishing) :
          outcome[f] \notin {"waiting", "stored"} => f \in hit \/ <<f, pass>> \in pending
    /\ mpc = "done" /\ ~aborted =>
          \A f \in Files \ (Barren \cup Vanishing) : outcome[f] # "exited"

(* When indexAll returns no thread of it is left running.                  *)
NoWorkerIsLeft == mpc = "done" => \A w \in Workers : state[w] \notin Alive

(* Whatever hangs, dies or answers late, the main thread and its workers   *)
(* stay in step.                                                           *)
WorkersAreSound == ResultsAreTheirOwn /\ WorkersAreRecycled /\ FailuresAreExplained /\ NoWorkerIsLeft

\* A worker died while indexAll awaited its grammars.
BootIsLost == mpc = "boot" /\ \A w \in Workers : state[w] # "loading"

(* indexAll comes to an end although workers hang and die, unless one dies *)
(* while it loads its grammars.                                            *)
IndexAllEnds == <>(mpc \in {"done", "thrown"} \/ BootIsLost)
=============================================================================
