------------------------- MODULE ParseWorkerProofs -------------------------
(***************************************************************************)
(* What TLAPS proves of the parse worker's life, for any files and         *)
(* workers, any recycling interval, and whichever files are slow, fatal,   *)
(* barren or vanishing.                                                    *)
(***************************************************************************)
EXTENDS ParseWorker, SequenceTheorems, TLAPS

Innocent == Files \ (Slow \cup Fatal \cup Barren \cup Vanishing)

(* Only the current worker may still be alive, and it loads only while the *)
(* main thread awaits it.                                                  *)
AliveIsCurrent ==
    \A w \in Workers :
        /\ state[w] \in Alive => worker = w /\ mpc # "done"
        /\ state[w] = "loading" => mpc = "boot"

(* workerParseCount is what the current worker has been sent.              *)
CountIsExact ==
    /\ worker # NoWorker => posted[worker] = count
    /\ mpc = "boot" => count = 0
    /\ worker = NoWorker => count = 0
    /\ worker # NoWorker => state[worker] # "unborn"
    /\ \A w \in Workers : state[w] = "unborn" => posted[w] = 0

(* Only the present request can be waited for, and unless it is hit its    *)
(* worker is there for nothing else.                                       *)
PendingIsCurrent ==
    /\ pending \subseteq {<<job, pass>>}
    /\ pending # {} /\ job \in Innocent \ hit =>
          state[worker] = "ready" /\ inbox[worker] = <<<<job, pass>>>>

InnocentFailHit ==
    \A f \in Innocent :
        outcome[f] \notin {"waiting", "stored"} => f \in hit \/ <<f, pass>> \in pending

(* A file that failed by an exit has a later loop before it.               *)
ExitedAreRetried ==
    \A f \in Files \ (Barren \cup Vanishing) :
        outcome[f] = "exited" =>
            \/ pass = "main" /\ mpc \notin {"done", "thrown"}
            \/ pass = "retry" /\ f \in todo /\ mpc \notin {"done", "thrown"}
            \/ pass = "retry" /\ f = job /\ mpc \in {"request", "boot", "await"}
            \/ aborted \/ mpc = "thrown"

PInv ==
    /\ TypeOK /\ AliveIsCurrent /\ CountIsExact /\ WorkersAreRecycled
    /\ PendingIsCurrent /\ ResultsAreTheirOwn /\ InnocentFailHit /\ ExitedAreRetried

(* The first worker is the current one, and nothing was asked of it yet.   *)
LEMMA InitPInv == Init => PInv
<1> SUFFICES ASSUME Init PROVE PInv
  OBVIOUS
<1> USE ParseWorkerAssumption DEF Init
<1>1. TypeOK
  <2>1. inbox \in [Workers -> Seq(Requests)] /\ posted \in [Workers -> Nat]
    BY EmptySeq
  <2>2. /\ state \in [Workers -> States] /\ outcome \in [Files -> Outcomes]
        /\ stored \in [Files -> Files \cup {NoFile}]
    BY DEF States, Alive, Outcomes
  <2>3. count \in 0 .. RecycleInterval /\ worker \in Workers \cup {NoWorker}
    OBVIOUS
  <2> QED BY <2>1, <2>2, <2>3 DEF TypeOK, Passes
<1>2. AliveIsCurrent /\ CountIsExact /\ WorkersAreRecycled
  BY DEF AliveIsCurrent, CountIsExact, WorkersAreRecycled, Alive
<1>3. PendingIsCurrent /\ ResultsAreTheirOwn /\ InnocentFailHit /\ ExitedAreRetried
  BY DEF PendingIsCurrent, ResultsAreTheirOwn, InnocentFailHit, ExitedAreRetried, Innocent
<1> QED BY <1>1, <1>2, <1>3 DEF PInv

(* What is waited for is the request of the file at hand.                  *)
LEMMA PendingIsJob ==
    ASSUME PendingIsCurrent
    PROVE  \A f : <<f, pass>> \in pending => f = job
BY DEF PendingIsCurrent

(* What a failed request does to the outcomes.                             *)
LEMMA FailureOutcome ==
    ASSUME TypeOK, job \in Files, NEW code \in {"failed", "exited"}, FailsWith(code)
    PROVE  /\ outcome' \in [Files -> Outcomes]
           /\ \A f \in Files \ {job} : outcome'[f] = outcome[f]
           /\ outcome'[job] = "exited" =>
                 pass = "main" \/ (pass = "stripped" /\ outcome[job] = "exited")
<1> USE DEF TypeOK, FailsWith, Passes
<1>1. CASE pass = "main"
  <2>1. outcome' = [outcome EXCEPT ![job] = code]
    BY <1>1
  <2>2. code \in Outcomes
    BY DEF Outcomes
  <2>3. outcome' \in [Files -> Outcomes]
    BY <2>1, <2>2
  <2>4. \A f \in Files \ {job} : outcome'[f] = outcome[f]
    BY <2>1
  <2> HIDE DEF FailsWith, TypeOK
  <2> QED BY <1>1, <2>3, <2>4
<1>2. CASE pass = "retry"
  BY <1>2 DEF Outcomes
<1>3. CASE pass = "stripped"
  BY <1>3
<1> QED BY <1>1, <1>2, <1>3

(* The signal is set. *)
LEMMA AbortKeeps == ASSUME PInv, Abort PROVE PInv'
<1> USE ParseWorkerAssumption DEF PInv, Abort, main, results, pool, threads, TypeOK, Alive
<1>1. TypeOK'
  BY DEF States, Outcomes, Passes, Requests
<1>2. AliveIsCurrent'
  BY DEF AliveIsCurrent
<1>3. CountIsExact'
  BY DEF CountIsExact, AliveIsCurrent, WorkersAreRecycled
<1>4. WorkersAreRecycled'
  BY DEF WorkersAreRecycled, CountIsExact
<1>5. PendingIsCurrent'
  BY DEF PendingIsCurrent, Innocent, Requests, AliveIsCurrent
<1>6. ResultsAreTheirOwn'
  BY DEF ResultsAreTheirOwn, PendingIsCurrent
<1>7. InnocentFailHit'
  BY DEF InnocentFailHit, Innocent, Requests, AliveIsCurrent, PendingIsCurrent
<1>8. ExitedAreRetried'
  BY DEF ExitedAreRetried, PendingIsCurrent, Passes
<1> QED BY <1>1, <1>2, <1>3, <1>4, <1>5, <1>6, <1>7, <1>8 DEF PInv

(* A loop takes a file. *)
LEMMA PickKeeps == ASSUME PInv, NEW f \in Files, Pick(f) PROVE PInv'
<1> USE ParseWorkerAssumption DEF PInv, Pick, Take, Terminated, main, results, pool, threads, TypeOK, Alive
<1>1. TypeOK'
  BY DEF States, Outcomes, Passes, Requests
<1>2. AliveIsCurrent'
  BY DEF AliveIsCurrent
<1>3. CountIsExact'
  BY DEF CountIsExact, AliveIsCurrent, WorkersAreRecycled
<1>4. WorkersAreRecycled'
  BY DEF WorkersAreRecycled, CountIsExact
<1>5. PendingIsCurrent'
  BY DEF PendingIsCurrent, Innocent, Requests, AliveIsCurrent
<1>6. ResultsAreTheirOwn'
  BY DEF ResultsAreTheirOwn, PendingIsCurrent
<1>7. InnocentFailHit'
  BY DEF InnocentFailHit, Innocent, Requests, AliveIsCurrent, PendingIsCurrent
<1>8. ExitedAreRetried'
  BY DEF ExitedAreRetried, PendingIsCurrent, Passes
<1> QED BY <1>1, <1>2, <1>3, <1>4, <1>5, <1>6, <1>7, <1>8 DEF PInv

(* A loop takes a file that it cannot read. *)
LEMMA ReadFailsKeeps == ASSUME PInv, NEW f \in Files, ReadFails(f) PROVE PInv'
<1> USE ParseWorkerAssumption DEF PInv, ReadFails, Take, Terminated, main, results, pool, threads, TypeOK, Alive
<1>1. TypeOK'
  BY DEF States, Outcomes, Passes, Requests
<1>2. AliveIsCurrent'
  BY DEF AliveIsCurrent
<1>3. CountIsExact'
  BY DEF CountIsExact, AliveIsCurrent, WorkersAreRecycled
<1>4. WorkersAreRecycled'
  BY DEF WorkersAreRecycled, CountIsExact
<1>5. PendingIsCurrent'
  BY DEF PendingIsCurrent, Innocent, Requests, AliveIsCurrent
<1>6. ResultsAreTheirOwn'
  BY DEF ResultsAreTheirOwn, PendingIsCurrent
<1>7. InnocentFailHit'
  BY DEF InnocentFailHit, Innocent, Requests, AliveIsCurrent, PendingIsCurrent
<1>8. ExitedAreRetried'
  BY DEF ExitedAreRetried, PendingIsCurrent, Passes
<1> QED BY <1>1, <1>2, <1>3, <1>4, <1>5, <1>6, <1>7, <1>8 DEF PInv

(* A request goes to the worker at hand. *)
LEMMA RequestAtOnceKeeps == ASSUME PInv, RequestAtOnce PROVE PInv'
<1> USE ParseWorkerAssumption DEF PInv, RequestAtOnce, Post, WornOut, main, results, pool, threads, TypeOK, Alive
<1>1. TypeOK'
  BY DEF States, Outcomes, Passes, Requests
<1>2. AliveIsCurrent'
  BY DEF AliveIsCurrent
<1>3. CountIsExact'
  BY DEF CountIsExact, AliveIsCurrent, WorkersAreRecycled
<1>4. WorkersAreRecycled'
  BY DEF WorkersAreRecycled, CountIsExact
<1>5. PendingIsCurrent'
  <2>1. /\ pending' = {<<job, pass>>} /\ job' = job /\ pass' = pass
        /\ worker' = worker /\ worker = worker /\ worker \in Workers
    BY DEF AliveIsCurrent
  <2>2. ASSUME job \in Innocent \ hit'
        PROVE  state'[worker] = "ready" /\ inbox'[worker] = <<<<job, pass>>>>
    <3>1. state[worker] \in Alive /\ inbox[worker] = <<>>
      BY <2>2
    <3>2. inbox'[worker] = Append(<<>>, <<job, pass>>)
      BY <2>1, <3>1
    <3>3. state'[worker] = "ready"
      BY <2>1, <3>1 DEF AliveIsCurrent
    <3> QED BY <3>2, <3>3
  <2> QED BY <2>1, <2>2 DEF PendingIsCurrent
<1>6. ResultsAreTheirOwn'
  BY DEF ResultsAreTheirOwn, PendingIsCurrent
<1>7. InnocentFailHit'
  BY DEF InnocentFailHit, Innocent, Requests, AliveIsCurrent, PendingIsCurrent
<1>8. ExitedAreRetried'
  BY DEF ExitedAreRetried, PendingIsCurrent, Passes
<1> QED BY <1>1, <1>2, <1>3, <1>4, <1>5, <1>6, <1>7, <1>8 DEF PInv

(* A request has to wait for a new worker. *)
LEMMA SpawnKeeps == ASSUME PInv, NEW w \in Workers, Spawn(w) PROVE PInv'
<1> USE ParseWorkerAssumption DEF PInv, Spawn, IsNext, Terminated, WornOut, main, results, pool, threads, TypeOK, Alive
<1>1. TypeOK'
  BY DEF States, Outcomes, Passes, Requests
<1>2. AliveIsCurrent'
  BY DEF AliveIsCurrent
<1>3. CountIsExact'
  BY DEF CountIsExact, AliveIsCurrent, WorkersAreRecycled
<1>4. WorkersAreRecycled'
  BY DEF WorkersAreRecycled, CountIsExact
<1>5. PendingIsCurrent'
  BY DEF PendingIsCurrent, Innocent, Requests, AliveIsCurrent
<1>6. ResultsAreTheirOwn'
  BY DEF ResultsAreTheirOwn, PendingIsCurrent
<1>7. InnocentFailHit'
  BY DEF InnocentFailHit, Innocent, Requests, AliveIsCurrent, PendingIsCurrent
<1>8. ExitedAreRetried'
  BY DEF ExitedAreRetried, PendingIsCurrent, Passes
<1> QED BY <1>1, <1>2, <1>3, <1>4, <1>5, <1>6, <1>7, <1>8 DEF PInv

(* The new worker is there, and the request goes to it. *)
LEMMA LoadedKeeps == ASSUME PInv, NEW w \in Workers, Loaded(w) PROVE PInv'
<1> USE ParseWorkerAssumption DEF PInv, Loaded, Post, main, results, pool, threads, TypeOK, Alive
<1>1. TypeOK'
  <2>1. worker = w /\ mpc = "boot" /\ count = 0
    BY DEF AliveIsCurrent, CountIsExact
  <2>2. <<job, pass>> \in Requests
    BY <2>1 DEF Requests
  <2>3. inbox' \in [Workers -> Seq(Requests)]
    BY <2>2, AppendProperties
  <2>4. count' \in 0 .. RecycleInterval /\ posted' \in [Workers -> Nat]
    BY <2>1
  <2>5. state' \in [Workers -> States]
    BY DEF States
  <2> QED BY <2>1, <2>2, <2>3, <2>4, <2>5 DEF Passes
<1>2. AliveIsCurrent'
  BY DEF AliveIsCurrent
<1>3. CountIsExact'
  BY DEF CountIsExact, AliveIsCurrent, WorkersAreRecycled
<1>4. WorkersAreRecycled'
  <2>1. worker = w /\ count = 0 /\ posted[w] = 0
    BY DEF AliveIsCurrent, CountIsExact
  <2> QED BY <2>1 DEF WorkersAreRecycled
<1>5. PendingIsCurrent'
  <2>1. /\ pending' = {<<job, pass>>} /\ job' = job /\ pass' = pass
        /\ worker' = worker /\ worker = w /\ w \in Workers
    BY DEF AliveIsCurrent
  <2>2. ASSUME job \in Innocent \ hit'
        PROVE  state'[w] = "ready" /\ inbox'[w] = <<<<job, pass>>>>
    <3>1. state[w] \in Alive /\ inbox[w] = <<>>
      BY <2>2
    <3>2. inbox'[w] = Append(<<>>, <<job, pass>>)
      BY <2>1, <3>1
    <3>3. state'[w] = "ready"
      BY <2>1, <3>1 DEF AliveIsCurrent
    <3> QED BY <3>2, <3>3
  <2> QED BY <2>1, <2>2 DEF PendingIsCurrent
<1>6. ResultsAreTheirOwn'
  BY DEF ResultsAreTheirOwn, PendingIsCurrent
<1>7. InnocentFailHit'
  BY DEF InnocentFailHit, Innocent, Requests, AliveIsCurrent, PendingIsCurrent
<1>8. ExitedAreRetried'
  BY DEF ExitedAreRetried, PendingIsCurrent, Passes, AliveIsCurrent
<1> QED BY <1>1, <1>2, <1>3, <1>4, <1>5, <1>6, <1>7, <1>8 DEF PInv

(* The new worker dies. *)
LEMMA BootFailsKeeps == ASSUME PInv, NEW w \in Workers, BootFails(w) PROVE PInv'
<1> USE ParseWorkerAssumption DEF PInv, BootFails, main, results, pool, threads, TypeOK, Alive
<1>1. TypeOK'
  BY DEF States, Outcomes, Passes, Requests
<1>2. AliveIsCurrent'
  BY DEF AliveIsCurrent
<1>3. CountIsExact'
  BY DEF CountIsExact, AliveIsCurrent, WorkersAreRecycled
<1>4. WorkersAreRecycled'
  BY DEF WorkersAreRecycled, CountIsExact
<1>5. PendingIsCurrent'
  BY DEF PendingIsCurrent, Innocent, Requests, AliveIsCurrent
<1>6. ResultsAreTheirOwn'
  BY DEF ResultsAreTheirOwn, PendingIsCurrent
<1>7. InnocentFailHit'
  BY DEF InnocentFailHit, Innocent, Requests, AliveIsCurrent, PendingIsCurrent
<1>8. ExitedAreRetried'
  BY DEF ExitedAreRetried, PendingIsCurrent, Passes
<1> QED BY <1>1, <1>2, <1>3, <1>4, <1>5, <1>6, <1>7, <1>8 DEF PInv

(* An answer arrives, waited for or not. *)
LEMMA OnMessageKeeps == ASSUME PInv, NEW w \in Workers, OnMessage(w) PROVE PInv'
<1> USE ParseWorkerAssumption DEF PInv, OnMessage, Answers, main, results, pool, threads, TypeOK, Alive
<1>1. TypeOK'
  <2>1. Head(inbox[w]) \in Requests /\ Tail(inbox[w]) \in Seq(Requests)
    BY HeadTailProperties
  <2>2. inbox' \in [Workers -> Seq(Requests)]
    BY <2>1
  <2>3. /\ outcome' \in [Files -> Outcomes] /\ stored' \in [Files -> Files \cup {NoFile}]
        /\ pending' \subseteq Requests /\ (mpc' = "await" <=> pending' # {})
        /\ mpc' \in {"pick", mpc}
    <3>1. CASE Head(inbox[w]) \in pending /\ Head(inbox[w])[1] \in Barren
      <4>1. outcome' \in [Files -> Outcomes]
        <5>1. CASE pass = "main"
          <6>1. outcome' = [outcome EXCEPT ![job] = "failed"]
            BY <3>1, <5>1
          <6> QED BY <6>1 DEF Outcomes
        <5>2. CASE pass # "main"
          BY <3>1, <5>2
        <5> QED BY <5>1, <5>2
      <4> QED BY <3>1, <4>1
    <3>3. CASE Head(inbox[w]) \in pending /\ Head(inbox[w])[1] \notin Barren
      BY <2>1, <3>3 DEF Outcomes, Requests
    <3>2. CASE Head(inbox[w]) \notin pending
      BY <3>2
    <3> QED BY <3>1, <3>2, <3>3
  <2> QED BY <2>2, <2>3 DEF States, Passes
<1>2. AliveIsCurrent'
  BY DEF AliveIsCurrent
<1>3. CountIsExact'
  BY DEF CountIsExact, AliveIsCurrent, WorkersAreRecycled
<1>4. WorkersAreRecycled'
  BY DEF WorkersAreRecycled, CountIsExact
<1>5. PendingIsCurrent'
  BY DEF PendingIsCurrent, Innocent, Requests, AliveIsCurrent
<1>6. ResultsAreTheirOwn'
  BY DEF ResultsAreTheirOwn, PendingIsCurrent
<1>7. InnocentFailHit'
  BY DEF InnocentFailHit, Innocent, Requests, AliveIsCurrent, PendingIsCurrent
<1>8. ExitedAreRetried'
  BY DEF ExitedAreRetried, PendingIsCurrent, Passes
<1> QED BY <1>1, <1>2, <1>3, <1>4, <1>5, <1>6, <1>7, <1>8 DEF PInv

(* An answer arrives for a file that has gone. *)
LEMMA StatThrowsKeeps == ASSUME PInv, NEW w \in Workers, StatThrows(w) PROVE PInv'
<1> USE ParseWorkerAssumption DEF PInv, StatThrows, main, results, pool, threads, TypeOK, Alive
<1>1. TypeOK'
  BY DEF States, Outcomes, Passes, Requests
<1>2. AliveIsCurrent'
  BY DEF AliveIsCurrent
<1>3. CountIsExact'
  BY DEF CountIsExact, AliveIsCurrent, WorkersAreRecycled
<1>4. WorkersAreRecycled'
  BY DEF WorkersAreRecycled, CountIsExact
<1>5. PendingIsCurrent'
  BY DEF PendingIsCurrent, Innocent, Requests, AliveIsCurrent
<1>6. ResultsAreTheirOwn'
  BY DEF ResultsAreTheirOwn, PendingIsCurrent
<1>7. InnocentFailHit'
  <2>1. job \notin Innocent
    BY DEF Innocent
  <2> QED BY <2>1, PendingIsJob DEF InnocentFailHit
<1>8. ExitedAreRetried'
  BY DEF ExitedAreRetried, PendingIsCurrent, Passes
<1> QED BY <1>1, <1>2, <1>3, <1>4, <1>5, <1>6, <1>7, <1>8 DEF PInv

(* A parse kills its worker. *)
LEMMA CrashKeeps == ASSUME PInv, NEW w \in Workers, Crash(w) PROVE PInv'
<1> USE ParseWorkerAssumption DEF PInv, Crash, main, results, pool, threads, TypeOK, Alive
<1>1. TypeOK'
  BY DEF States, Outcomes, Passes, Requests
<1>2. AliveIsCurrent'
  BY DEF AliveIsCurrent
<1>3. CountIsExact'
  BY DEF CountIsExact, AliveIsCurrent, WorkersAreRecycled
<1>4. WorkersAreRecycled'
  BY DEF WorkersAreRecycled, CountIsExact
<1>5. PendingIsCurrent'
  BY DEF PendingIsCurrent, Innocent, Requests, AliveIsCurrent
<1>6. ResultsAreTheirOwn'
  BY DEF ResultsAreTheirOwn, PendingIsCurrent
<1>7. InnocentFailHit'
  BY DEF InnocentFailHit, Innocent, Requests, AliveIsCurrent, PendingIsCurrent
<1>8. ExitedAreRetried'
  BY DEF ExitedAreRetried, PendingIsCurrent, Passes
<1> QED BY <1>1, <1>2, <1>3, <1>4, <1>5, <1>6, <1>7, <1>8 DEF PInv

(* The error event of a worker. *)
LEMMA OnErrorKeeps == ASSUME PInv, NEW w \in Workers, OnError(w) PROVE PInv'
<1> USE ParseWorkerAssumption DEF PInv, OnError, RejectAllPending, main, results, pool, threads, TypeOK, Alive
<1>1. TypeOK'
  <2>1. outcome' \in [Files -> Outcomes]
    BY FailureOutcome
  <2>2. inbox' \in [Workers -> Seq(Requests)]
    BY EmptySeq
  <2>3. state' \in [Workers -> States]
    BY DEF States
  <2>4. /\ pending' = {} /\ mpc' # "await" /\ mpc' \in {"pick", mpc}
        /\ hit' \subseteq Files
    OBVIOUS
  <2> HIDE DEF RejectAllPending
  <2> QED BY <2>1, <2>2, <2>3, <2>4 DEF Passes
<1>2. AliveIsCurrent'
  BY DEF AliveIsCurrent
<1>3. CountIsExact'
  BY DEF CountIsExact, AliveIsCurrent, WorkersAreRecycled
<1>4. WorkersAreRecycled'
  BY DEF WorkersAreRecycled, CountIsExact
<1>5. PendingIsCurrent'
  BY DEF PendingIsCurrent, Innocent, Requests, AliveIsCurrent
<1>6. ResultsAreTheirOwn'
  BY DEF ResultsAreTheirOwn, PendingIsCurrent
<1>7. InnocentFailHit'
  <2>1. pending # {} /\ w = worker => job \notin Innocent \ hit
    BY DEF PendingIsCurrent
  <2>2. \A f \in Files \ {job} : outcome'[f] = outcome[f] /\ (f \in hit => f \in hit')
    BY FailureOutcome
  <2>3. CASE pending = {}
    BY <2>3 DEF InnocentFailHit
  <2>4. CASE pending # {}
    <3>1. job \in Innocent => job \in hit'
      BY <2>1, <2>4
    <3> QED BY <2>2, <2>4, <3>1, PendingIsJob DEF InnocentFailHit, Innocent
  <2> QED BY <2>3, <2>4
<1>8. ExitedAreRetried'
  <2>1. CASE pending = {}
    BY <2>1 DEF ExitedAreRetried
  <2>2. CASE pending # {}
    <3>1. /\ \A f \in Files \ {job} : outcome'[f] = outcome[f]
          /\ outcome'[job] = "exited" =>
                pass = "main" \/ (pass = "stripped" /\ outcome[job] = "exited")
      BY <2>2, FailureOutcome
    <3>2. mpc = "await" /\ mpc' = "pick"
      BY <2>2
    <3> HIDE DEF RejectAllPending
    <3> QED BY <3>1, <3>2 DEF ExitedAreRetried
  <2> QED BY <2>1, <2>2
<1> QED BY <1>1, <1>2, <1>3, <1>4, <1>5, <1>6, <1>7, <1>8 DEF PInv

(* The exit event of a worker. *)
LEMMA OnExitKeeps == ASSUME PInv, NEW w \in Workers, OnExit(w) PROVE PInv'
<1> USE ParseWorkerAssumption DEF PInv, OnExit, RejectAllPending, main, results, pool, threads, TypeOK, Alive
<1>1. TypeOK'
  <2>1. outcome' \in [Files -> Outcomes]
    BY FailureOutcome
  <2>2. inbox' \in [Workers -> Seq(Requests)]
    BY EmptySeq
  <2>3. state' \in [Workers -> States]
    BY DEF States
  <2>4. /\ pending' = {} /\ mpc' # "await" /\ mpc' \in {"pick", mpc}
        /\ hit' \subseteq Files
    OBVIOUS
  <2> HIDE DEF RejectAllPending
  <2> QED BY <2>1, <2>2, <2>3, <2>4 DEF Passes
<1>2. AliveIsCurrent'
  BY DEF AliveIsCurrent
<1>3. CountIsExact'
  BY DEF CountIsExact, AliveIsCurrent, WorkersAreRecycled
<1>4. WorkersAreRecycled'
  BY DEF WorkersAreRecycled, CountIsExact
<1>5. PendingIsCurrent'
  BY DEF PendingIsCurrent, Innocent, Requests, AliveIsCurrent
<1>6. ResultsAreTheirOwn'
  BY DEF ResultsAreTheirOwn, PendingIsCurrent
<1>7. InnocentFailHit'
  <2>1. pending # {} /\ w = worker => job \notin Innocent \ hit
    BY DEF PendingIsCurrent
  <2>2. \A f \in Files \ {job} : outcome'[f] = outcome[f] /\ (f \in hit => f \in hit')
    BY FailureOutcome
  <2>3. CASE pending = {}
    BY <2>3 DEF InnocentFailHit
  <2>4. CASE pending # {}
    <3>1. job \in Innocent => job \in hit'
      BY <2>1, <2>4
    <3> QED BY <2>2, <2>4, <3>1, PendingIsJob DEF InnocentFailHit, Innocent
  <2> QED BY <2>3, <2>4
<1>8. ExitedAreRetried'
  <2>1. CASE pending = {}
    BY <2>1 DEF ExitedAreRetried
  <2>2. CASE pending # {}
    <3>1. /\ \A f \in Files \ {job} : outcome'[f] = outcome[f]
          /\ outcome'[job] = "exited" =>
                pass = "main" \/ (pass = "stripped" /\ outcome[job] = "exited")
      BY <2>2, FailureOutcome
    <3>2. mpc = "await" /\ mpc' = "pick"
      BY <2>2
    <3> HIDE DEF RejectAllPending
    <3> QED BY <3>1, <3>2 DEF ExitedAreRetried
  <2> QED BY <2>1, <2>2
<1> QED BY <1>1, <1>2, <1>3, <1>4, <1>5, <1>6, <1>7, <1>8 DEF PInv

(* The timer of a request fires. *)
LEMMA TimeoutKeeps == ASSUME PInv, Timeout PROVE PInv'
<1> USE ParseWorkerAssumption DEF PInv, Timeout, TimesOut, Terminated, main, results, pool, threads, TypeOK, Alive
<1>1. TypeOK'
  <2>1. outcome' \in [Files -> Outcomes]
    BY FailureOutcome
  <2> QED BY <2>1 DEF States, Passes
<1>2. AliveIsCurrent'
  BY DEF AliveIsCurrent
<1>3. CountIsExact'
  BY DEF CountIsExact, AliveIsCurrent, WorkersAreRecycled
<1>4. WorkersAreRecycled'
  BY DEF WorkersAreRecycled, CountIsExact
<1>5. PendingIsCurrent'
  BY DEF PendingIsCurrent, Innocent, Requests, AliveIsCurrent
<1>6. ResultsAreTheirOwn'
  BY DEF ResultsAreTheirOwn, PendingIsCurrent
<1>7. InnocentFailHit'
  <2>1. job \notin Innocent \ hit
    <3> SUFFICES ASSUME job \in Innocent \ hit PROVE FALSE
      OBVIOUS
    <3>0. pending # {} /\ pending \subseteq {<<job, pass>>}
      BY DEF PendingIsCurrent
    <3>1. /\ pending = {<<job, pass>>} /\ state[worker] = "ready"
          /\ inbox[worker] = <<<<job, pass>>>>
      BY <3>0 DEF PendingIsCurrent
    <3>2. Head(inbox[worker]) = <<job, pass>>
      BY <3>1
    <3> QED BY <3>1, <3>2 DEF Innocent
  <2>2. \A f \in Files \ {job} : outcome'[f] = outcome[f]
    BY FailureOutcome
  <2> QED BY <2>1, <2>2, PendingIsJob DEF InnocentFailHit, Innocent
<1>8. ExitedAreRetried'
  <2>1. /\ \A f \in Files \ {job} : outcome'[f] = outcome[f]
        /\ outcome'[job] = "exited" =>
              pass = "main" \/ (pass = "stripped" /\ outcome[job] = "exited")
    BY FailureOutcome
  <2>2. mpc = "await" /\ mpc' = "pick"
    OBVIOUS
  <2> HIDE DEF FailsWith
  <2> QED BY <2>1, <2>2 DEF ExitedAreRetried
<1> QED BY <1>1, <1>2, <1>3, <1>4, <1>5, <1>6, <1>7, <1>8 DEF PInv

(* The next loop begins. *)
LEMMA AgainKeeps == ASSUME PInv, Again PROVE PInv'
<1> USE ParseWorkerAssumption DEF PInv, Again, Retryable, NextPass, main, results, pool, threads, TypeOK, Alive
<1>1. TypeOK'
  BY DEF States, Outcomes, Passes, Requests
<1>2. AliveIsCurrent'
  BY DEF AliveIsCurrent
<1>3. CountIsExact'
  BY DEF CountIsExact, AliveIsCurrent, WorkersAreRecycled
<1>4. WorkersAreRecycled'
  BY DEF WorkersAreRecycled, CountIsExact
<1>5. PendingIsCurrent'
  BY DEF PendingIsCurrent, Innocent, Requests, AliveIsCurrent
<1>6. ResultsAreTheirOwn'
  BY DEF ResultsAreTheirOwn, PendingIsCurrent
<1>7. InnocentFailHit'
  BY DEF InnocentFailHit, Innocent, Requests, AliveIsCurrent, PendingIsCurrent
<1>8. ExitedAreRetried'
  BY DEF ExitedAreRetried, PendingIsCurrent, Passes
<1> QED BY <1>1, <1>2, <1>3, <1>4, <1>5, <1>6, <1>7, <1>8 DEF PInv

(* indexAll ends. *)
LEMMA FinishKeeps == ASSUME PInv, Finish PROVE PInv'
<1> USE ParseWorkerAssumption DEF PInv, Finish, Terminated, Retryable, main, results, pool, threads, TypeOK, Alive
<1>1. TypeOK'
  BY DEF States, Outcomes, Passes, Requests
<1>2. AliveIsCurrent'
  BY DEF AliveIsCurrent
<1>3. CountIsExact'
  BY DEF CountIsExact, AliveIsCurrent, WorkersAreRecycled
<1>4. WorkersAreRecycled'
  BY DEF WorkersAreRecycled, CountIsExact
<1>5. PendingIsCurrent'
  BY DEF PendingIsCurrent, Innocent, Requests, AliveIsCurrent
<1>6. ResultsAreTheirOwn'
  BY DEF ResultsAreTheirOwn, PendingIsCurrent
<1>7. InnocentFailHit'
  BY DEF InnocentFailHit, Innocent, Requests, AliveIsCurrent, PendingIsCurrent
<1>8. ExitedAreRetried'
  BY DEF ExitedAreRetried, PendingIsCurrent, Passes
<1> QED BY <1>1, <1>2, <1>3, <1>4, <1>5, <1>6, <1>7, <1>8 DEF PInv

(* Every step keeps the invariant. *)
LEMMA NextKeepsPInv == PInv /\ [Next]_vars => PInv'
<1> SUFFICES ASSUME PInv, [Next]_vars PROVE PInv'
  OBVIOUS
<1>1. CASE Main
  BY <1>1, PickKeeps, ReadFailsKeeps, RequestAtOnceKeeps, SpawnKeeps, AgainKeeps, FinishKeeps DEF Main
<1>2. CASE Timeout
  BY <1>2, TimeoutKeeps
<1>3. CASE Abort
  BY <1>3, AbortKeeps
<1>4. ASSUME NEW w \in Workers, Event(w) \/ BootFails(w) \/ Crash(w)
      PROVE  PInv'
  BY <1>4, LoadedKeeps, OnMessageKeeps, StatThrowsKeeps, OnErrorKeeps, OnExitKeeps,
     BootFailsKeeps, CrashKeeps DEF Event
<1>5. CASE UNCHANGED vars
  BY <1>5 DEF vars, PInv, TypeOK, AliveIsCurrent, CountIsExact, WorkersAreRecycled,
     PendingIsCurrent, ResultsAreTheirOwn, InnocentFailHit, ExitedAreRetried
<1> QED BY <1>1, <1>2, <1>3, <1>4, <1>5 DEF Next

(* The invariant holds always. *)
LEMMA PInvHolds == Spec => []PInv
<1> QED BY InitPInv, NextKeepsPInv, PTL DEF Spec

(* Main thread, pool and workers stay inside their protocol.               *)
THEOREM ParseWorkerTypeOK == Spec => []TypeOK
<1>1. PInv => TypeOK
  BY DEF PInv
<1> QED BY <1>1, PInvHolds, PTL

(* No late or rejected answer is ever stored for another file.             *)
THEOREM AnswersAreNotMixedUp == Spec => []ResultsAreTheirOwn
<1>1. PInv => ResultsAreTheirOwn
  BY DEF PInv
<1> QED BY <1>1, PInvHolds, PTL

(* No worker is sent more parses than WORKER_RECYCLE_INTERVAL.             *)
THEOREM WorkersAreRecycledInTime == Spec => []WorkersAreRecycled
<1>1. PInv => WorkersAreRecycled
  BY DEF PInv
<1> QED BY <1>1, PInvHolds, PTL

(* indexAll leaves no thread running when it returns.                      *)
THEOREM NoWorkerOutlivesIndexAll == Spec => []NoWorkerIsLeft
<1>1. PInv => NoWorkerIsLeft
  BY DEF PInv, AliveIsCurrent, NoWorkerIsLeft
<1> QED BY <1>1, PInvHolds, PTL

(* A good file is lost only to another file's failure, and no failure by   *)
(* an exit is left untried.                                                *)
THEOREM FailuresHaveTheirCause == Spec => []FailuresAreExplained
<1>1. PInv => FailuresAreExplained
  BY DEF PInv, InnocentFailHit, Innocent, ExitedAreRetried, FailuresAreExplained
<1> QED BY <1>1, PInvHolds, PTL

(* WorkersAreSound: main thread and workers stay in step for any files,    *)
(* any recycle interval and whatever hangs, dies or answers late.          *)
THEOREM WorkersStaySound == Spec => []WorkersAreSound
<1> QED BY AnswersAreNotMixedUp, WorkersAreRecycledInTime, FailuresHaveTheirCause,
           NoWorkerOutlivesIndexAll, PTL DEF WorkersAreSound
=============================================================================
