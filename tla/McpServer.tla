------------------------------ MODULE McpServer ------------------------------
(***************************************************************************)
(* One MCP server process: its engine (src/src/mcp/engine.ts), the         *)
(* sessions of its clients (session.ts), the requests the server sends     *)
(* them (transport.ts), and what the tool handler keeps between calls      *)
(* (tools.ts): the default project, the gate of the first catch-up sync    *)
(* and the cache of other projects.                                        *)
(*                                                                         *)
(* An action is what runs between two awaits that really wait: for a       *)
(* message, for CodeGraph.open, for the answer to roots/list, for a sync.  *)
(* A message that has just been woken is "running", and the event loop     *)
(* lets all of those run before it takes the next event (Quiet).           *)
(***************************************************************************)
EXTENDS Naturals, Sequences

CONSTANTS
    Dirs,           \* directories a client or a user may name
    None,
    Lineage,        \* directory -> itself and those above it, nearest first
    Cwd,            \* process.cwd()
    Sessions,
    Messages,       \* [id, session, path]: tools/list, tools/call with projectPath
    Disciplined,    \* do clients initialize before anything else?
    MaxFailures     \* bound on the attempts to open that fail

ASSUME McpServerAssumption ==
    /\ None \notin Dirs \cup Nat
    /\ Cwd \in Dirs
    /\ Lineage \in [Dirs -> Seq(Dirs)]
    /\ \A d \in Dirs : Lineage[d] # <<>> /\ Lineage[d][1] = d
    /\ \A m \in Messages : m.session \in Sessions /\ m.path \in Dirs \cup {None}
    /\ Disciplined \in BOOLEAN
    /\ MaxFailures \in Nat

VARIABLES
    daemon,     \* several sessions and a project, or one session
    explicit,   \* the project of --path, or None
    indexed,    \* directories with a .codegraph
    failures,   \* attempts to open that have failed
    inst,       \* the CodeGraph instances, in the order they were opened
    engine,     \* [cg, path, opening, grammars, watcherStarted, closed]
    default,    \* ToolHandler.cg
    gate,       \* ToolHandler.catchUpGate: the instance whose sync it awaits
    cache,      \* ToolHandler.projectCache
    session,    \* [state, supportsRoots, attempted, resolve, request, announced]
    pc,         \* where each message stands
    gatedOn,    \* the gate a call has taken
    answer      \* [from, notice]: who answered, whose pending files were asked

project  == <<daemon, explicit, indexed>>
handler  == <<default, gate, cache>>
calls    == <<gatedOn, answer>>
vars == <<daemon, explicit, indexed, failures, inst, engine, default, gate, cache,
          session, pc, gatedOn, answer>>

\* A session with nothing said: no client connected.
Fresh == [state |-> "none", supportsRoots |-> FALSE, attempted |-> FALSE,
          resolve |-> "none", request |-> "none", announced |-> None]

Running == {"retry", "lastResort", "fromCwd", "ready", "serve"}

Instance == [root : Dirs, open : BOOLEAN, catchUp : {"never", "running", "done"},
             watched : BOOLEAN]

Session == [state : {"none", "ready", "gone"}, supportsRoots : BOOLEAN, attempted : BOOLEAN,
            resolve : {"none", "init", "roots"},
            request : {"none", "pending", "expired", "settled"},
            announced : Dirs \cup {None}]

TypeOK ==
    LET Some == DOMAIN inst \cup {None}
    IN  /\ daemon \in BOOLEAN /\ explicit \in Dirs \cup {None} /\ indexed \in SUBSET Dirs
        /\ failures \in 0 .. MaxFailures
        /\ inst \in Seq(Instance)
        /\ engine \in [cg : Some, path : Dirs \cup {None}, opening : Dirs \cup {None},
                       grammars : BOOLEAN, watcherStarted : BOOLEAN, closed : BOOLEAN]
        /\ default \in Some /\ gate \in Some
        /\ cache \in [Dirs -> Some]
        /\ session \in [Sessions -> Session]
        /\ pc \in [Messages -> Running \cup {"unsent", "resolving", "asked", "gated",
                                             "answered", "failed"}]
        /\ gatedOn \in [Messages -> Some]
        /\ answer \in [Messages -> [from : Some, notice : Some]]
-----------------------------------------------------------------------------
(* findNearestCodeGraphRoot: the directory itself or the first one above.  *)
Root(d) ==
    LET above == Lineage[d]
        nearest == {i \in DOMAIN above :
                       above[i] \in indexed /\ \A j \in 1 .. i - 1 : above[j] \notin indexed}
    IN  IF nearest = {} THEN None ELSE above[CHOOSE i \in nearest : TRUE]

(* The event loop has nothing left to run.  CodeGraph.open waits for the   *)
(* grammars; once these are loaded it does not really wait.                *)
Quiet ==
    /\ ~engine.closed
    /\ engine.opening # None => ~engine.grammars
    /\ \A m \in Messages : pc[m] \notin Running

RootOf(i) == inst[i].root

IsDefault(root) == default # None /\ RootOf(default) = root

(* MCPEngine.ensureInitialized: nothing to do with a project, or with one  *)
(* being opened; else doInitialize up to its await.                        *)
Ensure(d) ==
    IF engine.closed \/ default # None \/ engine.opening # None THEN engine
    ELSE [engine EXCEPT !.path = IF Root(d) = None THEN d ELSE Root(d),
                        !.opening = Root(d)]

(* What a session keeps of the promise: is there anything to wait for?     *)
Awaiting(e) == IF e.opening # None THEN "init" ELSE "none"

\* Mutation: the sync of a new instance is not pushed into the handler.
AdoptUngated(r, e) ==
    /\ inst' = Append(inst, [root |-> r, open |-> TRUE, catchUp |-> "running",
                             watched |-> ~e.watcherStarted])
    /\ engine' = [e EXCEPT !.cg = Len(inst) + 1, !.watcherStarted = TRUE]
    /\ default' = Len(inst) + 1
    /\ UNCHANGED <<gate, failures>>

(* An instance was opened: setDefaultCodeGraph, startWatching (once per    *)
(* engine) and catchUpSync are synchronous.                                *)
Adopt(r, e) ==
    /\ inst' = Append(inst, [root |-> r, open |-> TRUE, catchUp |-> "running",
                             watched |-> ~e.watcherStarted])
    /\ engine' = [e EXCEPT !.cg = Len(inst) + 1, !.watcherStarted = TRUE]
    /\ default' = Len(inst) + 1
    /\ gate' = Len(inst) + 1
    /\ UNCHANGED failures

(* CodeGraph.open throws and the engine swallows it.                       *)
OpenFails(e) ==
    /\ failures < MaxFailures
    /\ failures' = failures + 1
    /\ engine' = e
    /\ UNCHANGED <<inst, default, gate>>

(* The promise of the sessions in W is settled: the message that asked for *)
(* the roots falls through to its last resort, the others start over.      *)
Woken(W) ==
    [m \in Messages |->
        IF m.session \notin W THEN pc[m]
        ELSE CASE pc[m] = "resolving" -> "retry"
               [] pc[m] = "asked"     -> "fromCwd"
               [] OTHER               -> pc[m]]

SettleAll(W) ==
    /\ pc' = Woken(W)
    /\ session' = [s \in Sessions |->
                      IF s \in W THEN [session[s] EXCEPT !.resolve = "none"] ELSE session[s]]

Init ==
    /\ daemon \in BOOLEAN
    /\ indexed \in SUBSET Dirs
    /\ explicit \in IF daemon THEN indexed ELSE Dirs \cup {None}
    /\ failures = 0
    /\ inst = <<>>
    \* MCPServer.startDirect and Daemon.start begin with ensureInitialized.
    /\ LET e == [cg |-> None, path |-> explicit, opening |-> None,
                 grammars |-> FALSE, watcherStarted |-> FALSE, closed |-> FALSE]
           r == IF explicit = None THEN None ELSE Root(explicit)
       IN  engine = IF r = None THEN e ELSE [e EXCEPT !.path = r, !.opening = r]
    /\ default = None
    /\ gate = None
    /\ cache = [d \in Dirs |-> None]
    /\ session = [s \in Sessions |-> Fresh]
    /\ pc = [m \in Messages |-> "unsent"]
    /\ gatedOn = [m \in Messages |-> None]
    /\ answer = [m \in Messages |-> [from |-> None, notice |-> None]]
-----------------------------------------------------------------------------
(* `codegraph init` in some directory while the server runs.               *)
InitProject(d) ==
    /\ Quiet
    /\ d \notin indexed
    /\ indexed' = indexed \cup {d}
    /\ UNCHANGED <<daemon, explicit, failures, inst, engine, handler, session, pc, calls>>

(* A client connects and initializes: handleInitialize takes the root it   *)
(* names, else the one of --path.  A direct server has a single session.   *)
Initialize(s, rootUri, supportsRoots) ==
    /\ Quiet
    /\ session[s].state = "none"
    /\ ~daemon => \A other \in Sessions : session[other].state = "none"
    /\ LET path == IF rootUri # None THEN rootUri ELSE explicit
           e    == IF path = None THEN engine ELSE Ensure(path)
       IN  /\ engine' = e
           /\ session' = [session EXCEPT ![s] =
                 [@ EXCEPT !.state = "ready", !.supportsRoots = supportsRoots,
                           !.announced = IF rootUri = None THEN None ELSE Root(rootUri),
                           !.resolve = IF path = None THEN session[s].resolve ELSE Awaiting(e)]]
    /\ UNCHANGED <<project, failures, inst, handler, pc, calls>>

\* Mutation: nobody waits for a resolution that is under way.
ReceiveImpatient(m) ==
    /\ Quiet
    /\ pc[m] = "unsent"
    /\ session[m.session].state = "ready" \/ (~Disciplined /\ session[m.session].state = "none")
    /\ pc' = [pc EXCEPT ![m] = "retry"]
    /\ UNCHANGED <<project, failures, inst, engine, handler, session, calls>>

(* handleToolsList, handleToolsCall: both first wait for what resolves the *)
(* project already.                                                        *)
Receive(m) ==
    /\ Quiet
    /\ pc[m] = "unsent"
    /\ LET s == session[m.session]
       IN  /\ s.state = "ready" \/ (~Disciplined /\ s.state = "none")
           /\ pc' = [pc EXCEPT ![m] = IF s.resolve = "none" THEN "retry" ELSE "resolving"]
    /\ UNCHANGED <<project, failures, inst, engine, handler, session, calls>>

(* retryInitIfNeeded after its first wait: with a project, go on; without  *)
(* a hint, ask for the roots or try the working directory, once.           *)
Retry(m) ==
    /\ pc[m] = "retry"
    /\ LET s    == session[m.session]
           hint == IF explicit # None THEN explicit ELSE engine.path
       IN  \/ /\ default # None
              /\ pc' = [pc EXCEPT ![m] = "ready"]
              /\ UNCHANGED <<engine, session>>
           \/ /\ default = None
              /\ hint # None \/ s.attempted
              /\ pc' = [pc EXCEPT ![m] = "lastResort"]
              /\ UNCHANGED <<engine, session>>
           \/ /\ default = None /\ hint = None /\ ~s.attempted
              /\ \/ /\ s.supportsRoots
                    /\ pc' = [pc EXCEPT ![m] = "asked"]
                    /\ session' = [session EXCEPT ![m.session] =
                          [@ EXCEPT !.attempted = TRUE, !.resolve = "roots", !.request = "pending"]]
                    /\ UNCHANGED engine
                 \/ /\ ~s.supportsRoots
                    /\ engine' = Ensure(Cwd)
                    /\ session' = [session EXCEPT ![m.session] =
                          [@ EXCEPT !.attempted = TRUE, !.resolve = Awaiting(Ensure(Cwd))]]
                    /\ pc' = [pc EXCEPT ![m] =
                          IF Ensure(Cwd).opening # None THEN "asked" ELSE "fromCwd"]
    /\ UNCHANGED <<project, failures, inst, handler, calls>>

(* retryInitializeSync: the project may have appeared in the meantime.     *)
LastResort(m) ==
    /\ pc[m] \in {"lastResort", "fromCwd"}
    /\ pc' = [pc EXCEPT ![m] = "ready"]
    /\ LET hint == IF explicit # None THEN explicit ELSE engine.path
           dir  == IF pc[m] = "fromCwd" \/ hint = None THEN Cwd ELSE hint
           r    == Root(dir)
       IN  \/ /\ default # None \/ r = None
              /\ UNCHANGED <<failures, inst, engine, default, gate>>
           \/ /\ default = None /\ r # None
              /\ Adopt(r, [engine EXCEPT !.path = r]) \/ OpenFails(engine)
    /\ UNCHANGED <<project, cache, session, calls>>

(* The promise of initFromRoots goes on with ensureInitialized(target).    *)
FromRoots(s, target, changed) ==
    LET e == Ensure(target)
    IN  /\ engine' = e
        /\ session' = [session EXCEPT ![s] = [changed EXCEPT !.resolve = Awaiting(e)]]
        /\ pc' = IF e.opening # None THEN pc ELSE Woken({s})
        /\ UNCHANGED <<project, failures, inst, handler, calls>>

(* handleResponse: the client names its first root.  Nobody waits for an   *)
(* answer that comes after the timeout.                                    *)
RootsAnswer(s, d) ==
    /\ Quiet
    /\ \/ /\ session[s].request = "pending"
          /\ FromRoots(s, d, [session[s] EXCEPT !.request = "settled", !.announced = Root(d)])
       \/ /\ session[s].request = "expired"
          /\ session' = [session EXCEPT ![s].request = "settled"]
          /\ UNCHANGED <<project, failures, inst, engine, handler, pc, calls>>

\* Mutation: the timer takes the request from the table and rejects nothing.
RootsMissingSilently(s, request) ==
    /\ Quiet
    /\ session[s].request = "pending"
    /\ session' = [session EXCEPT ![s].request = request]
    /\ UNCHANGED <<project, failures, inst, engine, handler, pc, calls>>

(* No usable root, an error, or the timeout: the working directory.        *)
RootsMissing(s, request) ==
    /\ Quiet
    /\ session[s].request = "pending"
    /\ FromRoots(s, Cwd, [session[s] EXCEPT !.request = request])

(* A client of a daemon goes; its calls go on, their answers go nowhere.   *)
(* Such a session knows its project and never has a request pending.       *)
Disconnect(s) ==
    /\ Quiet
    /\ daemon
    /\ session[s].state = "ready"
    /\ session' = [session EXCEPT ![s].state = "gone"]
    /\ UNCHANGED <<project, failures, inst, engine, handler, pc, calls>>

(* CodeGraph.open returns or throws; initPromise is settled.               *)
OpenEnds ==
    /\ Quiet \/ engine.grammars
    /\ engine.opening # None
    /\ LET e == [engine EXCEPT !.opening = None, !.grammars = TRUE]
       IN  Adopt(engine.opening, e) \/ OpenFails(e)
    /\ SettleAll({s \in Sessions : session[s].resolve = "init"})
    /\ UNCHANGED <<project, cache, calls>>

(* The catch-up sync of an instance ends; a failure is logged, no more.    *)
CatchUpEnds(i) ==
    /\ Quiet
    /\ inst[i].catchUp = "running"
    /\ inst' = [inst EXCEPT ![i].catchUp = "done"]
    /\ pc' = [m \in Messages |-> IF pc[m] = "gated" /\ gatedOn[m] = i THEN "serve" ELSE pc[m]]
    /\ UNCHANGED <<project, failures, engine, handler, session, calls>>

(* A message without a path may as well be tools/list: getTools answers it.*)
List(m) ==
    /\ pc[m] = "ready"
    /\ m.path = None
    /\ pc' = [pc EXCEPT ![m] = "answered"]
    /\ UNCHANGED <<project, failures, inst, engine, handler, session, calls>>

(* execute, for tools/call: the first call takes the gate with it and      *)
(* waits, those that come after find none.                                 *)
PassGate(m) ==
    /\ pc[m] = "ready"
    /\ gate # None
    /\ pc' = [pc EXCEPT ![m] = IF inst[gate].catchUp = "running" THEN "gated" ELSE "serve"]
    /\ gatedOn' = [gatedOn EXCEPT ![m] = gate]
    /\ gate' = None
    /\ UNCHANGED <<project, failures, inst, engine, default, cache, session, answer>>

\* Mutation: the pending files of the instance that answered.
NoticeFromAnswer(i) == i

(* withStalenessNotice: an instance from the cache is not watched; if it   *)
(* is the default project, the default instance knows what is pending.     *)
NoticeFrom(i) ==
    IF IsDefault(RootOf(i)) THEN default ELSE i

Answered(m, i) ==
    /\ pc' = [pc EXCEPT ![m] = "answered"]
    /\ answer' = [answer EXCEPT ![m] = [from |-> i, notice |-> NoticeFrom(i)]]

(* getCodeGraph: the default project; or by path: the cache under that     *)
(* path, the default if it is the same project, the cache under the root,  *)
(* and only then another instance, which is cached under both.             *)
Serve(m) ==
    /\ pc[m] = "serve" \/ (pc[m] = "ready" /\ gate = None)
    /\ LET d == m.path
           r == IF d = None THEN None ELSE Root(d)
       IN  \/ /\ d = None /\ default # None
              /\ Answered(m, default)
              /\ UNCHANGED <<inst, cache, failures>>
           \/ /\ IF d = None THEN default = None ELSE cache[d] = None /\ r = None
              /\ pc' = [pc EXCEPT ![m] = "failed"]
              /\ UNCHANGED <<inst, cache, failures, answer>>
           \/ /\ d # None /\ cache[d] # None
              /\ Answered(m, cache[d])
              /\ UNCHANGED <<inst, cache, failures>>
           \/ /\ d # None /\ cache[d] = None /\ r # None
              /\ IsDefault(r)
              /\ Answered(m, default)
              /\ UNCHANGED <<inst, cache, failures>>
           \/ /\ d # None /\ cache[d] = None /\ r # None
              /\ ~IsDefault(r)
              /\ \/ /\ cache[r] # None
                    /\ cache' = [cache EXCEPT ![d] = cache[r]]
                    /\ Answered(m, cache[r])
                    /\ UNCHANGED <<inst, failures>>
                 \/ /\ cache[r] = None
                    /\ inst' = Append(inst, [root |-> r, open |-> TRUE, watched |-> FALSE,
                                             catchUp |-> "never"])
                    /\ cache' = [cache EXCEPT ![d] = Len(inst) + 1, ![r] = Len(inst) + 1]
                    /\ pc' = [pc EXCEPT ![m] = "answered"]
                    /\ answer' = [answer EXCEPT ![m] =
                          [from |-> Len(inst) + 1, notice |-> Len(inst) + 1]]
                    /\ UNCHANGED failures
                 \/ /\ cache[r] = None
                    /\ failures < MaxFailures
                    /\ failures' = failures + 1
                    /\ pc' = [pc EXCEPT ![m] = "failed"]
                    /\ UNCHANGED <<inst, cache, answer>>
    /\ UNCHANGED <<project, engine, default, gate, session, gatedOn>>

\* Mutation: only the default project is closed.
StopDefault ==
    /\ Quiet
    /\ engine' = [engine EXCEPT !.closed = TRUE, !.cg = None, !.opening = None]
    /\ inst' = [i \in DOMAIN inst |->
                   IF i = engine.cg THEN [inst[i] EXCEPT !.open = FALSE] ELSE inst[i]]
    /\ cache' = [d \in Dirs |-> None]
    /\ UNCHANGED <<project, failures, default, gate, session, pc, calls>>

(* MCPEngine.stop closes what the cache and the engine hold; the process   *)
(* exits, so what is still being opened never is.                          *)
Stop ==
    /\ Quiet
    /\ engine' = [engine EXCEPT !.closed = TRUE, !.cg = None, !.opening = None]
    /\ inst' = [i \in DOMAIN inst |->
                   IF i = engine.cg \/ \E d \in Dirs : cache[d] = i
                   THEN [inst[i] EXCEPT !.open = FALSE] ELSE inst[i]]
    /\ cache' = [d \in Dirs |-> None]
    /\ UNCHANGED <<project, failures, default, gate, session, pc, calls>>

Handle(m) == Retry(m) \/ LastResort(m) \/ List(m) \/ PassGate(m) \/ Serve(m)

RootsSettle(s) == RootsMissing(s, "expired")

Next ==
    \/ \E d \in Dirs : InitProject(d)
    \/ \E s \in Sessions :
          \/ \E d \in Dirs \cup {None}, b \in BOOLEAN : Initialize(s, d, b)
          \/ \E d \in Dirs : RootsAnswer(s, d)
          \/ RootsMissing(s, "settled")
          \/ RootsSettle(s)
          \/ Disconnect(s)
    \/ \E m \in Messages : Receive(m) \/ Handle(m)
    \/ OpenEnds
    \/ \E i \in DOMAIN inst : CatchUpEnds(i)
    \/ Stop

(* The loop runs what is runnable; timers fire; opens and syncs end.       *)
Fairness ==
    /\ \A m \in Messages : WF_vars(Handle(m))
    /\ \A s \in Sessions : WF_vars(RootsSettle(s))
    /\ WF_vars(OpenEnds)
    /\ WF_vars(\E i \in DOMAIN inst : CatchUpEnds(i))

Spec == Init /\ [][Next]_vars /\ Fairness
-----------------------------------------------------------------------------
(* Whoever answers a question about a project that is being watched, the   *)
(* pending files named in the answer are those the watcher has seen: the   *)
(* watcher is started once, on one instance, and answers may come from a   *)
(* second instance of the same project (tools.ts, withStalenessNotice).    *)
NoticeKnowsTheWatcher ==
    [][\A m \in Messages :
          LET a == answer'[m]
          IN  a # answer[m] =>
                \A i \in DOMAIN inst : inst[i].watched /\ RootOf(i) = inst'[a.from].root
                                          => a.notice = i]_vars

(* Every instance that is open can be closed: the engine or the cache      *)
(* still has it, and when the engine has stopped none is left open with    *)
(* its database and its watcher (engine.ts, retryInitializeSync and stop). *)
NothingLeaks ==
    /\ TypeOK
    /\ \A i \in DOMAIN inst :
          inst[i].open => i = engine.cg \/ \E d \in Dirs : cache[d] = i

(* Unless an attempt to open it failed, the project a client has announced *)
(* in time is the one its calls without a path are answered from, however  *)
(* many of them arrive while the server still asks (session.ts,            *)
(* retryInitIfNeeded; answers that come after the timeout do not count).   *)
AnnouncedRootWins ==
    \A s \in Sessions :
       explicit = None /\ failures = 0 /\ session[s].announced # None /\ default # None
          => RootOf(default) = session[s].announced

(* What the default instance answers before its catch-up sync has ended,   *)
(* it answers to a call that came behind the one that holds the gate.      *)
OnlyFollowersSkipTheGate ==
    [][\A m \in Messages :
          LET i == answer'[m].from
          IN  answer'[m] # answer[m] /\ i = default /\ inst[i].catchUp = "running"
                => \E first \in Messages \ {m} : gatedOn[first] = i]_vars

(* What an answer says of its freshness is true: it names the edits the    *)
(* watcher has seen, and came before the catch-up only behind another call.*)
AnswersKnowTheirAge == NoticeKnowsTheWatcher /\ OnlyFollowersSkipTheGate

(* No call waits for ever, whatever a client does not answer and whether   *)
(* the project can be opened or not.                                       *)
EveryCallIsAnswered ==
    \A m \in Messages :
       pc[m] # "unsent" ~> pc[m] \in {"answered", "failed"} \/ engine.closed

(* What the comment in ToolHandler.execute says: rows are never served     *)
(* before the first catch-up sync of the instance they come from.          *)
NoAnswerBeforeCatchUp ==
    [][\A m \in Messages :
          LET i == answer'[m].from
          IN  answer'[m] # answer[m] /\ i \in DOMAIN inst => inst[i].catchUp # "running"]_vars
=============================================================================
