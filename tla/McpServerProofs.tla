--------------------------- MODULE McpServerProofs ---------------------------
(***************************************************************************)
(* Proofs about McpServer, for any tree of directories, any number of      *)
(* sessions and messages, and any number of attempts to open that fail,    *)
(* as long as clients initialize before anything else, which the protocol  *)
(* asks of them.                                                           *)
(***************************************************************************)
EXTENDS McpServer, SequenceTheorems, TLAPS

USE McpServerAssumption DEF McpServerAssumption

Ids == DOMAIN inst \cup {None}

States == Running \cup {"unsent", "resolving", "asked", "gated", "answered", "failed"}

EngineState == [cg : Ids, path : Dirs \cup {None}, opening : Dirs \cup {None},
                grammars : BOOLEAN, watcherStarted : BOOLEAN, closed : BOOLEAN]

(* The nearest project of a directory is a directory, if there is one, and *)
(* a directory with an index has one.                                      *)
LEMMA RootType ==
    ASSUME NEW d \in Dirs
    PROVE  /\ Root(d) \in Dirs \cup {None}
           /\ d \in indexed => Root(d) # None
<1> DEFINE above == Lineage[d]
           nearest == {i \in DOMAIN above :
                          above[i] \in indexed /\ \A j \in 1 .. i - 1 : above[j] \notin indexed}
<1>1. above \in Seq(Dirs) /\ above # <<>> /\ above[1] = d
    OBVIOUS
<1>2. Len(above) \in Nat \ {0} /\ DOMAIN above = 1 .. Len(above)
    BY <1>1, EmptySeq, LenProperties
<1>3. \A i \in nearest : above[i] \in Dirs
    BY <1>1, <1>2, ElementOfSeq
<1>4. d \in indexed => 1 \in nearest
    BY <1>1, <1>2
<1>5. Root(d) = IF nearest = {} THEN None ELSE above[CHOOSE i \in nearest : TRUE]
    BY DEF Root
<1> HIDE DEF above, nearest
<1> QED
    BY <1>3, <1>4, <1>5

(* The instances are numbered in the order they were opened. *)
LEMMA InstanceNumbers ==
    ASSUME TypeOK
    PROVE  /\ Len(inst) \in Nat /\ DOMAIN inst = 1 .. Len(inst)
           /\ None \notin DOMAIN inst /\ Len(inst) + 1 # None
           /\ \A i \in DOMAIN inst : inst[i] \in Instance
<1>1. inst \in Seq(Instance)
    BY DEF TypeOK
<1> QED
    BY <1>1, LenProperties, ElementOfSeq

LEMMA InstanceIsAdded ==
    ASSUME TypeOK, NEW new \in Instance, inst' = Append(inst, new)
    PROVE  /\ inst' \in Seq(Instance)
           /\ DOMAIN inst' = DOMAIN inst \cup {Len(inst) + 1}
           /\ Len(inst) + 1 \notin DOMAIN inst
           /\ \A i \in DOMAIN inst : inst'[i] = inst[i]
           /\ inst'[Len(inst) + 1] = new
<1>1. inst \in Seq(Instance)
    BY DEF TypeOK
<1>2. /\ inst' \in Seq(Instance) /\ Len(inst') = Len(inst) + 1
      /\ \A i \in 1 .. Len(inst) : inst'[i] = inst[i]
      /\ inst'[Len(inst) + 1] = new
    BY <1>1, AppendProperties
<1>3. DOMAIN inst = 1 .. Len(inst) /\ Len(inst) \in Nat /\ DOMAIN inst' = 1 .. Len(inst')
    BY <1>1, <1>2, LenProperties
<1> QED
    BY <1>2, <1>3

LEMMA InstancesStay ==
    ASSUME TypeOK, \A i \in DOMAIN inst : inst'[i] \in Instance,
           inst' = [i \in DOMAIN inst |-> inst'[i]]
    PROVE  inst' \in Seq(Instance) /\ DOMAIN inst' = DOMAIN inst
<1>1. DOMAIN inst' = 1 .. Len(inst) /\ Len(inst) \in Nat
    BY InstanceNumbers
<1>2. inst' \in [1 .. Len(inst) -> Instance]
    BY <1>1
<1>3. Seq(Instance) = UNION {[1 .. n -> Instance] : n \in Nat}
    BY SeqDef, Zenon
<1>4. inst' \in Seq(Instance)
    BY <1>1, <1>2, <1>3
<1> QED
    BY <1>1, <1>4

(* ensureInitialized leaves a project alone, or starts to open one. *)
LEMMA EnsureFacts ==
    ASSUME TypeOK, NEW d \in Dirs
    PROVE  /\ Ensure(d) \in EngineState
           /\ Ensure(d).cg = engine.cg /\ Ensure(d).grammars = engine.grammars
           /\ Ensure(d).closed = engine.closed
           /\ engine.closed \/ default # None \/ engine.opening # None => Ensure(d) = engine
           /\ ~engine.closed /\ default = None /\ engine.opening = None =>
                 Ensure(d).opening = Root(d) /\ Ensure(d).path # None
<1>1. engine \in EngineState
    BY DEF TypeOK, EngineState, Ids
<1> QED
    BY <1>1, RootType DEF Ensure, EngineState

(* Who is woken was waiting, and runs. *)
LEMMA WokenFacts ==
    ASSUME TypeOK, NEW W
    PROVE  /\ Woken(W) \in [Messages -> States]
           /\ \A m \in Messages :
                 \/ Woken(W)[m] = pc[m]
                 \/ /\ m.session \in W /\ pc[m] \in {"resolving", "asked"}
                    /\ Woken(W)[m] \in {"retry", "fromCwd"}
    BY DEF TypeOK, Woken, States, Running
-----------------------------------------------------------------------------
EngineType  == engine \in EngineState /\ default \in Ids /\ gate \in Ids
ProjectType == /\ daemon \in BOOLEAN /\ explicit \in Dirs \cup {None}
               /\ indexed \in SUBSET Dirs /\ failures \in 0 .. MaxFailures
CallType    == /\ gatedOn \in [Messages -> Ids]
               /\ answer \in [Messages -> [from : Ids, notice : Ids]]

LEMMA TypeParts ==
    TypeOK <=> /\ ProjectType /\ EngineType /\ CallType
               /\ inst \in Seq(Instance)
               /\ cache \in [Dirs -> Ids]
               /\ session \in [Sessions -> Session]
               /\ pc \in [Messages -> States]
    BY DEF TypeOK, ProjectType, EngineType, CallType, EngineState, Ids, States

(* With more instances, what is kept of the former ones keeps its type. *)
LEMMA IdsGrow ==
    ASSUME TypeOK, inst' \in Seq(Instance), DOMAIN inst \subseteq DOMAIN inst'
    PROVE  /\ Ids \subseteq Ids' /\ EngineState \subseteq EngineState'
           /\ engine' = engine => engine' \in EngineState'
           /\ UNCHANGED calls => CallType'
           /\ cache' = cache => cache' \in [Dirs -> Ids']
<1>1. Ids \subseteq Ids'
    BY DEF Ids
<1>2. EngineType /\ CallType /\ cache \in [Dirs -> Ids]
    BY TypeParts
<1>3. EngineState \subseteq EngineState'
    BY <1>1 DEF EngineState
<1>4. ASSUME UNCHANGED calls PROVE CallType'
    <2>1. gatedOn' \in [Messages -> Ids']
        BY <1>1, <1>2, <1>4 DEF calls, CallType
    <2>2. [from : Ids, notice : Ids] \subseteq [from : Ids', notice : Ids']
        BY <1>1
    <2>3. answer' \in [Messages -> [from : Ids', notice : Ids']]
        BY <1>2, <1>4, <2>2 DEF calls, CallType
    <2> QED
        BY <2>1, <2>3 DEF CallType
<1> QED
    BY <1>1, <1>2, <1>3, <1>4 DEF EngineType

(* Adopting an instance makes it the default and gates it. *)
LEMMA AdoptFacts ==
    ASSUME TypeOK, NEW r \in Dirs, NEW e \in EngineState, Adopt(r, e)
    PROVE  LET new == Len(inst) + 1
           IN  /\ inst' \in Seq(Instance) /\ DOMAIN inst' = DOMAIN inst \cup {new}
               /\ new \notin DOMAIN inst /\ new # None
               /\ \A i \in DOMAIN inst : inst'[i] = inst[i]
               /\ inst'[new].root = r
               /\ default' = new /\ gate' = new /\ engine'.cg = new
               /\ engine'.path = e.path /\ engine'.opening = e.opening
               /\ engine'.grammars = e.grammars /\ engine'.closed = e.closed
               /\ failures' = failures
               /\ EngineType'
<1> DEFINE x == [root |-> r, open |-> TRUE, catchUp |-> "running",
                 watched |-> ~e.watcherStarted]
<1>1. x \in Instance
    BY DEF Instance, EngineState
<1>2. inst' = Append(inst, x)
    BY DEF Adopt
<1> HIDE DEF x
<1>3. /\ inst' \in Seq(Instance) /\ DOMAIN inst' = DOMAIN inst \cup {Len(inst) + 1}
      /\ Len(inst) + 1 \notin DOMAIN inst /\ Len(inst) + 1 # None
      /\ \A i \in DOMAIN inst : inst'[i] = inst[i]
      /\ inst'[Len(inst) + 1] = x
    BY <1>1, <1>2, InstanceIsAdded, InstanceNumbers
<1>4. /\ engine' = [e EXCEPT !.cg = Len(inst) + 1, !.watcherStarted = TRUE]
      /\ default' = Len(inst) + 1 /\ gate' = Len(inst) + 1 /\ failures' = failures
    BY DEF Adopt
<1>5. EngineType'
    BY <1>3, <1>4 DEF EngineType, EngineState, Ids
<1>6. x.root = r
    BY DEF x
<1> QED
    BY <1>3, <1>4, <1>5, <1>6 DEF EngineState

(* What an attempt to open a project leaves: an instance, or none. *)
LEMMA OpenFailsFacts ==
    ASSUME TypeOK, NEW e \in EngineState, OpenFails(e)
    PROVE  /\ inst' = inst /\ default' = default /\ gate' = gate /\ engine' = e
           /\ failures' = failures + 1 /\ failures' \in 0 .. MaxFailures /\ EngineType'
<1>1. /\ inst' = inst /\ default' = default /\ gate' = gate /\ engine' = e
      /\ failures' = failures + 1 /\ failures < MaxFailures
    BY DEF OpenFails
<1>2. Ids' = Ids
    BY <1>1 DEF Ids
<1>3. EngineType /\ failures \in 0 .. MaxFailures
    BY TypeParts DEF ProjectType
<1> QED
    BY <1>1, <1>2, <1>3 DEF EngineType, EngineState

(* What changes of a session leaves it a session. *)
LEMMA SessionChanges ==
    ASSUME NEW q \in Session,
           NEW r \in {"none", "init", "roots"}, NEW d \in Dirs \cup {None},
           NEW x \in {"none", "pending", "expired", "settled"}, NEW b \in BOOLEAN
    PROVE  /\ [q EXCEPT !.resolve = r] \in Session
           /\ [q EXCEPT !.request = x] \in Session
           /\ [q EXCEPT !.state = "gone"] \in Session
           /\ [q EXCEPT !.request = x, !.announced = d] \in Session
           /\ [q EXCEPT !.attempted = TRUE, !.resolve = r] \in Session
           /\ [q EXCEPT !.attempted = TRUE, !.resolve = r, !.request = x] \in Session
           /\ [q EXCEPT !.state = "ready", !.supportsRoots = b, !.announced = d,
                        !.resolve = r] \in Session
<1>1. [q EXCEPT !.resolve = r] \in Session
    BY DEF Session
<1>2. [q EXCEPT !.request = x] \in Session
    BY DEF Session
<1>3. [q EXCEPT !.state = "gone"] \in Session
    BY DEF Session
<1>4. [q EXCEPT !.request = x, !.announced = d] \in Session
    BY DEF Session
<1>5. [q EXCEPT !.attempted = TRUE, !.resolve = r] \in Session
    BY DEF Session
<1>6. [q EXCEPT !.attempted = TRUE, !.resolve = r, !.request = x] \in Session
    BY DEF Session
<1>7. [q EXCEPT !.state = "ready", !.supportsRoots = b, !.announced = d, !.resolve = r] \in Session
    BY DEF Session
<1> QED
    BY <1>1, <1>2, <1>3, <1>4, <1>5, <1>6, <1>7

LEMMA SettleAllFacts ==
    ASSUME TypeOK, NEW W, SettleAll(W)
    PROVE  /\ pc' \in [Messages -> States] /\ session' \in [Sessions -> Session]
           /\ pc' = Woken(W)
           /\ \A s \in Sessions :
                 session'[s] = IF s \in W THEN [session[s] EXCEPT !.resolve = "none"] ELSE session[s]
<1>1. session \in [Sessions -> Session]
    BY TypeParts
<1>2. pc' = Woken(W) /\ pc' \in [Messages -> States]
    BY WokenFacts DEF SettleAll
<1>3. session' = [s \in Sessions |->
                     IF s \in W THEN [session[s] EXCEPT !.resolve = "none"] ELSE session[s]]
    BY DEF SettleAll
<1>4. \A s \in Sessions : [session[s] EXCEPT !.resolve = "none"] \in Session
    BY <1>1, SessionChanges
<1>5. session' \in [Sessions -> Session]
    BY <1>1, <1>3, <1>4
<1> QED
    BY <1>2, <1>3, <1>5

LEMMA FromRootsFacts ==
    ASSUME TypeOK, NEW s \in Sessions, NEW d \in Dirs, NEW changed \in Session,
           FromRoots(s, d, changed)
    PROVE  /\ engine' = Ensure(d)
           /\ session' \in [Sessions -> Session]
           /\ \A t \in Sessions : t # s => session'[t] = session[t]
           /\ session'[s].state = changed.state /\ session'[s].attempted = changed.attempted
           /\ session'[s].request = changed.request
           /\ session'[s].announced = changed.announced
           /\ session'[s].resolve = Awaiting(Ensure(d))
           /\ pc' \in [Messages -> States]
           /\ pc' = IF Ensure(d).opening # None THEN pc ELSE Woken({s})
           /\ UNCHANGED <<project, failures, inst, handler, calls>>
<1>1. session \in [Sessions -> Session] /\ pc \in [Messages -> States]
    BY TypeParts
<1>2. /\ session' = [session EXCEPT ![s] = [changed EXCEPT !.resolve = Awaiting(Ensure(d))]]
      /\ pc' = (IF Ensure(d).opening # None THEN pc ELSE Woken({s}))
      /\ engine' = Ensure(d)
      /\ UNCHANGED <<project, failures, inst, handler, calls>>
    BY DEF FromRoots
<1>3. [changed EXCEPT !.resolve = Awaiting(Ensure(d))] \in Session
    BY SessionChanges DEF Awaiting
<1>4. pc' \in [Messages -> States]
    BY <1>1, <1>2, WokenFacts
<1>5. session' \in [Sessions -> Session]
    BY <1>1, <1>2, <1>3
<1>6. session'[s] = [changed EXCEPT !.resolve = Awaiting(Ensure(d))]
    BY <1>1, <1>2
<1>7. \A t \in Sessions : t # s => session'[t] = session[t]
    BY <1>1, <1>2
<1>8. /\ session'[s].state = changed.state /\ session'[s].attempted = changed.attempted
      /\ session'[s].request = changed.request /\ session'[s].announced = changed.announced
      /\ session'[s].resolve = Awaiting(Ensure(d))
    BY <1>6 DEF Session
<1> QED
    BY <1>2, <1>4, <1>5, <1>7, <1>8

(* A step that opens nothing keeps what is known of the instances. *)
LEMMA NothingOpened ==
    ASSUME TypeOK, UNCHANGED <<daemon, explicit, failures, inst, cache>>,
           indexed' \in SUBSET Dirs,
           engine' \in EngineState, default' = default, gate' \in Ids,
           session' \in [Sessions -> Session], pc' \in [Messages -> States],
           gatedOn' \in [Messages -> Ids], answer' = answer
    PROVE  TypeOK'
<1>1. Ids' = Ids
    BY DEF Ids
<1>2. /\ ProjectType /\ EngineType /\ CallType /\ inst \in Seq(Instance)
      /\ cache \in [Dirs -> Ids]
    BY TypeParts
<1>3. ProjectType'
    BY <1>2 DEF ProjectType
<1>4. EngineType'
    BY <1>1, <1>2 DEF EngineType, EngineState
<1>5. CallType'
    BY <1>1, <1>2 DEF CallType
<1>6. inst' \in Seq(Instance) /\ cache' \in [Dirs -> Ids']
    BY <1>1, <1>2
<1> QED
    BY <1>3, <1>4, <1>5, <1>6 DEF TypeOK, ProjectType, EngineType, CallType, EngineState, Ids, States

(* A call is served by an instance that is known, or by another one that   *)
(* is opened for it and cached.                                            *)
ServesKnown(m) ==
    /\ inst' = inst
    /\ \/ cache' = cache
       \/ \E d, r \in Dirs : cache[d] = None /\ cache' = [cache EXCEPT ![d] = cache[r]]
    /\ \/ answer' = answer
       \/ \E i \in DOMAIN inst :
             answer' = [answer EXCEPT ![m] = [from |-> i, notice |-> NoticeFrom(i)]]

ServesOther(m) ==
    \E d, r \in Dirs :
       /\ cache[d] = None /\ cache[r] = None /\ ~IsDefault(r)
       /\ inst' = Append(inst, [root |-> r, open |-> TRUE, watched |-> FALSE, catchUp |-> "never"])
       /\ cache' = [cache EXCEPT ![d] = Len(inst) + 1, ![r] = Len(inst) + 1]
       /\ answer' = [answer EXCEPT ![m] = [from |-> Len(inst) + 1, notice |-> Len(inst) + 1]]

LEMMA ServesOneOrTheOther ==
    ASSUME TypeOK, NEW m \in Messages, Serve(m)
    PROVE  ServesKnown(m) \/ ServesOther(m)
<1> DEFINE d == m.path
           r == IF d = None THEN None ELSE Root(d)
<1>1. /\ cache \in [Dirs -> DOMAIN inst \cup {None}]
      /\ default \in DOMAIN inst \cup {None}
    BY DEF TypeOK
<1>2. d \in Dirs \cup {None} /\ r \in Dirs \cup {None}
    BY RootType
<1>3. CASE UNCHANGED <<inst, cache, answer>>
    BY <1>3 DEF ServesKnown
<1>4. CASE \E i \in DOMAIN inst : Answered(m, i) /\ UNCHANGED <<inst, cache>>
    BY <1>4 DEF ServesKnown, Answered
<1>5. CASE d = None \/ cache[d] # None \/ r = None \/ IsDefault(r)
    <2>1. \/ UNCHANGED <<inst, cache, answer>>
          \/ default # None /\ Answered(m, default) /\ UNCHANGED <<inst, cache>>
          \/ d # None /\ cache[d] # None /\ Answered(m, cache[d]) /\ UNCHANGED <<inst, cache>>
        BY <1>5 DEF Serve, IsDefault
    <2> HIDE DEF r
    <2> QED
        BY <1>1, <1>2, <1>3, <1>4, <2>1
<1>6. CASE d # None /\ cache[d] = None /\ r # None /\ ~IsDefault(r)
    <2>1. d \in Dirs /\ r \in Dirs
        BY <1>2, <1>6
    <2>2. \/ /\ cache[r] # None
             /\ cache' = [cache EXCEPT ![d] = cache[r]]
             /\ Answered(m, cache[r])
             /\ UNCHANGED <<inst, failures>>
          \/ /\ cache[r] = None
             /\ inst' = Append(inst, [root |-> r, open |-> TRUE, watched |-> FALSE,
                                      catchUp |-> "never"])
             /\ cache' = [cache EXCEPT ![d] = Len(inst) + 1, ![r] = Len(inst) + 1]
             /\ answer' = [answer EXCEPT ![m] =
                   [from |-> Len(inst) + 1, notice |-> Len(inst) + 1]]
          \/ UNCHANGED <<inst, cache, answer>>
        BY <1>6 DEF Serve
    <2> HIDE DEF d, r
    <2>3. CASE /\ cache[r] # None
               /\ cache' = [cache EXCEPT ![d] = cache[r]]
               /\ Answered(m, cache[r])
               /\ UNCHANGED <<inst, failures>>
        <3>1. cache[r] \in DOMAIN inst
            BY <1>1, <2>1, <2>3
        <3>2. answer' = [answer EXCEPT ![m] = [from |-> cache[r], notice |-> NoticeFrom(cache[r])]]
            BY <2>3 DEF Answered
        <3>3. ServesKnown(m)
            BY <1>6, <2>1, <2>3, <3>1, <3>2 DEF ServesKnown
        <3> QED
            BY <3>3
    <2>4. CASE /\ cache[r] = None
               /\ inst' = Append(inst, [root |-> r, open |-> TRUE, watched |-> FALSE,
                                        catchUp |-> "never"])
               /\ cache' = [cache EXCEPT ![d] = Len(inst) + 1, ![r] = Len(inst) + 1]
               /\ answer' = [answer EXCEPT ![m] =
                     [from |-> Len(inst) + 1, notice |-> Len(inst) + 1]]
        BY <1>6, <2>1, <2>4 DEF ServesOther
    <2> QED
        BY <1>3, <2>2, <2>3, <2>4
<1> QED
    BY <1>2, <1>5, <1>6

LEMMA ServeFacts ==
    ASSUME TypeOK, NEW m \in Messages, Serve(m)
    PROVE  /\ UNCHANGED <<daemon, explicit, indexed, engine, default, gate, session, gatedOn>>
           /\ pc[m] = "serve" \/ (pc[m] = "ready" /\ gate = None)
           /\ \E x \in {"answered", "failed"} : pc' = [pc EXCEPT ![m] = x]
           /\ failures' \in 0 .. MaxFailures /\ failures <= failures'
           /\ ServesKnown(m) \/ ServesOther(m)
<1>1. /\ UNCHANGED <<daemon, explicit, indexed, engine, default, gate, session, gatedOn>>
      /\ pc[m] = "serve" \/ (pc[m] = "ready" /\ gate = None)
    BY DEF Serve, project
<1>2. /\ \E x \in {"answered", "failed"} : pc' = [pc EXCEPT ![m] = x]
      /\ failures' = failures \/ (failures < MaxFailures /\ failures' = failures + 1)
    BY DEF Serve, Answered
<1>3. failures \in 0 .. MaxFailures
    BY TypeParts DEF ProjectType
<1>4. failures' \in 0 .. MaxFailures /\ failures <= failures'
    BY <1>2, <1>3
<1>5. ServesKnown(m) \/ ServesOther(m)
    BY ServesOneOrTheOther
<1> QED
    BY <1>1, <1>2, <1>4, <1>5

LEMMA TypeIsKept == TypeOK /\ [Next]_vars => TypeOK'
<1> SUFFICES ASSUME TypeOK, [Next]_vars PROVE TypeOK'
    OBVIOUS
<1>0. /\ ProjectType /\ EngineType /\ CallType
      /\ inst \in Seq(Instance) /\ cache \in [Dirs -> Ids]
      /\ session \in [Sessions -> Session] /\ pc \in [Messages -> States]
    BY TypeParts
<1>a. /\ indexed \in SUBSET Dirs /\ engine \in EngineState /\ default \in Ids /\ gate \in Ids
      /\ gatedOn \in [Messages -> Ids]
    BY <1>0 DEF ProjectType, EngineType, CallType
<1>1. ASSUME NEW d \in Dirs, InitProject(d) PROVE TypeOK'
    <2>1. /\ UNCHANGED <<daemon, explicit, failures, inst, engine, default, gate, cache,
                         session, pc, gatedOn, answer>>
          /\ indexed' = indexed \cup {d}
        BY <1>1 DEF InitProject, handler, calls
    <2> QED
        BY <1>0, <1>a, <2>1, NothingOpened
<1>2. ASSUME NEW s \in Sessions, NEW d \in Dirs \cup {None}, NEW b \in BOOLEAN,
             Initialize(s, d, b)
      PROVE  TypeOK'
    <2> DEFINE path == IF d # None THEN d ELSE explicit
               e    == IF path = None THEN engine ELSE Ensure(path)
               root == IF d = None THEN None ELSE Root(d)
               wait == IF path = None THEN session[s].resolve ELSE Awaiting(e)
               said == [session[s] EXCEPT !.state = "ready", !.supportsRoots = b,
                                          !.announced = root, !.resolve = wait]
    <2>0. s \in DOMAIN session
        BY <1>0
    <2>1. /\ UNCHANGED <<daemon, explicit, indexed, failures, inst, default, gate, cache,
                         pc, gatedOn, answer>>
          /\ engine' = e
        BY <1>2 DEF Initialize, project, handler, calls
    <2>b. session' = [session EXCEPT ![s] = said]
        BY <1>2, <2>0 DEF Initialize
    <2>2. path \in Dirs \cup {None}
        BY <1>0 DEF ProjectType
    <2>a. session[s] \in Session
        BY <1>0
    <2>3. e \in EngineState
        BY <1>a, <2>2, EnsureFacts
    <2>4. said \in Session
        <3>1. wait \in {"none", "init", "roots"} /\ root \in Dirs \cup {None}
            BY <2>a, RootType DEF Awaiting, Session
        <3> HIDE DEF wait, root
        <3> QED
            BY <2>a, <3>1, SessionChanges
    <2> HIDE DEF e, said
    <2>5. session' \in [Sessions -> Session]
        BY <1>0, <2>b, <2>4
    <2> QED
        BY <1>0, <1>a, <2>1, <2>3, <2>5, NothingOpened
<1>3. ASSUME NEW m \in Messages, Receive(m) PROVE TypeOK'
    <2>1. /\ UNCHANGED <<daemon, explicit, indexed, failures, inst, engine, default, gate, cache,
                         session, gatedOn, answer>>
          /\ \E x \in {"retry", "resolving"} : pc' = [pc EXCEPT ![m] = x]
        BY <1>3 DEF Receive, project, handler, calls
    <2>2. pc' \in [Messages -> States]
        BY <1>0, <2>1 DEF States, Running
    <2> QED
        BY <1>0, <1>a, <2>1, <2>2, NothingOpened
<1>4. ASSUME NEW m \in Messages, Retry(m) PROVE TypeOK'
    <2>1. /\ UNCHANGED <<daemon, explicit, indexed, failures, inst, default, gate, cache,
                         gatedOn, answer>>
          /\ \E x \in {"ready", "lastResort", "asked", "fromCwd"} : pc' = [pc EXCEPT ![m] = x]
          /\ engine' \in {engine, Ensure(Cwd)}
        BY <1>4 DEF Retry, project, handler, calls
    <2>2. pc' \in [Messages -> States]
        BY <1>0, <2>1 DEF States, Running
    <2>3. engine' \in EngineState
        BY <1>a, <2>1, EnsureFacts
    <2>4. \/ session' = session
          \/ session' = [session EXCEPT ![m.session] =
                [@ EXCEPT !.attempted = TRUE, !.resolve = "roots", !.request = "pending"]]
          \/ session' = [session EXCEPT ![m.session] =
                [@ EXCEPT !.attempted = TRUE, !.resolve = Awaiting(Ensure(Cwd))]]
        BY <1>4 DEF Retry
    <2>5. m.session \in Sessions /\ session[m.session] \in Session
          /\ Awaiting(Ensure(Cwd)) \in {"none", "init"}
        BY <1>0 DEF Awaiting
    <2>6. /\ [session[m.session] EXCEPT !.attempted = TRUE, !.resolve = "roots",
                                        !.request = "pending"] \in Session
          /\ [session[m.session] EXCEPT !.attempted = TRUE,
                                        !.resolve = Awaiting(Ensure(Cwd))] \in Session
        BY <2>5, SessionChanges
    <2>7. session' \in [Sessions -> Session]
        BY <1>0, <2>4, <2>5, <2>6
    <2> QED
        BY <1>0, <1>a, <2>1, <2>2, <2>3, <2>7, NothingOpened
<1>5. ASSUME NEW m \in Messages, LastResort(m) PROVE TypeOK'
    <2> DEFINE hint == IF explicit # None THEN explicit ELSE engine.path
               dir  == IF pc[m] = "fromCwd" \/ hint = None THEN Cwd ELSE hint
               r    == Root(dir)
               e    == [engine EXCEPT !.path = r]
    <2>1. /\ UNCHANGED <<daemon, explicit, indexed, cache, session, gatedOn, answer>>
          /\ pc' = [pc EXCEPT ![m] = "ready"]
        BY <1>5 DEF LastResort, project, calls
    <2>2. \/ UNCHANGED <<failures, inst, engine, default, gate>>
          \/ r # None /\ Adopt(r, e)
          \/ OpenFails(engine)
        BY <1>5 DEF LastResort
    <2>3. pc' \in [Messages -> States]
        BY <1>0, <2>1 DEF States, Running
    <2>4. CASE UNCHANGED <<failures, inst, engine, default, gate>>
        BY <1>0, <1>a, <2>1, <2>3, <2>4, NothingOpened
    <2>5. CASE r # None /\ Adopt(r, e)
        <3>1. dir \in Dirs
            BY <1>0, <1>a DEF ProjectType, EngineState
        <3>2. r \in Dirs
            BY <2>5, <3>1, RootType
        <3>3. e \in EngineState
            BY <1>a, <3>2 DEF EngineState
        <3> HIDE DEF e, r
        <3>4. /\ inst' \in Seq(Instance) /\ DOMAIN inst \subseteq DOMAIN inst'
              /\ failures' = failures /\ EngineType'
            BY <2>5, <3>2, <3>3, AdoptFacts
        <3>5. CallType' /\ cache' \in [Dirs -> Ids']
            BY <2>1, <3>4, IdsGrow DEF calls
        <3> QED
            BY <1>0, <2>1, <2>3, <3>4, <3>5 DEF TypeOK, ProjectType, EngineType, CallType,
                                                EngineState, Ids, States
    <2>6. CASE OpenFails(engine)
        <3>1. /\ inst' = inst /\ failures' \in 0 .. MaxFailures /\ EngineType'
            BY <1>a, <2>6, OpenFailsFacts
        <3>2. CallType' /\ cache' \in [Dirs -> Ids']
            BY <1>0, <2>1, <3>1, IdsGrow DEF calls
        <3> QED
            BY <1>0, <2>1, <2>3, <3>1, <3>2 DEF TypeOK, ProjectType, EngineType, CallType,
                                                EngineState, Ids, States
    <2> QED
        BY <2>2, <2>4, <2>5, <2>6
<1>6. ASSUME NEW s \in Sessions, NEW d \in Dirs, NEW changed \in Session,
             FromRoots(s, d, changed)
      PROVE  TypeOK'
    <2>1. Ensure(d) \in EngineState
        BY EnsureFacts
    <2>2. /\ engine' = Ensure(d) /\ session' \in [Sessions -> Session]
          /\ pc' \in [Messages -> States]
          /\ UNCHANGED <<daemon, explicit, indexed, failures, inst, default, gate, cache,
                         gatedOn, answer>>
        BY <1>6, FromRootsFacts DEF project, handler, calls
    <2> QED
        BY <1>0, <1>a, <2>1, <2>2, NothingOpened
<1>7. ASSUME NEW s \in Sessions, NEW d \in Dirs, RootsAnswer(s, d) PROVE TypeOK'
    <2>1. CASE FromRoots(s, d, [session[s] EXCEPT !.request = "settled", !.announced = Root(d)])
        <3>1. [session[s] EXCEPT !.request = "settled", !.announced = Root(d)] \in Session
            BY <1>0, RootType, SessionChanges
        <3> QED
            BY <1>6, <2>1, <3>1
    <2>2. CASE session' = [session EXCEPT ![s].request = "settled"]
               /\ UNCHANGED <<project, failures, inst, engine, handler, pc, calls>>
        <3>1. session' \in [Sessions -> Session]
            BY <1>0, <2>2, SessionChanges
        <3>2. UNCHANGED <<daemon, explicit, indexed, failures, inst, engine, default, gate, cache,
                          pc, gatedOn, answer>>
            BY <2>2 DEF project, handler, calls
        <3> QED
            BY <1>0, <1>a, <3>1, <3>2, NothingOpened
    <2> QED
        BY <1>7, <2>1, <2>2 DEF RootsAnswer
<1>8. ASSUME NEW s \in Sessions, NEW x \in {"settled", "expired"}, RootsMissing(s, x)
      PROVE  TypeOK'
    <2>1. [session[s] EXCEPT !.request = x] \in Session
        BY <1>0, SessionChanges
    <2> QED
        BY <1>6, <1>8, <2>1 DEF RootsMissing
<1>9. ASSUME NEW s \in Sessions, Disconnect(s) PROVE TypeOK'
    <2>1. session' = [session EXCEPT ![s].state = "gone"]
          /\ UNCHANGED <<daemon, explicit, indexed, failures, inst, engine, default, gate, cache,
                         pc, gatedOn, answer>>
        BY <1>9 DEF Disconnect, project, handler, calls
    <2>2. session' \in [Sessions -> Session]
        BY <1>0, <2>1, SessionChanges
    <2> QED
        BY <1>0, <1>a, <2>1, <2>2, NothingOpened
<1>10. CASE OpenEnds
    <2> DEFINE e == [engine EXCEPT !.opening = None, !.grammars = TRUE]
               W == {s \in Sessions : session[s].resolve = "init"}
    <2>1. /\ Adopt(engine.opening, e) \/ OpenFails(e)
          /\ SettleAll(W) /\ engine.opening # None
          /\ UNCHANGED <<daemon, explicit, indexed, cache, gatedOn, answer>>
        BY <1>10 DEF OpenEnds, project, calls
    <2>2. e \in EngineState /\ engine.opening \in Dirs
        BY <1>a, <2>1 DEF EngineState
    <2> HIDE DEF e, W
    <2>3. pc' \in [Messages -> States] /\ session' \in [Sessions -> Session]
        BY <2>1, SettleAllFacts
    <2>4. CASE Adopt(engine.opening, e)
        <3>1. /\ inst' \in Seq(Instance) /\ DOMAIN inst \subseteq DOMAIN inst'
              /\ failures' = failures /\ EngineType'
            BY <2>2, <2>4, AdoptFacts
        <3>2. CallType' /\ cache' \in [Dirs -> Ids']
            BY <2>1, <3>1, IdsGrow DEF calls
        <3> QED
            BY <1>0, <2>1, <2>3, <3>1, <3>2 DEF TypeOK, ProjectType, EngineType, CallType,
                                                EngineState, Ids, States
    <2>5. CASE OpenFails(e)
        <3>1. /\ inst' = inst /\ failures' \in 0 .. MaxFailures /\ EngineType'
            BY <2>2, <2>5, OpenFailsFacts
        <3>2. CallType' /\ cache' \in [Dirs -> Ids']
            BY <1>0, <2>1, <3>1, IdsGrow DEF calls
        <3> QED
            BY <1>0, <2>1, <2>3, <3>1, <3>2 DEF TypeOK, ProjectType, EngineType, CallType,
                                                EngineState, Ids, States
    <2> QED
        BY <2>1, <2>4, <2>5
<1>11. ASSUME NEW i \in DOMAIN inst, CatchUpEnds(i) PROVE TypeOK'
    <2>1. /\ inst' = [inst EXCEPT ![i].catchUp = "done"]
          /\ pc' = [m \in Messages |-> IF pc[m] = "gated" /\ gatedOn[m] = i THEN "serve" ELSE pc[m]]
          /\ UNCHANGED <<daemon, explicit, indexed, failures, engine, default, gate, cache,
                         session, gatedOn, answer>>
        BY <1>11 DEF CatchUpEnds, project, handler, calls
    <2>2. pc' \in [Messages -> States]
        BY <1>0, <2>1 DEF States, Running
    <2>3. inst' = [j \in DOMAIN inst |-> inst'[j]] /\ \A j \in DOMAIN inst : inst'[j] \in Instance
        BY <2>1, InstanceNumbers, ZenonT(30) DEF Instance
    <2>4. inst' \in Seq(Instance) /\ DOMAIN inst' = DOMAIN inst
        BY <2>3, InstancesStay
    <2>5. CallType' /\ cache' \in [Dirs -> Ids'] /\ engine' \in EngineState'
        BY <2>1, <2>4, IdsGrow DEF calls
    <2>6. Ids' = Ids
        BY <2>4 DEF Ids
    <2> QED
        BY <1>0, <1>a, <2>1, <2>2, <2>4, <2>5, <2>6 DEF TypeOK, ProjectType, EngineType, CallType,
                                                       EngineState, Ids, States
<1>12. ASSUME NEW m \in Messages, List(m) PROVE TypeOK'
    <2>1. /\ UNCHANGED <<daemon, explicit, indexed, failures, inst, engine, default, gate, cache,
                         session, gatedOn, answer>>
          /\ pc' = [pc EXCEPT ![m] = "answered"]
        BY <1>12 DEF List, project, handler, calls
    <2>2. pc' \in [Messages -> States]
        BY <1>0, <2>1 DEF States, Running
    <2> QED
        BY <1>0, <1>a, <2>1, <2>2, NothingOpened
<1>13. ASSUME NEW m \in Messages, PassGate(m) PROVE TypeOK'
    <2>1. /\ UNCHANGED <<daemon, explicit, indexed, failures, inst, engine, default, cache,
                         session, answer>>
          /\ \E x \in {"gated", "serve"} : pc' = [pc EXCEPT ![m] = x]
          /\ gatedOn' = [gatedOn EXCEPT ![m] = gate] /\ gate' = None
        BY <1>13 DEF PassGate, project
    <2>2. pc' \in [Messages -> States] /\ gatedOn' \in [Messages -> Ids] /\ gate' \in Ids
        BY <1>0, <1>a, <2>1 DEF States, Running, Ids
    <2> QED
        BY <1>0, <1>a, <2>1, <2>2, NothingOpened
<1>14. ASSUME NEW m \in Messages, Serve(m) PROVE TypeOK'
    <2>1. /\ UNCHANGED <<daemon, explicit, indexed, engine, default, gate, session, gatedOn>>
          /\ \E x \in {"answered", "failed"} : pc' = [pc EXCEPT ![m] = x]
          /\ failures' \in 0 .. MaxFailures
        BY <1>14, ServeFacts
    <2>2. pc' \in [Messages -> States]
        BY <1>0, <2>1 DEF States, Running
    <2>3. CASE ServesKnown(m)
        <3>1. inst' = inst /\ Ids' = Ids
            BY <2>3 DEF ServesKnown, Ids
        <3>2. cache' \in [Dirs -> Ids]
            BY <1>0, <2>3 DEF ServesKnown
        <3>3. \A i \in DOMAIN inst : NoticeFrom(i) \in Ids
            BY <1>a DEF NoticeFrom, Ids
        <3>4. answer' \in [Messages -> [from : Ids, notice : Ids]]
            <4>1. CASE answer' = answer
                BY <1>0, <4>1 DEF CallType
            <4>2. CASE answer' # answer
                <5>1. PICK i \in DOMAIN inst :
                         answer' = [answer EXCEPT ![m] = [from |-> i, notice |-> NoticeFrom(i)]]
                    BY <2>3, <4>2 DEF ServesKnown
                <5>2. [from |-> i, notice |-> NoticeFrom(i)] \in [from : Ids, notice : Ids]
                    BY <3>3 DEF Ids
                <5> QED
                    BY <1>0, <5>1, <5>2 DEF CallType
            <4> QED
                BY <4>1, <4>2
        <3> QED
            BY <1>0, <1>a, <2>1, <2>2, <3>1, <3>2, <3>4
               DEF TypeOK, ProjectType, EngineType, CallType, EngineState, Ids, States
    <2>4. CASE ServesOther(m)
        <3> DEFINE new == Len(inst) + 1
        <3>1. PICK d \in Dirs, r \in Dirs :
                 /\ inst' = Append(inst, [root |-> r, open |-> TRUE, watched |-> FALSE, catchUp |-> "never"])
                 /\ cache' = [cache EXCEPT ![d] = new, ![r] = new]
                 /\ answer' = [answer EXCEPT ![m] = [from |-> new, notice |-> new]]
            BY <2>4 DEF ServesOther
        <3>2. [root |-> r, open |-> TRUE, watched |-> FALSE, catchUp |-> "never"] \in Instance
            BY DEF Instance
        <3>3. inst' \in Seq(Instance) /\ DOMAIN inst' = DOMAIN inst \cup {new}
            BY <3>1, <3>2, InstanceIsAdded
        <3>4. Ids \subseteq Ids' /\ new \in Ids' /\ EngineState \subseteq EngineState'
            BY <3>3, IdsGrow DEF Ids
        <3> HIDE DEF new
        <3>5. cache' \in [Dirs -> Ids']
            BY <1>0, <3>1, <3>4
        <3>6. gatedOn' \in [Messages -> Ids'] /\ engine' \in EngineState'
              /\ default' \in Ids' /\ gate' \in Ids'
            BY <1>0, <1>a, <2>1, <3>4
        <3>7. answer' \in [Messages -> [from : Ids', notice : Ids']]
            <4>1. answer \in [Messages -> [from : Ids', notice : Ids']]
                BY <1>0, <3>4 DEF CallType
            <4>2. [from |-> new, notice |-> new] \in [from : Ids', notice : Ids']
                BY <3>4
            <4> QED
                BY <3>1, <4>1, <4>2
        <3> QED
            BY <1>0, <2>1, <2>2, <3>3, <3>5, <3>6, <3>7
               DEF TypeOK, ProjectType, EngineType, CallType, EngineState, Ids, States
    <2> QED
        BY <1>14, <2>3, <2>4, ServeFacts
<1>15. CASE Stop
    <2>1. /\ engine' = [engine EXCEPT !.closed = TRUE, !.cg = None, !.opening = None]
          /\ inst' = [i \in DOMAIN inst |->
                         IF i = engine.cg \/ \E d \in Dirs : cache[d] = i
                         THEN [inst[i] EXCEPT !.open = FALSE] ELSE inst[i]]
          /\ cache' = [d \in Dirs |-> None]
          /\ UNCHANGED <<daemon, explicit, indexed, failures, default, gate, session, pc,
                         gatedOn, answer>>
        BY <1>15 DEF Stop, project, calls
    <2>2. inst' = [j \in DOMAIN inst |-> inst'[j]] /\ \A j \in DOMAIN inst : inst'[j] \in Instance
        BY <2>1, InstanceNumbers, ZenonT(30) DEF Instance
    <2>3. inst' \in Seq(Instance) /\ Ids' = Ids
        BY <2>2, InstancesStay DEF Ids
    <2>4. engine' \in EngineState
        BY <1>a, <2>1 DEF EngineState, Ids
    <2>5. cache' \in [Dirs -> Ids]
        BY <2>1 DEF Ids
    <2> QED
        BY <1>0, <1>a, <2>1, <2>3, <2>4, <2>5
           DEF TypeOK, ProjectType, EngineType, CallType, EngineState, Ids, States
<1>16. CASE UNCHANGED vars
    BY <1>16 DEF TypeOK, vars
<1> QED
    BY <1>1, <1>2, <1>3, <1>4, <1>5, <1>7, <1>8, <1>9, <1>10, <1>11, <1>12, <1>13, <1>14,
       <1>15, <1>16 DEF Next, Handle, RootsSettle
-----------------------------------------------------------------------------
Calm == \A m \in Messages : pc[m] \notin Running

(* While a project is being opened there is none, no message runs, and     *)
(* whoever may send one before the grammars are loaded will wait.          *)
OpeningIsAlone ==
    engine.opening # None =>
        /\ default = None /\ engine.path # None /\ Calm
        /\ ~engine.grammars =>
              \A s \in Sessions : session[s].state = "ready" => session[s].resolve # "none"

(* The engine and the handler have the same project, the only one that is  *)
(* watched or caught up with; a daemon has been told which one.            *)
EngineIsFaithful ==
    /\ engine.closed => engine.opening = None /\ Calm
    /\ ~engine.closed => engine.cg = default
    /\ \A i \in DOMAIN inst : inst[i].watched \/ inst[i].catchUp = "running" => i = default
    /\ daemon => explicit # None /\ (engine.grammars \/ engine.opening # None \/ engine.closed)

(* A direct server has one client, and nothing is opened before it spoke.  *)
OneClientWhenDirect ==
    /\ ~daemon => \A s, t \in Sessions :
                     session[s].state # "none" /\ session[t].state # "none" => s = t
    /\ \A m \in Messages : pc[m] # "unsent" => session[m.session].state # "none"
    /\ \A s \in Sessions : session[s].announced # None => session[s].state # "none"
    /\ explicit = None /\ (\A s \in Sessions : session[s].state = "none")
          => engine.opening = None /\ default = None

(* Nothing is opened and nothing runs while a client is asked for its root. *)
AskingIsAlone ==
    \A s \in Sessions :
       session[s].request = "pending" =>
          /\ session[s].state # "none" /\ session[s].attempted /\ session[s].resolve = "roots"
          /\ explicit = None /\ default = None /\ engine.opening = None /\ Calm

(* Of messages that run together none asks for the roots again. *)
TriesOnce ==
    \A m, n \in Messages :
       m # n /\ pc[m] \in Running /\ pc[n] \in Running /\ default = None
          => explicit # None \/ engine.path # None \/ session[m.session].attempted

Reachable ==
    \A i \in DOMAIN inst : inst[i].open => i = engine.cg \/ \E d \in Dirs : cache[d] = i

(* A root that was announced is opened, has been, or never will be. *)
AnnouncedIsOpened ==
    explicit = None /\ failures = 0 =>
        \A s \in Sessions :
           session[s].announced # None =>
              \/ engine.opening = session[s].announced
              \/ default # None /\ RootOf(default) = session[s].announced
              \/ default = None /\ engine.closed

(* Somebody has the gate of the default project, or took it: who waits     *)
(* behind it waits for that project, and who came through finds it synced. *)
GateIsHeld ==
    /\ gate # None => gate = default
    /\ default # None /\ gate = None => \E m \in Messages : gatedOn[m] = default
    /\ \A m \in Messages :
          /\ gatedOn[m] # None =>
                gatedOn[m] = default /\ pc[m] \in {"gated", "serve", "answered", "failed"}
          /\ pc[m] \in {"gated", "serve"} => gatedOn[m] # None
          /\ pc[m] = "serve" => inst[default].catchUp # "running"

ServerInv ==
    /\ TypeOK
    /\ OpeningIsAlone /\ EngineIsFaithful /\ OneClientWhenDirect /\ AskingIsAlone
    /\ TriesOnce /\ Reachable /\ AnnouncedIsOpened /\ GateIsHeld

LEMMA InitServerInv == Init => ServerInv
<1> SUFFICES ASSUME Init PROVE ServerInv
    OBVIOUS
<1> DEFINE e == [cg |-> None, path |-> explicit, opening |-> None,
                 grammars |-> FALSE, watcherStarted |-> FALSE, closed |-> FALSE]
           r == IF explicit = None THEN None ELSE Root(explicit)
<1>1. /\ daemon \in BOOLEAN /\ indexed \in SUBSET Dirs
      /\ explicit \in (IF daemon THEN indexed ELSE Dirs \cup {None})
      /\ failures = 0 /\ inst = <<>> /\ default = None /\ gate = None
      /\ engine = (IF r = None THEN e ELSE [e EXCEPT !.path = r, !.opening = r])
    BY DEF Init
<1>2. /\ cache = [d \in Dirs |-> None] /\ session = [s \in Sessions |-> Fresh]
      /\ pc = [m \in Messages |-> "unsent"] /\ gatedOn = [m \in Messages |-> None]
      /\ answer = [m \in Messages |-> [from |-> None, notice |-> None]]
    BY DEF Init
<1>3. explicit \in Dirs \cup {None} /\ r \in Dirs \cup {None} /\ (daemon => r # None)
    BY <1>1, RootType
<1> HIDE DEF r
<1>4. TypeOK
    <2>1. engine \in EngineState /\ default \in Ids /\ gate \in Ids
        BY <1>1, <1>3 DEF EngineState, Ids
    <2>2. inst \in Seq(Instance)
        BY <1>1, EmptySeq
    <2>3. cache \in [Dirs -> Ids] /\ pc \in [Messages -> States]
        BY <1>2 DEF Ids, States
    <2>4. gatedOn \in [Messages -> Ids] /\ answer \in [Messages -> [from : Ids, notice : Ids]]
        BY <1>2 DEF Ids
    <2>5. session \in [Sessions -> Session]
        BY <1>2 DEF Session, Fresh
    <2>6. /\ daemon \in BOOLEAN /\ explicit \in Dirs \cup {None} /\ indexed \in SUBSET Dirs
          /\ failures \in 0 .. MaxFailures
        BY <1>1, <1>3, McpServerAssumption
    <2> QED
        BY <2>1, <2>2, <2>3, <2>4, <2>5, <2>6 DEF TypeOK, EngineState, Ids, States
<1>5. DOMAIN inst = {}
    BY <1>1
<1>6. /\ ~engine.closed /\ ~engine.grammars /\ engine.cg = None
      /\ engine.opening = r /\ (engine.opening # None => engine.path # None)
    BY <1>1
<1>7. Calm /\ \A s \in Sessions : session[s].state = "none" /\ session[s].announced = None
                                  /\ session[s].request = "none"
    BY <1>2 DEF Calm, Fresh, Running
<1>8. explicit = None => r = None
    BY DEF r
<1>9. OpeningIsAlone /\ AskingIsAlone /\ AnnouncedIsOpened /\ TriesOnce
    BY <1>1, <1>6, <1>7 DEF OpeningIsAlone, AskingIsAlone, AnnouncedIsOpened, TriesOnce, Calm
<1>10. EngineIsFaithful /\ Reachable
    BY <1>1, <1>3, <1>5, <1>6, <1>8 DEF EngineIsFaithful, Reachable
<1>11. OneClientWhenDirect
    BY <1>1, <1>2, <1>6, <1>7, <1>8 DEF OneClientWhenDirect
<1>12. GateIsHeld
    BY <1>1, <1>2 DEF GateIsHeld
<1> QED
    BY <1>4, <1>9, <1>10, <1>11, <1>12 DEF ServerInv
-----------------------------------------------------------------------------
(* The conjuncts about instances and gates, where those stay. *)
LEMMA InstancesUntouched ==
    ASSUME Reachable, GateIsHeld,
           UNCHANGED <<inst, default, gate, cache, gatedOn>>, engine'.cg = engine.cg,
           \A m \in Messages :
              \/ pc'[m] = pc[m]
              \/ gatedOn[m] = None /\ pc'[m] \notin {"gated", "serve"}
              \/ pc[m] \in {"serve"} /\ pc'[m] \in {"answered", "failed"}
    PROVE  Reachable' /\ GateIsHeld'
<1>1. Reachable'
    BY DEF Reachable
<1>2. GateIsHeld'
    BY DEF GateIsHeld
<1> QED
    BY <1>1, <1>2

LEMMA InitializeStep ==
    ASSUME ServerInv, TypeOK', NEW s \in Sessions, NEW d \in Dirs \cup {None}, NEW b \in BOOLEAN,
           Initialize(s, d, b)
    PROVE  ServerInv'
<1> DEFINE path == IF d # None THEN d ELSE explicit
<1>0. /\ TypeOK /\ OpeningIsAlone /\ EngineIsFaithful /\ OneClientWhenDirect /\ AskingIsAlone
      /\ TriesOnce /\ Reachable /\ AnnouncedIsOpened /\ GateIsHeld
    BY DEF ServerInv
<1>a. session \in [Sessions -> Session] /\ path \in Dirs \cup {None}
    BY <1>0, TypeParts DEF ProjectType
<1>1. /\ Quiet /\ session[s].state = "none"
      /\ ~daemon => \A other \in Sessions : session[other].state = "none"
      /\ UNCHANGED <<daemon, explicit, failures, inst, default, gate, cache, pc, gatedOn>>
      /\ engine' = (IF path = None THEN engine ELSE Ensure(path))
    BY DEF Initialize, project, handler, calls
<1>2. ~engine.closed /\ Calm /\ (engine.opening # None => ~engine.grammars)
    BY <1>1 DEF Quiet, Calm
<1>3. session' = [session EXCEPT ![s] =
         [session[s] EXCEPT !.state = "ready", !.supportsRoots = b,
                            !.announced = IF d = None THEN None ELSE Root(d),
                            !.resolve = IF path = None THEN session[s].resolve
                                        ELSE Awaiting(engine')]]
    BY <1>1 DEF Initialize
<1>4. /\ \A t \in Sessions : t # s => session'[t] = session[t]
      /\ session'[s].state = "ready" /\ session'[s].request = session[s].request
      /\ session'[s].attempted = session[s].attempted
      /\ session'[s].announced = IF d = None THEN None ELSE Root(d)
      /\ path # None => session'[s].resolve = Awaiting(engine')
    BY <1>a, <1>3 DEF Session
<1>5. /\ engine'.cg = engine.cg /\ engine'.closed = engine.closed
      /\ engine'.grammars = engine.grammars
      /\ default # None \/ engine.opening # None => engine' = engine
      /\ path = None => engine' = engine
      /\ default = None /\ engine.opening = None /\ path # None =>
            engine'.opening = Root(path) /\ engine'.path # None
    BY <1>0, <1>a, <1>1, <1>2, EnsureFacts
<1>6. path = None => engine.opening = None
    BY <1>0, <1>1 DEF EngineIsFaithful, OneClientWhenDirect
<1> HIDE DEF path
<1>7. Calm'
    BY <1>1, <1>2 DEF Calm
<1>8. OpeningIsAlone'
    <2> SUFFICES ASSUME engine'.opening # None
                 PROVE  /\ default = None /\ engine'.path # None
                        /\ ~engine.grammars =>
                              \A t \in Sessions :
                                 session'[t].state = "ready" => session'[t].resolve # "none"
        BY <1>1, <1>5, <1>7 DEF OpeningIsAlone
    <2>1. path # None
        BY <1>5, <1>6
    <2>2. session'[s].resolve # "none"
        BY <1>4, <2>1 DEF Awaiting
    <2>3. CASE engine.opening # None
        BY <1>0, <1>4, <1>5, <2>2, <2>3 DEF OpeningIsAlone
    <2>4. CASE engine.opening = None
        <3>1. default = None /\ engine'.path # None
            BY <1>5, <2>1, <2>4
        <3>2. ~engine.grammars => \A t \in Sessions : session[t].state = "none"
            BY <1>0, <1>1, <1>2, <2>4 DEF EngineIsFaithful
        <3> QED
            BY <1>4, <2>2, <3>1, <3>2
    <2> QED
        BY <2>3, <2>4
<1>9. EngineIsFaithful'
    BY <1>0, <1>1, <1>2, <1>5 DEF EngineIsFaithful
<1>b. \A t \in Sessions : session[t].state # "none" => session'[t].state # "none"
    BY <1>4
<1>c. \A t \in Sessions : t # s => session'[t].announced = session[t].announced
                                  /\ session'[t].state = session[t].state
                                  /\ session'[t].request = session[t].request
    BY <1>4
<1>10. OneClientWhenDirect'
    <2>1. ~daemon => \A t, u \in Sessions :
             session'[t].state # "none" /\ session'[u].state # "none" => t = u
        BY <1>1, <1>c, ZenonT(30)
    <2>2. \A m \in Messages : pc[m] # "unsent" => session'[m.session].state # "none"
        BY <1>0, <1>b DEF OneClientWhenDirect
    <2>3. \A t \in Sessions : session'[t].announced # None => session'[t].state # "none"
        BY <1>0, <1>4, <1>c, SMTT(30) DEF OneClientWhenDirect
    <2> QED
        BY <1>1, <1>4, <2>1, <2>2, <2>3 DEF OneClientWhenDirect
<1>11. AskingIsAlone'
    <2>1. \A t \in Sessions : session[t].request = "pending" => FALSE
        BY <1>0, <1>1 DEF AskingIsAlone, EngineIsFaithful
    <2> QED
        BY <1>4, <2>1 DEF AskingIsAlone
<1>12. TriesOnce'
    BY <1>7 DEF TriesOnce, Calm
<1>13. Reachable' /\ GateIsHeld'
    BY <1>0, <1>1, <1>5, InstancesUntouched
<1>14. AnnouncedIsOpened'
    <2> SUFFICES ASSUME explicit = None, failures = 0, NEW t \in Sessions,
                        session'[t].announced # None
                 PROVE  engine'.opening = session'[t].announced
        BY <1>1 DEF AnnouncedIsOpened
    <2>1. /\ \A other \in Sessions : session[other].state = "none"
          /\ engine.opening = None /\ default = None
        BY <1>0, <1>1 DEF EngineIsFaithful, OneClientWhenDirect
    <2>2. t = s
        BY <1>0, <1>c, <2>1 DEF OneClientWhenDirect
    <2>3. d # None /\ path = d
        BY <1>4, <2>2 DEF path
    <2> QED
        BY <1>4, <1>5, <2>1, <2>2, <2>3
<1> QED
    BY <1>8, <1>9, <1>10, <1>11, <1>12, <1>13, <1>14 DEF ServerInv

LEMMA ReceiveStep ==
    ASSUME Disciplined, ServerInv, TypeOK', NEW m \in Messages, Receive(m)
    PROVE  ServerInv'
<1>0. /\ TypeOK /\ OpeningIsAlone /\ EngineIsFaithful /\ OneClientWhenDirect /\ AskingIsAlone
      /\ TriesOnce /\ Reachable /\ AnnouncedIsOpened /\ GateIsHeld
      /\ pc \in [Messages -> States]
    BY TypeParts DEF ServerInv
<1>1. /\ Quiet /\ pc[m] = "unsent" /\ session[m.session].state = "ready"
      /\ UNCHANGED <<daemon, explicit, failures, inst, engine, default, gate, cache, session, gatedOn>>
      /\ pc' = [pc EXCEPT ![m] = IF session[m.session].resolve = "none" THEN "retry" ELSE "resolving"]
    BY DEF Receive, project, handler, calls
<1>2. ~engine.closed /\ Calm /\ (engine.opening # None => ~engine.grammars)
    BY <1>1 DEF Quiet, Calm
<1>3. /\ \A n \in Messages : n # m => pc'[n] = pc[n]
      /\ pc'[m] = IF session[m.session].resolve = "none" THEN "retry" ELSE "resolving"
    BY <1>0, <1>1
<1>4. session[m.session].resolve # "none" => Calm'
    BY <1>2, <1>3 DEF Calm, Running
<1>5. OpeningIsAlone'
    BY <1>0, <1>1, <1>2, <1>4 DEF OpeningIsAlone
<1>6. EngineIsFaithful'
    BY <1>0, <1>1, <1>2 DEF EngineIsFaithful
<1>7. OneClientWhenDirect'
    BY <1>0, <1>1, <1>3 DEF OneClientWhenDirect
<1>8. AskingIsAlone'
    <2>1. ASSUME NEW s \in Sessions, session[s].request = "pending" PROVE Calm'
        <3>1. ~daemon /\ session[s].state # "none" /\ session[s].resolve = "roots"
            BY <1>0, <2>1 DEF AskingIsAlone, EngineIsFaithful
        <3>2. s = m.session
            BY <1>0, <1>1, <3>1 DEF OneClientWhenDirect
        <3> QED
            BY <1>4, <3>1, <3>2
    <2> QED
        BY <1>0, <1>1, <2>1 DEF AskingIsAlone
<1>9. TriesOnce'
    BY <1>2, <1>3 DEF TriesOnce, Calm
<1>10. Reachable' /\ GateIsHeld'
    <2>1. gatedOn[m] = None
        BY <1>0, <1>1 DEF GateIsHeld
    <2>2. \A n \in Messages : pc'[n] = pc[n] \/ (gatedOn[n] = None /\ pc'[n] \notin {"gated", "serve"})
        BY <1>3, <2>1
    <2> QED
        BY <1>0, <1>1, <2>2, InstancesUntouched
<1>11. AnnouncedIsOpened'
    BY <1>0, <1>1 DEF AnnouncedIsOpened, RootOf
<1> QED
    BY <1>5, <1>6, <1>7, <1>8, <1>9, <1>10, <1>11 DEF ServerInv

(* Where a message runs nothing is being opened and nobody is asked; and   *)
(* without a project no announced root has been taken in.                  *)
LEMMA RunningFacts ==
    ASSUME ServerInv, NEW m \in Messages, pc[m] \in Running
    PROVE  /\ ~engine.closed /\ engine.opening = None
           /\ \A s \in Sessions : session[s].request # "pending"
           /\ session[m.session].state # "none"
           /\ explicit = None /\ failures = 0 /\ default = None =>
                 \A s \in Sessions : session[s].announced = None
<1>0. OpeningIsAlone /\ EngineIsFaithful /\ OneClientWhenDirect /\ AskingIsAlone /\ AnnouncedIsOpened
    BY DEF ServerInv
<1>1. ~Calm /\ pc[m] # "unsent"
    BY DEF Calm, Running
<1>2. ~engine.closed /\ engine.opening = None
    BY <1>0, <1>1 DEF OpeningIsAlone, EngineIsFaithful
<1>3. \A s \in Sessions : session[s].request # "pending"
    BY <1>0, <1>1 DEF AskingIsAlone
<1>4. session[m.session].state # "none"
    BY <1>0, <1>1 DEF OneClientWhenDirect
<1>5. explicit = None /\ failures = 0 /\ default = None =>
         \A s \in Sessions : session[s].announced = None
    BY <1>0, <1>2 DEF AnnouncedIsOpened
<1> QED
    BY <1>2, <1>3, <1>4, <1>5

(* A message that runs goes on, and nothing else changes but the gate. *)
LEMMA RunningGoesOn ==
    ASSUME ServerInv, TypeOK', NEW m \in Messages, pc[m] \in Running,
           UNCHANGED <<daemon, explicit, engine, default, session>>, failures <= failures',
           \A n \in Messages : n # m => pc'[n] = pc[n], pc'[m] # "unsent",
           \A i \in DOMAIN inst : inst'[i] = inst[i], DOMAIN inst \subseteq DOMAIN inst',
           \A i \in DOMAIN inst' \ DOMAIN inst : ~inst'[i].watched /\ inst'[i].catchUp = "never"
    PROVE  /\ OpeningIsAlone' /\ EngineIsFaithful' /\ OneClientWhenDirect' /\ AskingIsAlone'
           /\ TriesOnce' /\ AnnouncedIsOpened'
<1>0. /\ TypeOK /\ EngineIsFaithful /\ OneClientWhenDirect /\ TriesOnce /\ AnnouncedIsOpened
    BY DEF ServerInv
<1>1. /\ ~engine.closed /\ engine.opening = None
      /\ \A s \in Sessions : session[s].request # "pending"
      /\ session[m.session].state # "none"
    BY RunningFacts
<1>2. OpeningIsAlone' /\ AskingIsAlone'
    BY <1>1 DEF OpeningIsAlone, AskingIsAlone
<1>3. EngineIsFaithful'
    <2>1. \A i \in DOMAIN inst' : inst'[i].watched \/ inst'[i].catchUp = "running" => i = default
        BY <1>0 DEF EngineIsFaithful
    <2> QED
        BY <1>0, <1>1, <2>1 DEF EngineIsFaithful
<1>4. OneClientWhenDirect'
    BY <1>0, <1>1 DEF OneClientWhenDirect
<1>5. TriesOnce'
    BY <1>0 DEF TriesOnce
<1>6. AnnouncedIsOpened'
    <2>1. failures' = 0 => failures = 0
        BY <1>0 DEF TypeOK
    <2>2. default # None => RootOf(default)' = RootOf(default)
        BY <1>0 DEF TypeOK, RootOf
    <2> QED
        BY <1>0, <2>1, <2>2 DEF AnnouncedIsOpened
<1> QED
    BY <1>2, <1>3, <1>4, <1>5, <1>6

LEMMA RetryStep ==
    ASSUME ServerInv, TypeOK', NEW m \in Messages, Retry(m)
    PROVE  ServerInv'
<1> DEFINE s == m.session
           hint == IF explicit # None THEN explicit ELSE engine.path
<1>0. /\ TypeOK /\ OpeningIsAlone /\ EngineIsFaithful /\ OneClientWhenDirect /\ AskingIsAlone
      /\ TriesOnce /\ Reachable /\ AnnouncedIsOpened /\ GateIsHeld
      /\ pc \in [Messages -> States] /\ session \in [Sessions -> Session] /\ s \in Sessions
      /\ failures \in 0 .. MaxFailures
    BY TypeParts DEF ServerInv, ProjectType
<1>1. /\ pc[m] = "retry"
      /\ UNCHANGED <<daemon, explicit, failures, inst, default, gate, cache, gatedOn>>
    BY DEF Retry, project, handler, calls
<1>2. /\ ~engine.closed /\ engine.opening = None
      /\ \A t \in Sessions : session[t].request # "pending"
      /\ session[s].state # "none"
      /\ explicit = None /\ failures = 0 /\ default = None =>
            \A t \in Sessions : session[t].announced = None
    BY <1>1, RunningFacts DEF Running
<1>3. gatedOn[m] = None
    BY <1>0, <1>1 DEF GateIsHeld
<1>4. CASE /\ pc' \in {[pc EXCEPT ![m] = "ready"], [pc EXCEPT ![m] = "lastResort"]}
           /\ UNCHANGED <<engine, session>>
    <2>1. (\A n \in Messages : n # m => pc'[n] = pc[n]) /\ pc'[m] \in {"ready", "lastResort"}
        BY <1>0, <1>4
    <2>2. /\ OpeningIsAlone' /\ EngineIsFaithful' /\ OneClientWhenDirect' /\ AskingIsAlone'
          /\ TriesOnce' /\ AnnouncedIsOpened'
        <3>1. /\ failures <= failures' /\ pc'[m] # "unsent" /\ pc[m] \in Running
              /\ DOMAIN inst \subseteq DOMAIN inst' /\ DOMAIN inst' \ DOMAIN inst = {}
              /\ \A i \in DOMAIN inst : inst'[i] = inst[i]
            BY <1>0, <1>1, <2>1 DEF Running
        <3> QED
            BY <1>1, <1>4, <2>1, <3>1, RunningGoesOn
    <2>3. Reachable' /\ GateIsHeld'
        BY <1>0, <1>1, <1>3, <1>4, <2>1, InstancesUntouched
    <2> QED
        BY <2>2, <2>3 DEF ServerInv
<1>5. CASE default = None /\ hint = None /\ ~session[s].attempted
    <2>1. explicit = None /\ engine.path = None
        BY <1>5
    <2>2. \A n \in Messages : n # m => pc[n] \notin Running
        BY <1>0, <1>1, <1>5, <2>1 DEF TriesOnce, Running
    <2>3. ~daemon
        BY <1>0, <2>1 DEF EngineIsFaithful
    <2>4. \A t \in Sessions : session[t].state # "none" => t = s
        BY <1>0, <1>2, <2>3 DEF OneClientWhenDirect
    <2>b. \A n \in Messages :
             n.session \in Sessions /\ (pc[n] # "unsent" \/ n = m => session[n.session].state # "none")
        BY <1>0, <1>2 DEF OneClientWhenDirect
    <2>5. CASE /\ session[s].supportsRoots
               /\ pc' = [pc EXCEPT ![m] = "asked"]
               /\ session' = [session EXCEPT ![s] =
                     [@ EXCEPT !.attempted = TRUE, !.resolve = "roots", !.request = "pending"]]
               /\ UNCHANGED engine
        <3>1. pc'[m] = "asked" /\ \A n \in Messages : n # m => pc'[n] = pc[n]
            BY <1>0, <2>5
        <3>2. /\ session'[s].state = session[s].state /\ session'[s].attempted
              /\ session'[s].resolve = "roots" /\ session'[s].announced = session[s].announced
              /\ \A t \in Sessions : t # s => session'[t] = session[t]
            BY <1>0, <2>5 DEF Session
        <3>3. Calm'
            BY <2>2, <3>1 DEF Calm, Running
        <3>4. OpeningIsAlone'
            BY <1>2, <2>5 DEF OpeningIsAlone
        <3>5. EngineIsFaithful'
            BY <1>0, <1>1, <1>2, <2>5 DEF EngineIsFaithful
        <3>6. \A t \in Sessions : session'[t].state = session[t].state
                                  /\ session'[t].announced = session[t].announced
            BY <3>2
        <3>7. OneClientWhenDirect'
            <4>1. \A n \in Messages : pc'[n] # "unsent" => session'[n.session].state # "none"
                BY <2>b, <3>1, <3>6
            <4>2. \A t, u \in Sessions :
                     session'[t].state # "none" /\ session'[u].state # "none" => t = u
                BY <2>4, <3>6
            <4>3. \A t \in Sessions : session'[t].announced # None => session'[t].state # "none"
                BY <1>0, <3>6 DEF OneClientWhenDirect
            <4>4. session'[s].state # "none"
                BY <1>2, <3>2
            <4> QED
                BY <1>0, <4>1, <4>2, <4>3, <4>4 DEF OneClientWhenDirect
        <3>8. AskingIsAlone'
            BY <1>1, <1>2, <1>5, <2>1, <2>5, <3>2, <3>3 DEF AskingIsAlone
        <3>9. TriesOnce'
            BY <3>3 DEF TriesOnce, Calm
        <3>10. AnnouncedIsOpened'
            BY <1>1, <1>2, <1>5, <3>6 DEF AnnouncedIsOpened
        <3>11. Reachable' /\ GateIsHeld'
            <4>1. \A n \in Messages :
                     pc'[n] = pc[n] \/ (gatedOn[n] = None /\ pc'[n] \notin {"gated", "serve"})
                BY <1>3, <3>1
            <4> QED
                BY <1>0, <1>1, <2>5, <4>1, InstancesUntouched
        <3> QED
            BY <3>4, <3>5, <3>7, <3>8, <3>9, <3>10, <3>11 DEF ServerInv
    <2>6. CASE /\ engine' = Ensure(Cwd)
               /\ session' = [session EXCEPT ![s] =
                     [@ EXCEPT !.attempted = TRUE, !.resolve = Awaiting(Ensure(Cwd))]]
               /\ pc' = [pc EXCEPT ![m] = IF Ensure(Cwd).opening # None THEN "asked" ELSE "fromCwd"]
        <3>1. /\ engine'.opening # None => pc'[m] = "asked"
              /\ pc'[m] \in {"asked", "fromCwd"}
              /\ \A n \in Messages : n # m => pc'[n] = pc[n]
            BY <1>0, <2>6
        <3>2. /\ session'[s].state = session[s].state
              /\ session'[s].request = session[s].request
              /\ session'[s].resolve = Awaiting(engine')
              /\ session'[s].announced = session[s].announced
              /\ \A t \in Sessions : t # s => session'[t] = session[t]
            BY <1>0, <2>6 DEF Session
        <3>3. /\ engine'.cg = engine.cg /\ ~engine'.closed /\ engine'.path # None
              /\ engine'.grammars = engine.grammars
            BY <1>0, <1>2, <1>5, <2>6, EnsureFacts
        <3>4. engine'.opening # None => Calm'
            BY <2>2, <3>1 DEF Calm, Running
        <3>5. OpeningIsAlone'
            <4>1. engine'.opening # None => session'[s].resolve # "none"
                BY <3>2 DEF Awaiting
            <4>2. \A t \in Sessions : session'[t].state = "ready" => t = s
                BY <2>4, <3>2
            <4> QED
                BY <1>1, <1>5, <3>3, <3>4, <4>1, <4>2 DEF OpeningIsAlone
        <3>6. EngineIsFaithful'
            BY <1>0, <1>1, <1>2, <2>3, <3>3 DEF EngineIsFaithful
        <3>7. \A t \in Sessions : session'[t].state = session[t].state
                                  /\ session'[t].announced = session[t].announced
                                  /\ session'[t].request = session[t].request
            BY <3>2
        <3>8. OneClientWhenDirect'
            <4>1. \A n \in Messages : pc'[n] # "unsent" => session'[n.session].state # "none"
                BY <2>b, <3>1, <3>7
            <4>2. \A t, u \in Sessions :
                     session'[t].state # "none" /\ session'[u].state # "none" => t = u
                BY <2>4, <3>7
            <4>3. \A t \in Sessions : session'[t].announced # None => session'[t].state # "none"
                BY <1>0, <3>7 DEF OneClientWhenDirect
            <4>4. session'[s].state # "none"
                BY <1>2, <3>2
            <4> QED
                BY <1>0, <4>1, <4>2, <4>3, <4>4 DEF OneClientWhenDirect
        <3>9. AskingIsAlone'
            BY <1>2, <3>7 DEF AskingIsAlone
        <3>10. TriesOnce'
            BY <3>3 DEF TriesOnce
        <3>11. AnnouncedIsOpened'
            BY <1>1, <1>2, <1>5, <3>7 DEF AnnouncedIsOpened
        <3>12. Reachable' /\ GateIsHeld'
            <4>1. \A n \in Messages :
                     pc'[n] = pc[n] \/ (gatedOn[n] = None /\ pc'[n] \notin {"gated", "serve"})
                BY <1>3, <3>1
            <4> QED
                BY <1>0, <1>1, <3>3, <4>1, InstancesUntouched
        <3> QED
            BY <3>5, <3>6, <3>8, <3>9, <3>10, <3>11, <3>12 DEF ServerInv
    <2> QED
        BY <1>4, <1>5, <2>5, <2>6 DEF Retry
<1> QED
    BY <1>4, <1>5 DEF Retry

(* An instance is adopted where there is none: nothing is lost. *)
LEMMA AdoptStep ==
    ASSUME TypeOK, EngineIsFaithful, Reachable, GateIsHeld, ~engine.closed, default = None,
           NEW r \in Dirs, NEW e \in EngineState, Adopt(r, e),
           e.opening = None, ~e.closed,
           e.grammars \/ (e.grammars = engine.grammars /\ engine.opening = None),
           UNCHANGED <<daemon, explicit, cache, gatedOn>>,
           \A m \in Messages : pc'[m] = pc[m] \/ pc'[m] \notin {"gated", "serve"}
    PROVE  /\ OpeningIsAlone' /\ EngineIsFaithful' /\ TriesOnce'
           /\ Reachable' /\ GateIsHeld'
           /\ default' # None /\ RootOf(default)' = r /\ failures' = failures
<1> DEFINE new == Len(inst) + 1
<1>1. /\ DOMAIN inst' = DOMAIN inst \cup {new} /\ new # None
      /\ \A i \in DOMAIN inst : inst'[i] = inst[i]
      /\ inst'[new].root = r
      /\ default' = new /\ gate' = new /\ engine'.cg = new
      /\ engine'.opening = None /\ engine'.grammars = e.grammars /\ ~engine'.closed
      /\ failures' = failures
    BY AdoptFacts
<1>2. None \notin DOMAIN inst /\ engine.cg = None
    BY InstanceNumbers DEF EngineIsFaithful
<1> HIDE DEF new
<1>3. OpeningIsAlone'
    BY <1>1 DEF OpeningIsAlone
<1>4. EngineIsFaithful'
    <2>1. \A i \in DOMAIN inst : ~inst[i].watched /\ inst[i].catchUp # "running"
        BY <1>2 DEF EngineIsFaithful
    <2>2. \A i \in DOMAIN inst' : inst'[i].watched \/ inst'[i].catchUp = "running" => i = new
        BY <1>1, <2>1
    <2>3. daemon => explicit # None /\ e.grammars
        BY DEF EngineIsFaithful
    <2> QED
        BY <1>1, <2>2, <2>3 DEF EngineIsFaithful
<1>5. TriesOnce'
    BY <1>1 DEF TriesOnce
<1>6. Reachable'
    <2> SUFFICES ASSUME NEW i \in DOMAIN inst', inst'[i].open, i # new
                 PROVE  \E d \in Dirs : cache[d] = i
        BY <1>1 DEF Reachable
    <2>1. i \in DOMAIN inst /\ inst[i].open
        BY <1>1
    <2>2. i # engine.cg
        BY <1>2, <2>1
    <2> QED
        BY <2>1, <2>2 DEF Reachable
<1>7. GateIsHeld'
    BY <1>1 DEF GateIsHeld
<1> QED
    BY <1>1, <1>3, <1>4, <1>5, <1>6, <1>7 DEF RootOf

LEMMA LastResortStep ==
    ASSUME ServerInv, TypeOK', NEW m \in Messages, LastResort(m)
    PROVE  ServerInv'
<1> DEFINE hint == IF explicit # None THEN explicit ELSE engine.path
           dir  == IF pc[m] = "fromCwd" \/ hint = None THEN Cwd ELSE hint
           r    == Root(dir)
           e    == [engine EXCEPT !.path = r]
<1>0. /\ TypeOK /\ EngineIsFaithful /\ OneClientWhenDirect /\ Reachable /\ GateIsHeld
      /\ pc \in [Messages -> States] /\ engine \in EngineState
      /\ failures \in 0 .. MaxFailures /\ explicit \in Dirs \cup {None}
    BY TypeParts DEF ServerInv, ProjectType, EngineType
<1>1. /\ pc[m] \in {"lastResort", "fromCwd"} /\ pc[m] \in Running
      /\ pc' = [pc EXCEPT ![m] = "ready"]
      /\ UNCHANGED <<daemon, explicit, indexed, cache, session, gatedOn>>
    BY DEF LastResort, project, calls, Running
<1>2. \/ UNCHANGED <<failures, inst, engine, default, gate>>
      \/ r # None /\ default = None /\ Adopt(r, e)
      \/ OpenFails(engine)
    BY DEF LastResort
<1>3. (\A n \in Messages : n # m => pc'[n] = pc[n]) /\ pc'[m] = "ready"
    BY <1>0, <1>1
<1>4. /\ ~engine.closed /\ engine.opening = None
      /\ \A t \in Sessions : session[t].request # "pending"
      /\ session[m.session].state # "none"
      /\ explicit = None /\ failures = 0 /\ default = None =>
            \A t \in Sessions : session[t].announced = None
    BY <1>1, RunningFacts
<1>5. gatedOn[m] = None
    BY <1>0, <1>1 DEF GateIsHeld
<1>6. CASE UNCHANGED <<inst, engine, default, gate>> /\ failures <= failures'
    <2>1. /\ OpeningIsAlone' /\ EngineIsFaithful' /\ OneClientWhenDirect' /\ AskingIsAlone'
          /\ TriesOnce' /\ AnnouncedIsOpened'
        <3>1. /\ DOMAIN inst \subseteq DOMAIN inst' /\ DOMAIN inst' \ DOMAIN inst = {}
              /\ \A i \in DOMAIN inst : inst'[i] = inst[i]
            BY <1>6
        <3> QED
            BY <1>1, <1>3, <1>6, <3>1, RunningGoesOn
    <2>2. Reachable' /\ GateIsHeld'
        BY <1>0, <1>1, <1>3, <1>5, <1>6, InstancesUntouched
    <2> QED
        BY <2>1, <2>2 DEF ServerInv
<1>7. CASE r # None /\ default = None /\ Adopt(r, e)
    <2>1. dir \in Dirs
        BY <1>0 DEF EngineState
    <2>2. r \in Dirs
        BY <1>7, <2>1, RootType
    <2>3. /\ e \in EngineState /\ e.opening = None /\ ~e.closed /\ e.grammars = engine.grammars
        BY <1>0, <1>4, <2>2 DEF EngineState
    <2>4. \A n \in Messages : pc'[n] = pc[n] \/ pc'[n] \notin {"gated", "serve"}
        BY <1>3
    <2> HIDE DEF e, r
    <2>5. /\ OpeningIsAlone' /\ EngineIsFaithful' /\ TriesOnce' /\ Reachable' /\ GateIsHeld'
          /\ default' # None /\ failures' = failures
        BY <1>0, <1>1, <1>4, <1>7, <2>2, <2>3, <2>4, AdoptStep
    <2>6. OneClientWhenDirect' /\ AskingIsAlone'
        BY <1>0, <1>1, <1>3, <1>4 DEF OneClientWhenDirect, AskingIsAlone
    <2>7. AnnouncedIsOpened'
        BY <1>1, <1>4, <1>7, <2>5 DEF AnnouncedIsOpened
    <2> QED
        BY <2>5, <2>6, <2>7 DEF ServerInv
<1>8. CASE OpenFails(engine)
    BY <1>0, <1>6, <1>8, OpenFailsFacts
<1> QED
    BY <1>0, <1>2, <1>6, <1>7, <1>8

(* The answer to the roots, or what stands for it, starts an opening or    *)
(* wakes the session.                                                      *)
LEMMA FromRootsStep ==
    ASSUME ServerInv, TypeOK', Quiet, NEW s \in Sessions, NEW d \in Dirs, NEW changed \in Session,
           session[s].request = "pending",
           changed.state = session[s].state, changed.attempted = session[s].attempted,
           changed.request # "pending", changed.announced \in {session[s].announced, Root(d)},
           FromRoots(s, d, changed)
    PROVE  ServerInv'
<1>0. /\ TypeOK /\ EngineIsFaithful /\ OneClientWhenDirect /\ AskingIsAlone
      /\ Reachable /\ AnnouncedIsOpened /\ GateIsHeld /\ pc \in [Messages -> States]
    BY TypeParts DEF ServerInv
<1>1. /\ session[s].state # "none" /\ session[s].attempted
      /\ explicit = None /\ default = None /\ engine.opening = None /\ Calm
    BY <1>0 DEF AskingIsAlone
<1>2. ~engine.closed /\ ~daemon
    BY <1>0, <1>1 DEF Quiet, EngineIsFaithful
<1>3. \A t \in Sessions : t # s => session[t].state = "none"
    BY <1>0, <1>1, <1>2 DEF OneClientWhenDirect
<1>c. engine' = Ensure(d) /\ pc' = IF Ensure(d).opening # None THEN pc ELSE Woken({s})
    BY DEF FromRoots
<1>d. /\ \A t \in Sessions : t # s => session'[t] = session[t]
      /\ session'[s].state = changed.state /\ session'[s].request = changed.request
      /\ session'[s].announced = changed.announced
      /\ session'[s].resolve = Awaiting(Ensure(d))
    BY <1>0, FromRootsFacts, ZenonT(30)
<1>4. /\ engine' = Ensure(d)
      /\ \A t \in Sessions : t # s => session'[t] = session[t]
      /\ pc' = IF Ensure(d).opening # None THEN pc ELSE Woken({s})
    BY <1>c, <1>d
<1>a. UNCHANGED <<daemon, explicit, failures, inst, default, gate, cache, gatedOn>>
    BY DEF FromRoots, project, handler, calls
<1>b. \A t \in Sessions : t # s => /\ session'[t].state = "none"
                                   /\ session'[t].announced = session[t].announced
                                   /\ session'[t].request = session[t].request
    BY <1>3, <1>4
<1>5. /\ session'[s].state = session[s].state /\ session'[s].request # "pending"
      /\ session'[s].resolve = Awaiting(engine')
      /\ session'[s].announced \in {session[s].announced, Root(d)}
    BY <1>c, <1>d
<1>6. /\ engine'.cg = engine.cg /\ ~engine'.closed /\ engine'.path # None
      /\ engine'.opening = Root(d)
    BY <1>0, <1>1, <1>2, <1>4, EnsureFacts
<1>7. \A m \in Messages :
         \/ pc'[m] = pc[m]
         \/ pc[m] \in {"resolving", "asked"} /\ pc'[m] \in {"retry", "fromCwd"}
    BY <1>0, <1>4, WokenFacts
<1>8. OpeningIsAlone'
    <2> SUFFICES ASSUME engine'.opening # None PROVE OpeningIsAlone'
        BY DEF OpeningIsAlone
    <2>1. Calm'
        BY <1>1, <1>4 DEF Calm
    <2>2. session'[s].resolve # "none"
        BY <1>5 DEF Awaiting
    <2>3. \A t \in Sessions : session'[t].state = "ready" => t = s
        BY <1>b
    <2> QED
        BY <1>1, <1>a, <1>6, <2>1, <2>2, <2>3 DEF OpeningIsAlone
<1>9. EngineIsFaithful'
    BY <1>0, <1>2, <1>a, <1>6 DEF EngineIsFaithful
<1>10. OneClientWhenDirect'
    <2>1. \A t, u \in Sessions : session'[t].state # "none" /\ session'[u].state # "none" => t = u
        BY <1>b
    <2>2. \A t \in Sessions : session[t].state # "none" => session'[t].state # "none"
        BY <1>3, <1>5
    <2>3. \A m \in Messages : pc'[m] # "unsent" => session'[m.session].state # "none"
        BY <1>0, <1>7, <2>2, ZenonT(30) DEF OneClientWhenDirect
    <2>4. \A t \in Sessions : session'[t].announced # None => session'[t].state # "none"
        BY <1>0, <1>1, <1>3, <1>5, <1>b DEF OneClientWhenDirect
    <2>5. session'[s].state # "none"
        BY <1>1, <1>5
    <2> QED
        BY <2>1, <2>3, <2>4, <2>5 DEF OneClientWhenDirect
<1>11. AskingIsAlone'
    <2>1. \A t \in Sessions : session'[t].request # "pending"
        BY <1>0, <1>3, <1>5, <1>b, ZenonT(30) DEF AskingIsAlone
    <2> QED
        BY <2>1 DEF AskingIsAlone
<1>12. TriesOnce'
    BY <1>6 DEF TriesOnce
<1>13. Reachable' /\ GateIsHeld'
    <2>1. \A m \in Messages :
             pc'[m] = pc[m] \/ (gatedOn[m] = None /\ pc'[m] \notin {"gated", "serve"})
        BY <1>0, <1>7 DEF GateIsHeld
    <2> QED
        BY <1>0, <1>a, <1>6, <2>1, InstancesUntouched
<1>14. AnnouncedIsOpened'
    <2> SUFFICES ASSUME explicit = None, failures = 0, NEW t \in Sessions,
                        session'[t].announced # None
                 PROVE  engine'.opening = session'[t].announced
        BY <1>a DEF AnnouncedIsOpened
    <2>1. \A u \in Sessions : session[u].announced = None
        BY <1>0, <1>1, <1>2 DEF AnnouncedIsOpened
    <2> QED
        BY <1>b, <1>5, <1>6, <2>1
<1> QED
    BY <1>8, <1>9, <1>10, <1>11, <1>12, <1>13, <1>14 DEF ServerInv

LEMMA RootsStep ==
    ASSUME ServerInv, TypeOK', NEW s \in Sessions,
           \/ \E d \in Dirs : RootsAnswer(s, d)
           \/ \E x \in {"settled", "expired"} : RootsMissing(s, x)
    PROVE  ServerInv'
<1>0. /\ session \in [Sessions -> Session] /\ session[s] \in Session
      /\ TypeOK /\ OpeningIsAlone /\ EngineIsFaithful /\ OneClientWhenDirect /\ AskingIsAlone
      /\ TriesOnce /\ Reachable /\ AnnouncedIsOpened /\ GateIsHeld
    BY TypeParts DEF ServerInv
<1>1. ASSUME NEW d \in Dirs, Quiet, session[s].request = "pending",
             FromRoots(s, d, [session[s] EXCEPT !.request = "settled", !.announced = Root(d)])
      PROVE  ServerInv'
    <2> DEFINE changed == [session[s] EXCEPT !.request = "settled", !.announced = Root(d)]
    <2>1. changed \in Session
        BY <1>0, RootType, SessionChanges
    <2>2. /\ changed.state = session[s].state /\ changed.attempted = session[s].attempted
          /\ changed.request # "pending" /\ changed.announced \in {session[s].announced, Root(d)}
        BY <1>0 DEF Session
    <2> HIDE DEF changed
    <2>3. FromRoots(s, d, changed)
        BY <1>1 DEF changed
    <2> QED
        BY <1>1, <2>1, <2>2, <2>3, FromRootsStep
<1>2. ASSUME NEW x \in {"settled", "expired"}, RootsMissing(s, x) PROVE ServerInv'
    <2> DEFINE changed == [session[s] EXCEPT !.request = x]
    <2>1. changed \in Session
        BY <1>0, SessionChanges
    <2>2. /\ changed.state = session[s].state /\ changed.attempted = session[s].attempted
          /\ changed.request # "pending" /\ changed.announced \in {session[s].announced, Root(Cwd)}
        BY <1>0 DEF Session
    <2> HIDE DEF changed
    <2>3. Quiet /\ session[s].request = "pending" /\ FromRoots(s, Cwd, changed)
        BY <1>2 DEF RootsMissing, changed
    <2> QED
        BY <2>1, <2>2, <2>3, FromRootsStep
<1>3. CASE /\ session[s].request = "expired"
           /\ session' = [session EXCEPT ![s].request = "settled"]
           /\ UNCHANGED <<project, failures, inst, engine, handler, pc, calls>>
    <2>1. UNCHANGED <<daemon, explicit, failures, inst, engine, default, gate, cache, pc, gatedOn>>
        BY <1>3 DEF project, handler, calls
    <2>2. \A t \in Sessions :
             /\ session'[t].state = session[t].state /\ session'[t].resolve = session[t].resolve
             /\ session'[t].attempted = session[t].attempted
             /\ session'[t].announced = session[t].announced
             /\ session'[t].request = "pending" => session[t].request = "pending"
        BY <1>0, <1>3 DEF Session
    <2>a. \A t \in Sessions : session'[t].state = session[t].state
        BY <2>2
    <2>b. \A t \in Sessions : session'[t].announced = session[t].announced
        BY <2>2
    <2>3. OpeningIsAlone' /\ EngineIsFaithful'
        BY <1>0, <2>1, <2>2 DEF OpeningIsAlone, EngineIsFaithful, Calm
    <2>4. OneClientWhenDirect'
        BY <1>0, <2>1, <2>a, <2>b DEF OneClientWhenDirect
    <2>5. AskingIsAlone'
        <3>1. Calm' <=> Calm
            BY <2>1 DEF Calm
        <3>2. ASSUME NEW t \in Sessions, session'[t].request = "pending"
              PROVE  /\ session'[t].state # "none" /\ session'[t].attempted
                     /\ session'[t].resolve = "roots"
                     /\ explicit = None /\ default = None /\ engine.opening = None /\ Calm
            <4>1. session[t].request = "pending"
                BY <2>2, <3>2
            <4> QED
                BY <1>0, <2>2, <4>1, SMTT(30) DEF AskingIsAlone
        <3> QED
            BY <2>1, <3>1, <3>2 DEF AskingIsAlone
    <2>6. TriesOnce'
        BY <1>0, <2>1, <2>2 DEF TriesOnce
    <2>7. AnnouncedIsOpened'
        BY <1>0, <2>1, <2>2 DEF AnnouncedIsOpened, RootOf
    <2>8. Reachable' /\ GateIsHeld'
        BY <1>0, <2>1, InstancesUntouched
    <2> QED
        BY <2>3, <2>4, <2>5, <2>6, <2>7, <2>8 DEF ServerInv
<1> QED
    BY <1>1, <1>2, <1>3 DEF RootsAnswer

LEMMA DisconnectStep ==
    ASSUME ServerInv, TypeOK', NEW s \in Sessions, Disconnect(s)
    PROVE  ServerInv'
<1>0. /\ session \in [Sessions -> Session]
      /\ OpeningIsAlone /\ EngineIsFaithful /\ OneClientWhenDirect /\ AskingIsAlone
      /\ TriesOnce /\ Reachable /\ AnnouncedIsOpened /\ GateIsHeld
    BY TypeParts DEF ServerInv
<1>1. /\ session' = [session EXCEPT ![s].state = "gone"] /\ session[s].state = "ready"
      /\ UNCHANGED <<daemon, explicit, failures, inst, engine, default, gate, cache, pc, gatedOn>>
    BY DEF Disconnect, project, handler, calls
<1>2. \A t \in Sessions :
         /\ session'[t].state = "ready" => session[t].state = "ready"
         /\ session'[t].state = "none" <=> session[t].state = "none"
         /\ session'[t].resolve = session[t].resolve
         /\ session'[t].attempted = session[t].attempted
         /\ session'[t].announced = session[t].announced
         /\ session'[t].request = session[t].request
    BY <1>0, <1>1 DEF Session
<1>3. OpeningIsAlone' /\ EngineIsFaithful'
    BY <1>0, <1>1, <1>2 DEF OpeningIsAlone, EngineIsFaithful, Calm
<1>4. OneClientWhenDirect'
    BY <1>0, <1>1, <1>2 DEF OneClientWhenDirect
<1>5. AskingIsAlone'
    BY <1>0, <1>1, <1>2 DEF AskingIsAlone, Calm
<1>6. TriesOnce'
    BY <1>0, <1>1, <1>2 DEF TriesOnce
<1>7. AnnouncedIsOpened'
    BY <1>0, <1>1, <1>2 DEF AnnouncedIsOpened, RootOf
<1>8. Reachable' /\ GateIsHeld'
    BY <1>0, <1>1, InstancesUntouched
<1> QED
    BY <1>3, <1>4, <1>5, <1>6, <1>7, <1>8 DEF ServerInv

LEMMA OpenEndsStep ==
    ASSUME ServerInv, TypeOK', OpenEnds
    PROVE  ServerInv'
<1> DEFINE e == [engine EXCEPT !.opening = None, !.grammars = TRUE]
           W == {s \in Sessions : session[s].resolve = "init"}
<1>0. /\ TypeOK /\ OpeningIsAlone /\ EngineIsFaithful /\ OneClientWhenDirect /\ AskingIsAlone
      /\ Reachable /\ AnnouncedIsOpened /\ GateIsHeld
      /\ session \in [Sessions -> Session] /\ engine \in EngineState
      /\ failures \in 0 .. MaxFailures
    BY TypeParts DEF ServerInv, EngineType, ProjectType
<1>1. /\ engine.opening # None
      /\ Adopt(engine.opening, e) \/ OpenFails(e)
      /\ SettleAll(W)
      /\ UNCHANGED <<daemon, explicit, cache, gatedOn>>
    BY DEF OpenEnds, project, calls
<1>2. /\ default = None /\ engine.path # None /\ ~engine.closed
    BY <1>0, <1>1 DEF OpeningIsAlone, EngineIsFaithful
<1>3. /\ engine.opening \in Dirs /\ e \in EngineState
      /\ e.opening = None /\ ~e.closed /\ e.grammars /\ e.path = engine.path /\ e.cg = engine.cg
    BY <1>0, <1>1, <1>2 DEF EngineState
<1> HIDE DEF e
<1>4. \A m \in Messages :
         \/ pc'[m] = pc[m]
         \/ pc[m] \in {"resolving", "asked"} /\ pc'[m] \in {"retry", "fromCwd"}
    BY <1>0, <1>1, SettleAllFacts, WokenFacts
<1>5. \A s \in Sessions :
         /\ session'[s].state = session[s].state
         /\ session'[s].announced = session[s].announced
         /\ session'[s].request = session[s].request
    <2> HIDE DEF W
    <2>1. \A s \in Sessions :
             session'[s] = IF s \in W THEN [session[s] EXCEPT !.resolve = "none"] ELSE session[s]
        BY <1>0, <1>1, SettleAllFacts
    <2>2. ASSUME NEW s \in Sessions
          PROVE  /\ session'[s].state = session[s].state
                 /\ session'[s].announced = session[s].announced
                 /\ session'[s].request = session[s].request
        <3>1. session[s] \in Session
            BY <1>0
        <3>2. CASE s \in W
            BY <2>1, <3>1, <3>2 DEF Session
        <3>3. CASE s \notin W
            BY <2>1, <3>3
        <3> QED
            BY <3>2, <3>3
    <2> QED
        BY <2>2
<1>6. \A m \in Messages :
         pc'[m] = pc[m] \/ (gatedOn[m] = None /\ pc'[m] \notin {"gated", "serve"})
    BY <1>0, <1>4 DEF GateIsHeld
<1>7. AskingIsAlone'
    BY <1>0, <1>1, <1>5 DEF AskingIsAlone
<1>8. OneClientWhenDirect'
    <2>1. /\ \A s \in Sessions : session'[s].state = session[s].state
          /\ \A s \in Sessions : session'[s].announced = session[s].announced
        BY <1>5
    <2>2. ASSUME NEW m \in Messages, pc'[m] # "unsent" PROVE session'[m.session].state # "none"
        <3>1. pc[m] # "unsent"
            BY <1>4, <2>2
        <3> QED
            BY <1>0, <2>1, <3>1 DEF OneClientWhenDirect
    <2>3. explicit = None => \E s \in Sessions : session'[s].state # "none"
        BY <1>0, <1>1, <2>1 DEF OneClientWhenDirect
    <2> QED
        BY <1>0, <1>1, <2>1, <2>2, <2>3 DEF OneClientWhenDirect
<1>9. CASE Adopt(engine.opening, e)
    <2>1. /\ OpeningIsAlone' /\ EngineIsFaithful' /\ TriesOnce' /\ Reachable' /\ GateIsHeld'
          /\ default' # None /\ RootOf(default)' = engine.opening /\ failures' = failures
        BY <1>0, <1>1, <1>2, <1>3, <1>6, <1>9, AdoptStep
    <2>2. AnnouncedIsOpened'
        BY <1>0, <1>1, <1>2, <1>5, <2>1 DEF AnnouncedIsOpened
    <2> QED
        BY <1>7, <1>8, <2>1, <2>2 DEF ServerInv
<1>10. CASE OpenFails(e)
    <2>1. /\ inst' = inst /\ default' = default /\ gate' = gate /\ engine' = e
          /\ failures' = failures + 1
        BY <1>0, <1>3, <1>10, OpenFailsFacts
    <2>2. OpeningIsAlone' /\ EngineIsFaithful' /\ TriesOnce'
        BY <1>0, <1>1, <1>2, <1>3, <2>1 DEF OpeningIsAlone, EngineIsFaithful, TriesOnce
    <2>3. AnnouncedIsOpened'
        BY <1>0, <2>1 DEF AnnouncedIsOpened
    <2>4. Reachable' /\ GateIsHeld'
        BY <1>0, <1>1, <1>3, <1>6, <2>1, InstancesUntouched
    <2> QED
        BY <1>7, <1>8, <2>2, <2>3, <2>4 DEF ServerInv
<1> QED
    BY <1>1, <1>9, <1>10

LEMMA CatchUpStep ==
    ASSUME ServerInv, TypeOK', NEW i \in DOMAIN inst, CatchUpEnds(i)
    PROVE  ServerInv'
<1>0. /\ TypeOK /\ OpeningIsAlone /\ EngineIsFaithful /\ OneClientWhenDirect /\ AskingIsAlone
      /\ Reachable /\ AnnouncedIsOpened /\ GateIsHeld /\ pc \in [Messages -> States]
    BY TypeParts DEF ServerInv
<1>1. /\ Quiet /\ inst[i].catchUp = "running"
      /\ inst' = [inst EXCEPT ![i].catchUp = "done"]
      /\ pc' = [m \in Messages |-> IF pc[m] = "gated" /\ gatedOn[m] = i THEN "serve" ELSE pc[m]]
      /\ UNCHANGED <<daemon, explicit, failures, engine, default, gate, cache, session, gatedOn>>
    BY DEF CatchUpEnds, project, handler, calls
<1>2. i = default /\ default # None /\ ~engine.closed
    BY <1>0, <1>1, InstanceNumbers DEF EngineIsFaithful, Quiet
<1>3. engine.opening = None /\ \A s \in Sessions : session[s].request # "pending"
    BY <1>0, <1>2 DEF OpeningIsAlone, AskingIsAlone
<1>4. /\ DOMAIN inst' = DOMAIN inst /\ inst'[i].catchUp = "done"
      /\ \A j \in DOMAIN inst : inst'[j].root = inst[j].root /\ inst'[j].open = inst[j].open
                                /\ inst'[j].watched = inst[j].watched
      /\ \A j \in DOMAIN inst : j # i => inst'[j] = inst[j]
    BY <1>0, <1>1, InstanceNumbers DEF Instance
<1>5. \A m \in Messages :
         /\ pc'[m] = pc[m] \/ (pc[m] = "gated" /\ pc'[m] = "serve")
    BY <1>1
<1>6. OpeningIsAlone' /\ AskingIsAlone'
    BY <1>1, <1>3 DEF OpeningIsAlone, AskingIsAlone
<1>7. EngineIsFaithful'
    <2>1. \A j \in DOMAIN inst' : inst'[j].watched \/ inst'[j].catchUp = "running" => j = default
        BY <1>0, <1>2, <1>4 DEF EngineIsFaithful
    <2> QED
        BY <1>0, <1>1, <1>2, <2>1 DEF EngineIsFaithful
<1>8. OneClientWhenDirect'
    <2>1. \A m \in Messages : pc'[m] # "unsent" => pc[m] # "unsent"
        BY <1>5
    <2> QED
        BY <1>0, <1>1, <2>1 DEF OneClientWhenDirect
<1>9. TriesOnce'
    BY <1>1, <1>2 DEF TriesOnce
<1>10. Reachable'
    BY <1>0, <1>1, <1>4 DEF Reachable
<1>11. AnnouncedIsOpened'
    BY <1>0, <1>1, <1>2, <1>4 DEF AnnouncedIsOpened, RootOf
<1>12. GateIsHeld'
    BY <1>0, <1>1, <1>2, <1>4, <1>5 DEF GateIsHeld
<1> QED
    BY <1>6, <1>7, <1>8, <1>9, <1>10, <1>11, <1>12 DEF ServerInv

\* An answer keeps the instances within reach when it forgets no entry of
\* the cache and caches what it opens.
LEMMA InstancesStayReachable ==
    ASSUME Reachable, None \notin DOMAIN inst, engine' = engine,
           DOMAIN inst \subseteq DOMAIN inst',
           \A i \in DOMAIN inst : inst'[i] = inst[i],
           \A c \in Dirs : cache[c] # None => cache'[c] = cache[c],
           \A i \in DOMAIN inst' \ DOMAIN inst : \E c \in Dirs : cache'[c] = i
    PROVE  Reachable'
<1> SUFFICES ASSUME NEW i \in DOMAIN inst', inst'[i].open
             PROVE  i = engine'.cg \/ \E c \in Dirs : cache'[c] = i
    BY DEF Reachable
<1>1. CASE i \in DOMAIN inst
    <2>1. i = engine.cg \/ \E c \in Dirs : cache[c] = i
        BY <1>1 DEF Reachable
    <2>2. i # None
        BY <1>1
    <2>3. \A c \in Dirs : cache[c] = i => cache'[c] = i
        BY <2>2
    <2> QED
        BY <2>1, <2>3
<1>2. CASE i \notin DOMAIN inst
    BY <1>2
<1> QED
    BY <1>1, <1>2

LEMMA CallStep ==
    ASSUME ServerInv, TypeOK', NEW m \in Messages, List(m) \/ PassGate(m) \/ Serve(m)
    PROVE  ServerInv'
<1>0. /\ TypeOK /\ Reachable /\ GateIsHeld /\ pc \in [Messages -> States]
      /\ gatedOn \in [Messages -> Ids] /\ cache \in [Dirs -> Ids]
      /\ failures \in 0 .. MaxFailures /\ None \notin DOMAIN inst
    BY TypeParts, InstanceNumbers DEF ServerInv, CallType, ProjectType
<1>1. CASE List(m)
    <2>1. /\ pc[m] = "ready" /\ pc' = [pc EXCEPT ![m] = "answered"]
          /\ UNCHANGED <<daemon, explicit, failures, inst, engine, default, gate, cache, session, gatedOn>>
        BY <1>1 DEF List, project, handler, calls
    <2>2. (\A n \in Messages : n # m => pc'[n] = pc[n]) /\ pc'[m] = "answered"
        BY <1>0, <2>1
    <2>3. gatedOn[m] = None
        BY <1>0, <2>1 DEF GateIsHeld
    <2>4. /\ failures <= failures' /\ pc[m] \in Running
          /\ DOMAIN inst \subseteq DOMAIN inst' /\ DOMAIN inst' \ DOMAIN inst = {}
          /\ \A i \in DOMAIN inst : inst'[i] = inst[i]
        BY <1>0, <2>1 DEF Running
    <2>5. /\ OpeningIsAlone' /\ EngineIsFaithful' /\ OneClientWhenDirect' /\ AskingIsAlone'
          /\ TriesOnce' /\ AnnouncedIsOpened'
        BY <2>1, <2>2, <2>4, RunningGoesOn
    <2>6. Reachable' /\ GateIsHeld'
        BY <1>0, <2>1, <2>2, <2>3, InstancesUntouched
    <2> QED
        BY <2>5, <2>6 DEF ServerInv
<1>2. CASE PassGate(m)
    <2>1. /\ pc[m] = "ready" /\ gate # None /\ gate' = None
          /\ pc' = [pc EXCEPT ![m] = IF inst[gate].catchUp = "running" THEN "gated" ELSE "serve"]
          /\ gatedOn' = [gatedOn EXCEPT ![m] = gate]
          /\ UNCHANGED <<daemon, explicit, failures, inst, engine, default, cache, session>>
        BY <1>2 DEF PassGate, project
    <2>2. /\ \A n \in Messages : n # m => pc'[n] = pc[n] /\ gatedOn'[n] = gatedOn[n]
          /\ pc'[m] = IF inst[gate].catchUp = "running" THEN "gated" ELSE "serve"
          /\ gatedOn'[m] = gate
        BY <1>0, <2>1
    <2>3. gate = default
        BY <1>0, <2>1 DEF GateIsHeld
    <2>4. /\ failures <= failures' /\ pc[m] \in Running
          /\ DOMAIN inst \subseteq DOMAIN inst' /\ DOMAIN inst' \ DOMAIN inst = {}
          /\ \A i \in DOMAIN inst : inst'[i] = inst[i]
        BY <1>0, <2>1 DEF Running
    <2>5. /\ OpeningIsAlone' /\ EngineIsFaithful' /\ OneClientWhenDirect' /\ AskingIsAlone'
          /\ TriesOnce' /\ AnnouncedIsOpened'
        BY <2>1, <2>2, <2>4, RunningGoesOn
    <2>6. Reachable'
        BY <1>0, <2>1 DEF Reachable
    <2>7. GateIsHeld'
        BY <1>0, <2>1, <2>2, <2>3 DEF GateIsHeld
    <2> QED
        BY <2>5, <2>6, <2>7 DEF ServerInv
<1>3. CASE Serve(m)
    <2>1. /\ UNCHANGED <<daemon, explicit, indexed, engine, default, gate, session, gatedOn>>
          /\ pc[m] \in {"serve", "ready"} /\ failures <= failures'
          /\ \E x \in {"answered", "failed"} : pc' = [pc EXCEPT ![m] = x]
        BY <1>0, <1>3, ServeFacts
    <2>2. (\A n \in Messages : n # m => pc'[n] = pc[n]) /\ pc'[m] \in {"answered", "failed"}
        BY <1>0, <2>1
    <2>3. /\ \A i \in DOMAIN inst : inst'[i] = inst[i]
          /\ DOMAIN inst \subseteq DOMAIN inst'
          /\ \A i \in DOMAIN inst' \ DOMAIN inst : ~inst'[i].watched /\ inst'[i].catchUp = "never"
          /\ Reachable'
        <3>1. CASE ServesKnown(m)
            <4>1. inst' = inst
                BY <3>1 DEF ServesKnown
            <4>2. \A d \in Dirs : cache[d] # None => cache'[d] = cache[d]
                BY <1>0, <3>1 DEF ServesKnown
            <4>3. Reachable'
                BY <1>0, <2>1, <4>1, <4>2, InstancesStayReachable
            <4> QED
                BY <4>1, <4>3
        <3>2. CASE ServesOther(m)
            <4> DEFINE new == Len(inst) + 1
            <4>1. PICK d \in Dirs, r \in Dirs :
                     /\ cache[d] = None /\ cache[r] = None
                     /\ inst' = Append(inst, [root |-> r, open |-> TRUE, watched |-> FALSE, catchUp |-> "never"])
                     /\ cache' = [cache EXCEPT ![d] = new, ![r] = new]
                BY <3>2 DEF ServesOther
            <4> DEFINE x == [root |-> r, open |-> TRUE, watched |-> FALSE, catchUp |-> "never"]
            <4>2. x \in Instance
                BY DEF Instance
            <4>3. x.watched = FALSE /\ x.catchUp = "never"
                OBVIOUS
            <4> HIDE DEF x
            <4>4. inst' = Append(inst, x)
                BY <4>1 DEF x
            <4>5. /\ DOMAIN inst' = DOMAIN inst \cup {new} /\ inst'[new] = x
                  /\ \A i \in DOMAIN inst : inst'[i] = inst[i]
                BY <1>0, <4>2, <4>4, InstanceIsAdded
            <4> HIDE DEF new
            <4>6. /\ \A c \in Dirs : cache[c] # None => cache'[c] = cache[c]
                  /\ cache'[d] = new
                BY <1>0, <4>1
            <4>7. \A i \in DOMAIN inst' \ DOMAIN inst : \E c \in Dirs : cache'[c] = i
                BY <4>5, <4>6
            <4>8. Reachable'
                BY <1>0, <2>1, <4>5, <4>6, <4>7, InstancesStayReachable
            <4> QED
                BY <4>3, <4>5, <4>8
        <3> QED
            BY <1>0, <1>3, <3>1, <3>2, ServeFacts
    <2>4. /\ OpeningIsAlone' /\ EngineIsFaithful' /\ OneClientWhenDirect' /\ AskingIsAlone'
          /\ TriesOnce' /\ AnnouncedIsOpened'
        <3>1. pc[m] \in Running /\ pc'[m] # "unsent"
            BY <2>1, <2>2 DEF Running
        <3> QED
            BY <2>1, <2>2, <2>3, <3>1, RunningGoesOn
    <2>5. GateIsHeld'
        <3>1. default # None => inst'[default] = inst[default]
            BY <1>0, <2>3, TypeParts DEF EngineType, Ids
        <3>2. \A n \in Messages :
                 pc'[n] = pc[n] \/ (pc[n] \in {"serve", "ready"} /\ pc'[n] \in {"answered", "failed"})
            BY <2>1, <2>2
        <3>3. \A n \in Messages : gatedOn[n] # None => gatedOn[n] = default
            BY <1>0 DEF GateIsHeld
        <3> QED
            BY <1>0, <2>1, <3>1, <3>2, <3>3 DEF GateIsHeld
    <2> QED
        BY <2>3, <2>4, <2>5 DEF ServerInv
<1> QED
    BY <1>1, <1>2, <1>3

LEMMA StopStep ==
    ASSUME ServerInv, TypeOK', Stop
    PROVE  ServerInv'
<1>0. /\ TypeOK /\ OpeningIsAlone /\ EngineIsFaithful /\ OneClientWhenDirect /\ AskingIsAlone
      /\ Reachable /\ AnnouncedIsOpened /\ GateIsHeld /\ engine \in EngineState
    BY TypeParts DEF ServerInv, EngineType
<1>1. /\ Quiet /\ engine' = [engine EXCEPT !.closed = TRUE, !.cg = None, !.opening = None]
      /\ inst' = [i \in DOMAIN inst |->
                     IF i = engine.cg \/ \E d \in Dirs : cache[d] = i
                     THEN [inst[i] EXCEPT !.open = FALSE] ELSE inst[i]]
      /\ UNCHANGED <<daemon, explicit, failures, default, gate, session, pc, gatedOn>>
    BY DEF Stop, project, calls
<1>2. engine'.closed /\ engine'.opening = None /\ ~engine.closed
    BY <1>0, <1>1 DEF EngineState, Quiet
<1>3. Calm /\ Calm'
    BY <1>1 DEF Quiet, Calm
<1>4. /\ DOMAIN inst' = DOMAIN inst
      /\ \A i \in DOMAIN inst :
            /\ inst'[i].root = inst[i].root /\ inst'[i].watched = inst[i].watched
            /\ inst'[i].catchUp = inst[i].catchUp
    BY <1>0, <1>1, InstanceNumbers DEF Instance
<1>5. \A i \in DOMAIN inst : ~inst'[i].open
    <2> SUFFICES ASSUME NEW i \in DOMAIN inst PROVE ~inst'[i].open
        OBVIOUS
    <2>1. CASE i = engine.cg \/ \E d \in Dirs : cache[d] = i
        <3>1. inst[i] \in Instance /\ inst'[i] = [inst[i] EXCEPT !.open = FALSE]
            BY <1>0, <1>1, <2>1, InstanceNumbers
        <3> QED
            BY <3>1 DEF Instance
    <2>2. CASE ~(i = engine.cg \/ \E d \in Dirs : cache[d] = i)
        BY <1>0, <1>1, <2>2 DEF Reachable
    <2> QED
        BY <2>1, <2>2
<1>6. OpeningIsAlone' /\ TriesOnce' /\ Reachable'
    BY <1>2, <1>3, <1>4, <1>5 DEF OpeningIsAlone, TriesOnce, Reachable, Calm
<1>7. EngineIsFaithful'
    BY <1>0, <1>1, <1>2, <1>3, <1>4 DEF EngineIsFaithful
<1>8. OneClientWhenDirect'
    BY <1>0, <1>1, <1>2 DEF OneClientWhenDirect
<1>9. AskingIsAlone'
    BY <1>0, <1>1, <1>2, <1>3 DEF AskingIsAlone
<1>10. AnnouncedIsOpened'
    <2>1. engine.opening # None => default = None
        BY <1>0 DEF OpeningIsAlone
    <2>2. default # None => RootOf(default)' = RootOf(default)
        BY <1>0, <1>1, <1>4 DEF TypeOK, RootOf
    <2> QED
        BY <1>0, <1>1, <1>2, <2>1, <2>2 DEF AnnouncedIsOpened
<1>11. GateIsHeld'
    <2>1. default # None => inst'[default].catchUp = inst[default].catchUp
        BY <1>0, <1>4, TypeParts DEF EngineType, Ids
    <2> QED
        BY <1>0, <1>1, <2>1 DEF GateIsHeld
<1> QED
    BY <1>6, <1>7, <1>8, <1>9, <1>10, <1>11 DEF ServerInv
-----------------------------------------------------------------------------
\* The invariant is about none of what is left alone here: a directory that
\* is initialized, and a step that changes nothing.
LEMMA ServerInvStays ==
    ASSUME ServerInv, TypeOK',
           UNCHANGED <<daemon, explicit, failures, inst, engine, default, gate, cache,
                       session, pc, gatedOn>>
    PROVE  ServerInv'
<1>0. /\ OpeningIsAlone /\ EngineIsFaithful /\ OneClientWhenDirect /\ AskingIsAlone
      /\ TriesOnce /\ Reachable /\ AnnouncedIsOpened /\ GateIsHeld
    BY DEF ServerInv
<1>1. OpeningIsAlone' /\ EngineIsFaithful'
    BY <1>0 DEF OpeningIsAlone, EngineIsFaithful, Calm
<1>2. OneClientWhenDirect' /\ AskingIsAlone'
    BY <1>0 DEF OneClientWhenDirect, AskingIsAlone, Calm
<1>3. TriesOnce' /\ AnnouncedIsOpened'
    BY <1>0 DEF TriesOnce, AnnouncedIsOpened, RootOf
<1>4. Reachable' /\ GateIsHeld'
    BY <1>0, InstancesUntouched
<1> QED
    BY <1>1, <1>2, <1>3, <1>4 DEF ServerInv

(* No step breaks the invariant, if a client initializes before it asks. *)
LEMMA ServerInvIsKept ==
    ASSUME Disciplined, ServerInv, [Next]_vars
    PROVE  ServerInv'
<1>0. TypeOK'
    BY TypeIsKept DEF ServerInv
<1>1. CASE UNCHANGED vars
    BY <1>0, <1>1, ServerInvStays DEF vars
<1>2. ASSUME NEW d \in Dirs, InitProject(d) PROVE ServerInv'
    BY <1>0, <1>2, ServerInvStays DEF InitProject, handler, calls
<1>3. ASSUME NEW s \in Sessions, NEW d \in Dirs \cup {None}, NEW b \in BOOLEAN,
             Initialize(s, d, b)
      PROVE  ServerInv'
    BY <1>0, <1>3, InitializeStep
<1>4. ASSUME NEW s \in Sessions,
             \/ \E d \in Dirs : RootsAnswer(s, d)
             \/ \E x \in {"settled", "expired"} : RootsMissing(s, x)
      PROVE  ServerInv'
    BY <1>0, <1>4, RootsStep
<1>5. ASSUME NEW s \in Sessions, Disconnect(s) PROVE ServerInv'
    BY <1>0, <1>5, DisconnectStep
<1>6. ASSUME NEW m \in Messages, Receive(m) PROVE ServerInv'
    BY <1>0, <1>6, ReceiveStep
<1>7. ASSUME NEW m \in Messages, Handle(m) PROVE ServerInv'
    BY <1>0, <1>7, RetryStep, LastResortStep, CallStep DEF Handle
<1>8. CASE OpenEnds
    BY <1>0, <1>8, OpenEndsStep
<1>9. ASSUME NEW i \in DOMAIN inst, CatchUpEnds(i) PROVE ServerInv'
    BY <1>0, <1>9, CatchUpStep
<1>10. CASE Stop
    BY <1>0, <1>10, StopStep
<1> QED
    BY <1>1, <1>2, <1>3, <1>4, <1>5, <1>6, <1>7, <1>8, <1>9, <1>10 DEF Next, RootsSettle

LEMMA ServerInvIsInvariant ==
    ASSUME Disciplined
    PROVE  Spec => []ServerInv
<1>1. ServerInv /\ [Next]_vars => ServerInv'
    BY ServerInvIsKept
<1> QED
    BY <1>1, InitServerInv, PTL DEF Spec

(* Whatever clients do, and in whatever order, the state of the server     *)
(* stays what engine.ts, session.ts and tools.ts declare: an engine, a     *)
(* handler, the cache and the calls only name instances that were opened.  *)
THEOREM ServerKeepsItsTypes == Spec => []TypeOK
<1>1. Init => TypeOK
    BY InitServerInv DEF ServerInv
<1> QED
    BY <1>1, TypeIsKept, PTL DEF Spec

(* With clients that initialize first, every open instance is the engine's *)
(* or in the cache of the handler, so MCPEngine.stop closes them all: the  *)
(* engine never replaces a project it has (engine.ts, doInitialize and     *)
(* retryInitializeSync) and getCodeGraph caches what it opens.             *)
THEOREM ServerClosesWhatItOpens ==
    ASSUME Disciplined
    PROVE  Spec => []NothingLeaks
<1>1. ServerInv => NothingLeaks
    BY DEF ServerInv, Reachable, NothingLeaks
<1> QED
    BY <1>1, ServerInvIsInvariant, PTL

(* Unless an attempt to open it failed, the root a client announced is the *)
(* project of the server: what is being opened was announced by somebody,  *)
(* and while a client is asked for its roots nothing else is opened        *)
(* (session.ts, handleInitialize, retryInitIfNeeded and initFromRoots).    *)
THEOREM AnnouncedRootIsServed ==
    ASSUME Disciplined
    PROVE  Spec => []AnnouncedRootWins
<1>1. ASSUME ServerInv PROVE AnnouncedRootWins
    <2>1. OpeningIsAlone /\ AnnouncedIsOpened
        BY <1>1 DEF ServerInv
    <2>2. engine.opening # None => default = None
        BY <2>1 DEF OpeningIsAlone
    <2> QED
        BY <2>1, <2>2 DEF AnnouncedIsOpened, AnnouncedRootWins
<1> QED
    BY <1>1, ServerInvIsInvariant, PTL

-----------------------------------------------------------------------------
\* Only a call that is served is answered.
LEMMA OnlyServeAnswers ==
    ASSUME TypeOK, [Next]_vars, NEW m \in Messages, answer'[m] # answer[m]
    PROVE  Serve(m)
<1>1. answer' # answer
    OBVIOUS
<1>2. PICK n \in Messages : Serve(n)
    <2>1. ASSUME NEW n \in Messages, Receive(n) \/ Retry(n) \/ LastResort(n) \/ List(n) \/ PassGate(n)
          PROVE  answer' = answer
        BY <2>1 DEF Receive, Retry, LastResort, List, PassGate, calls
    <2>2. ASSUME NEW s \in Sessions
          PROVE  /\ \A d \in Dirs \cup {None}, b \in BOOLEAN : ~Initialize(s, d, b)
                 /\ \A d \in Dirs : ~RootsAnswer(s, d)
                 /\ ~RootsMissing(s, "settled") /\ ~RootsSettle(s) /\ ~Disconnect(s)
        BY <1>1, <2>2 DEF Initialize, RootsAnswer, RootsMissing, RootsSettle, FromRoots, Disconnect, calls
    <2>3. ~OpenEnds /\ ~Stop /\ \A d \in Dirs : ~InitProject(d)
        BY <1>1 DEF OpenEnds, Stop, InitProject, calls
    <2>4. \A i \in DOMAIN inst : ~CatchUpEnds(i)
        BY <1>1 DEF CatchUpEnds, calls
    <2>5. ~UNCHANGED vars
        BY <1>1 DEF vars
    <2> QED
        BY <1>1, <2>1, <2>2, <2>3, <2>4, <2>5 DEF Next, Handle
<1>3. answer \in [Messages -> [from : Ids, notice : Ids]]
    BY TypeParts DEF CallType
<1>4. n # m => answer'[m] = answer[m]
    <2>1. ServesKnown(n) \/ ServesOther(n)
        BY <1>2, ServeFacts
    <2>2. answer' = answer \/ \E x : answer' = [answer EXCEPT ![n] = x]
        BY <2>1 DEF ServesKnown, ServesOther
    <2> QED
        BY <1>3, <2>2
<1> QED
    BY <1>2, <1>4

\* Who answers is an instance that is known, and its pending files are those
\* of the default project if it has the same root; or it was opened for the
\* call, and the default project is another one.
LEMMA AnswerFacts ==
    ASSUME TypeOK, NEW m \in Messages, Serve(m), answer'[m] # answer[m]
    PROVE  \/ /\ inst' = inst /\ answer'[m].from \in DOMAIN inst
              /\ answer'[m].notice = NoticeFrom(answer'[m].from)
           \/ /\ answer'[m].from = Len(inst) + 1
              /\ ~IsDefault(inst'[Len(inst) + 1].root)
<1>1. answer \in [Messages -> [from : Ids, notice : Ids]]
    BY TypeParts DEF CallType
<1>2. CASE ServesKnown(m)
    <2>1. inst' = inst
        BY <1>2 DEF ServesKnown
    <2>2. PICK i \in DOMAIN inst :
             answer' = [answer EXCEPT ![m] = [from |-> i, notice |-> NoticeFrom(i)]]
        BY <1>2 DEF ServesKnown
    <2>3. answer'[m] = [from |-> i, notice |-> NoticeFrom(i)]
        BY <1>1, <2>2
    <2>4. answer'[m].from = i /\ answer'[m].notice = NoticeFrom(i)
        BY <2>3
    <2> QED
        BY <2>1, <2>4
<1>3. CASE ServesOther(m)
    <2>1. PICK d \in Dirs, r \in Dirs :
             /\ ~IsDefault(r)
             /\ inst' = Append(inst, [root |-> r, open |-> TRUE, watched |-> FALSE, catchUp |-> "never"])
             /\ answer' = [answer EXCEPT ![m] = [from |-> Len(inst) + 1, notice |-> Len(inst) + 1]]
        BY <1>3 DEF ServesOther
    <2>2. answer'[m].from = Len(inst) + 1
        BY <1>1, <2>1
    <2> DEFINE x == [root |-> r, open |-> TRUE, watched |-> FALSE, catchUp |-> "never"]
    <2>3. x \in Instance /\ x.root = r
        BY DEF Instance
    <2> HIDE DEF x
    <2>4. inst' = Append(inst, x)
        BY <2>1 DEF x
    <2>5. inst'[Len(inst) + 1].root = r
        BY <2>3, <2>4, InstanceIsAdded, TypeParts
    <2> QED
        BY <2>1, <2>2, <2>5
<1> QED
    BY <1>2, <1>3, ServeFacts

(* An answer knows its age, if clients initialize first.  The watcher is   *)
(* on the default instance only, so an instance of the same root asks that *)
(* one for its pending files, and one opened for a call is of another root *)
(* (tools.ts, withStalenessNotice and getCodeGraph).  An answer comes from *)
(* a default instance that still catches up only if another call took the  *)
(* gate, and that call waits (tools.ts, execute).                          *)
THEOREM AnswersStayHonest ==
    ASSUME Disciplined
    PROVE  Spec => AnswersKnowTheirAge
<1>1. ASSUME ServerInv, [Next]_vars, NEW m \in Messages, answer'[m] # answer[m],
             NEW i \in DOMAIN inst, inst[i].watched, RootOf(i) = inst'[answer'[m].from].root
      PROVE  answer'[m].notice = i
    <2>1. TypeOK /\ EngineIsFaithful /\ Serve(m)
        BY <1>1, OnlyServeAnswers DEF ServerInv
    <2>2. i = default /\ default # None
        BY <1>1, <2>1, InstanceNumbers DEF EngineIsFaithful
    <2>3. CASE /\ inst' = inst /\ answer'[m].from \in DOMAIN inst
               /\ answer'[m].notice = NoticeFrom(answer'[m].from)
        <3>1. IsDefault(RootOf(answer'[m].from))
            BY <1>1, <2>2, <2>3 DEF IsDefault, RootOf
        <3> QED
            BY <2>2, <2>3, <3>1 DEF NoticeFrom
    <2>4. CASE /\ answer'[m].from = Len(inst) + 1
               /\ ~IsDefault(inst'[Len(inst) + 1].root)
        BY <1>1, <2>2, <2>4 DEF IsDefault
    <2> QED
        BY <1>1, <2>1, <2>3, <2>4, AnswerFacts
<1>2. ASSUME ServerInv, [Next]_vars, NEW m \in Messages, answer'[m] # answer[m],
             answer'[m].from = default, inst[default].catchUp = "running"
      PROVE  \E first \in Messages \ {m} : gatedOn[first] = default
    <2>1. TypeOK /\ GateIsHeld /\ Serve(m)
        BY <1>2, OnlyServeAnswers DEF ServerInv
    <2>2. default # None
        <3>1. answer'[m].from \in DOMAIN inst \/ answer'[m].from = Len(inst) + 1
            BY <1>2, <2>1, AnswerFacts
        <3> QED
            BY <1>2, <2>1, <3>1, InstanceNumbers
    <2>3. pc[m] = "ready" /\ gate = None
        BY <1>2, <2>1, ServeFacts DEF GateIsHeld
    <2>4. PICK first \in Messages : gatedOn[first] = default
        BY <2>1, <2>2, <2>3 DEF GateIsHeld
    <2>5. first # m
        BY <2>1, <2>2, <2>3, <2>4 DEF GateIsHeld
    <2> QED
        BY <2>4, <2>5
<1>3. ServerInv /\ [Next]_vars =>
         [\A m \in Messages :
             LET a == answer'[m]
             IN  a # answer[m] =>
                   \A i \in DOMAIN inst : inst[i].watched /\ RootOf(i) = inst'[a.from].root
                                             => a.notice = i]_vars
    BY <1>1
<1>4. ServerInv /\ [Next]_vars =>
         [\A m \in Messages :
             LET i == answer'[m].from
             IN  answer'[m] # answer[m] /\ i = default /\ inst[i].catchUp = "running"
                   => \E first \in Messages \ {m} : gatedOn[first] = i]_vars
    BY <1>2, SMTT(30)
<1>5. Spec => NoticeKnowsTheWatcher
    BY <1>3, ServerInvIsInvariant, PTL DEF Spec, NoticeKnowsTheWatcher
<1>6. Spec => OnlyFollowersSkipTheGate
    BY <1>4, ServerInvIsInvariant, PTL DEF Spec, OnlyFollowersSkipTheGate
<1> QED
    BY <1>5, <1>6 DEF AnswersKnowTheirAge
=============================================================================
