--------------------------- MODULE MCToolAnswers ---------------------------
(* Four indexes: four nodes as two files of which one has a class with a   *)
(* method, the same nodes as four files, four functions in two files, and  *)
(* three types of which two have a method.  The first two hold containment *)
(* and imports, the third calls, the last inheritance and containment.     *)
EXTENDS Exploration

CONSTANTS n1, n2, class, method, f1, f2, f3, f4, A, B, C, run,
          cli, lib, play, runs, any

FourNodes == {n1, n2, class, method}
Calling   == {f1, f2, f3, f4}
Family    == {A, B, C, run}
AllSymbols == FourNodes \cup Calling \cup Family

TwoFiles  == [n \in FourNodes |-> IF n = n2 THEN n2 ELSE n1]
FourFiles == [n \in FourNodes |-> n]
Calls     == [n \in Calling |-> IF n \in {f1, f2} THEN cli ELSE lib]
Hierarchy == [n \in Family |-> IF n = C THEN lib ELSE cli]

AllLayouts == {TwoFiles, FourFiles, Calls, Hierarchy}

Order == (n1 :> 1) @@ (class :> 2) @@ (n2 :> 3) @@ (method :> 4)
         @@ (f1 :> 1) @@ (f2 :> 2) @@ (f3 :> 3) @@ (f4 :> 4)
         @@ (A :> 1) @@ (B :> 2) @@ (C :> 3) @@ (run :> 4)

(* Calls and inheritance are stored once, in the order of their ends, and  *)
(* no function calls itself.                                               *)
Proper(x) ==
    IF Nodes = FourNodes THEN x.kind \in {"contains", "imports"}
    ELSE /\ x.source # x.target
         /\ IF Nodes = Calling THEN x.kind = "calls"
            ELSE IF x.target = run THEN x.kind = "contains" /\ x.source # C
            ELSE x.kind = "extends" /\ x.source # run
         /\ edges # <<>> => \/ Order[Last(edges).source] < Order[x.source]
                            \/ /\ Last(edges).source = x.source
                               /\ Order[Last(edges).target] < Order[x.target]

(* Edges are inserted until somebody asks; the answers are those of the    *)
(* index as it then stands, and the properties speak of that step.         *)
VARIABLE asked
mcvars == <<vars, asked>>

MCInit == Init /\ asked = FALSE
More   == ~asked /\ (\E x \in Edge : Proper(x) /\ Insert(x)) /\ UNCHANGED asked
Ask    == ~asked /\ asked' = TRUE /\ UNCHANGED vars
MCSpec == MCInit /\ [][More \/ Ask]_mcvars

(* What the traversals return is exact: nearest first, reachable, minimal, *)
(* and complete as far as their marking lets them be.                      *)
TraversalsAreExact == [][Ask => TraversalsHold]_mcvars

-----------------------------------------------------------------------------
(* "runs" is a name that three symbols have, "play" one that only a near   *)
(* miss answers, "any" one all functions share; cli::runs is qualified.    *)
MCHits     == [n \in {cli, lib, play, runs, any} |->
                 CASE n = runs -> <<f2, f4, f3>> [] n = play -> <<f4>> [] n = cli -> <<f1>>
                   [] n = lib  -> <<f4>>    [] n = any  -> <<f1, f2, f3, f4>>]
MCExact    == {<<runs, f2>>, <<runs, f3>>, <<runs, f4>>, <<cli, f1>>}
                \cup {<<any, n>> : n \in Calling}
MCOwner    == [n \in AllSymbols |-> IF n \in {f1, f2} THEN cli ELSE IF n = f4 THEN play ELSE None]
MCSegments == [n \in {cli, lib, play, runs, any} |-> {n}]
MCShared   == [p \in {cli, lib} \X {cli, lib} |-> IF p[1] = p[2] THEN 6 ELSE 3]

Place(first, last, calls) == [first |-> first, last |-> last, calls |-> calls]
Placed == [n \in AllSymbols |->
             CASE n = f1 -> Place(5, 20, 12)   [] n = f2 -> Place(40, 110, 45)
               [] n = f3 -> Place(80, 110, 105) [] n = f4 -> Place(118, 125, 120)
               [] n = A -> Place(1, 100, 1)   [] n = B -> Place(110, 140, 110)
               [] n = C -> Place(10, 30, 10)  [] n = run -> Place(40, 50, 45)
               [] OTHER -> Place(1, 2, 2)]
MCStart    == [n \in AllSymbols |-> Placed[n].first]
MCEnd      == [n \in AllSymbols |-> Placed[n].last]
MCCall     == [n \in AllSymbols |-> Placed[n].calls]
MCFiles    == FourNodes \cup {cli, lib}
MCLines    == [x \in MCFiles |-> CASE x = cli -> 250 [] x = lib -> 150 [] OTHER -> 2]
-----------------------------------------------------------------------------
Queries == {<<runs, cli>>, <<lib, runs, cli>>, <<any, cli>>, <<play, cli>>}

(* What searches may return for the functions of an index: one of them, or *)
(* two.                                                                    *)
Searches == {<<n>> : n \in Nodes} \cup {<<n, m>> : <<n, m>> \in {<<x, y>> \in Nodes \X Nodes : Order[x] < Order[y]}}
Triples  == {<<x[1], x[2], x[3]>> : x \in {y \in [1..3 -> Nodes] : Cardinality(ToSet(y)) = 3}}
Small    == [searchLimit |-> 2, depth |-> 2, maxNodes |-> 3, maxPerFile |-> 2, maxNonProd |-> 1,
             aboutTests |-> FALSE]

ToolGraph == Nodes # FourNodes

ToolsAgree ==
    Nodes = Calling => \A x \in Names : NeighboursHold(x)
TraceIsTheShortestCallPath ==
    Nodes = Calling => \A x, y \in {runs, lib, cli} : TraceHolds(x, y)
FlowJoinsNamedFunctions ==
    Nodes = Calling => \A q \in Queries : FlowHolds(q)
FlowIsTheLongestChain ==
    Nodes = Calling => \A q \in Queries : LongestFlow(q)
ContextIsBounded ==
    [][Ask /\ ToolGraph => \A s \in Searches : ContextHolds(s, Small)]_mcvars
CallPathsAreAnchored ==
    Nodes = Calling => \A s \in Triples : CallPathsHold(FindRelevantContext(s, ExploreOptions))

(* What a tool prints of calls is in the graph: tools agree about who      *)
(* calls whom, a trace is the shortest between the nearest namesakes, a    *)
(* flow joins symbols that were named, and the paths of a context lead     *)
(* from one of its entry points.                                           *)
CallPathsAreTrue ==
    [][Ask => /\ ToolsAgree /\ TraceIsTheShortestCallPath
              /\ FlowJoinsNamedFunctions /\ CallPathsAreAnchored]_mcvars

Explorations == {HandleExplore(s, {}, gone, 1000) : s \in Searches, gone \in {{}, {cli}}}
ExplorationsHold ==
    [][Ask /\ ToolGraph => \A s \in Searches, n \in {100, 1000} :
          LET x == HandleExplore(s, {}, {}, n)
          IN  WithinBudget(x, Budget(n)) /\ ShowsWhatWasAskedFor(x)]_mcvars
CompleteSourceIsComplete == Nodes = Calling => \A x \in Explorations : CompleteIsComplete(x)
NotShownIsNotShown       == Nodes = Calling => \A x \in Explorations : ListedIsNotShown(x)
=============================================================================
