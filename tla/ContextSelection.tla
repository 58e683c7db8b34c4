-------------------------- MODULE ContextSelection --------------------------
(***************************************************************************)
(* How a query becomes a subgraph: findRelevantContext of                  *)
(* src/src/context/index.ts from the moment at which its searches have     *)
(* ranked the nodes that match, and the call paths buildContext prints.    *)
(***************************************************************************)
EXTENDS GraphTraversal

CONSTANTS
    Types,          \* symbols of the kinds in typeHierarchyKinds
    Importing,      \* import and export nodes
    Functions,      \* functions and methods
    TestFiles,      \* files isTestFile is true of
    PathHops,       \* MAX_HOPS of buildCallPathsSection
    KeptPaths       \* how many paths it prints

ASSUME ContextSelectionAssumption ==
    /\ Types \cup Importing \cup Functions \subseteq Symbols
    /\ PathHops \in Nat \ {0} /\ KeptPaths \in Nat \ {0}

(* The options o of a query are its searchLimit, depth and maxNodes, the   *)
(* caps maxPerFile and maxNonProd (at least 5 and 3 in the code, otherwise *)
(* shares of maxNodes) and whether it is aboutTests.                       *)
Without(seq, S)   == SelectSeq(seq, LAMBDA x : x \notin S)
FirstOf(seq, n)   == SubSeq(seq, 1, IF Len(seq) < n THEN Len(seq) ELSE n)
LargerOf(a, b)    == IF a < b THEN b ELSE a
CeilDiv(a, b)     == (a + b - 1) \div b
EdgesAmong(es, S) == SelectSeq(es, LAMBDA e : e.source \in S /\ e.target \in S)

(* Array.sort: stable, with the greatest key first.                        *)
ByKeyDescending(seq, Key(_)) ==
    LET keys == SetToSortSeq({Key(seq[i]) : i \in DOMAIN seq}, LAMBDA a, b : a > b)
    IN  FlattenSeq([k \in DOMAIN keys |-> SelectSeq(seq, LAMBDA x : Key(x) = keys[k])])
-----------------------------------------------------------------------------
(* resolveImportsToDefinitions: an import stands for what it imports.      *)
Definitions(n) ==
    IF n \notin Importing THEN <<n>>
    ELSE LET es == Outgoing(n, {"imports", "exports"}) IN [i \in DOMAIN es |-> es[i].target]

ResolveImportsToDefinitions(found) ==
    AddAll(<<>>, FlattenSeq([i \in DOMAIN found |-> Definitions(found[i])]))

Roots(found, o) == FirstOf(ResolveImportsToDefinitions(found), o.searchLimit)
-----------------------------------------------------------------------------
(* The type hierarchy of one candidate joins the subgraph: unless the      *)
(* quota is used up, all of it in the first pass, and what still fits in   *)
(* the second.                                                             *)
AddHierarchy(g, n, quota, second) ==
    LET family == GetTypeHierarchy(n)
        new    == Without(family.nodes, ToSet(g.nodes))
        some   == IF second THEN FirstOf(new, quota - g.added) ELSE new
        nodes  == g.nodes \o some
    IN  IF g.added >= quota \/ n \notin Types THEN g
        ELSE [nodes |-> nodes, added |-> g.added + Len(some),
              edges |-> AddAll(g.edges, IF second THEN EdgesAmong(family.edges, ToSet(nodes))
                                      ELSE family.edges)]

Hierarchies(roots, o) ==
    LET quota == CeilDiv(o.maxNodes, 4)
        one   == FoldLeft(LAMBDA g, n : AddHierarchy(g, n, quota, FALSE),
                          [nodes |-> roots, edges |-> <<>>, added |-> 0], roots)
    IN  IF one.added = 0 THEN one
        ELSE FoldLeft(LAMBDA g, n : AddHierarchy(g, n, quota, TRUE),
                      one, Without(one.nodes, ToSet(roots)))

(* The nodes an entry point's traversal may find.                          *)
Share(roots, o) == CeilDiv(o.maxNodes, LargerOf(1, Len(roots)))

Traversals(g, roots, o) ==
    FoldLeft(LAMBDA acc, n :
               LET found == TraverseBFS(n, "both", o.depth, Share(roots, o))
               IN  [acc EXCEPT !.nodes = AddAll(@, found.nodes),
                               !.edges = AddAll(@, found.edges)],
             g, roots)
-----------------------------------------------------------------------------
(* The ends of edges at entry points, and of edges at those seen so far.   *)
Priority(g, roots) ==
    FoldLeft(LAMBDA acc, e :
               LET out == IF e.source \in ToSet(acc) THEN AddAll(acc, <<e.target>>) ELSE acc
               IN  IF e.target \in ToSet(out) THEN AddAll(out, <<e.source>>) ELSE out,
             roots, g.edges)

(* Mutation: what was found first is kept, entry point or not.             *)
TrimInOrder(g, roots, o) ==
    LET kept == FirstOf(Reverse(g.nodes), o.maxNodes)
    IN  IF Len(g.nodes) <= o.maxNodes THEN g
        ELSE [g EXCEPT !.nodes = kept, !.edges = EdgesAmong(@, ToSet(kept))]

Trim(g, roots, o) ==
    LET first == SelectSeq(Priority(g, roots), LAMBDA n : n \in ToSet(g.nodes))
        kept  == FirstOf(AddAll(first, g.nodes), o.maxNodes)
    IN  IF Len(g.nodes) <= o.maxNodes THEN g
        ELSE [g EXCEPT !.nodes = kept, !.edges = EdgesAmong(@, ToSet(kept))]

(* kindPriority, with the bonus of an entry point.                         *)
Importance(n, roots) ==
    (IF n \in ToSet(roots) THEN 10 ELSE 0) +
    (IF n \in Types THEN 3 ELSE IF n \in Functions THEN 1 ELSE 0)

OverFile(nodes, roots, o) ==
    UNION {LET own == SelectSeq(nodes, LAMBDA n : fileOf[n] = f)
               ids == IF Len(own) <= o.maxPerFile THEN own
                      ELSE ByKeyDescending(own, LAMBDA n : Importance(n, roots))
           IN  ToSet(ids) \ ToSet(FirstOf(ids, o.maxPerFile)) : f \in Files}

OverTests(nodes, o) ==
    LET tests == SelectSeq(nodes, LAMBDA n : fileOf[n] \in TestFiles)
    IN  IF o.aboutTests THEN {} ELSE ToSet(tests) \ ToSet(FirstOf(tests, o.maxNonProd))

(* The rows findEdgesBetweenNodes returns.                                 *)
Recovered(S) ==
    EdgesAmong(SelectSeq(edges, LAMBDA e :
                           e.kind \in {"calls", "extends", "implements", "references", "overrides"}),
               S)

(* Mutation: the subgraph keeps the edges it had before the caps.          *)
CapEarly(g, roots, o) ==
    LET few     == Without(g.nodes, OverFile(g.nodes, roots, o))
        evicted == OverTests(few, o)
        kept    == Without(few, evicted)
    IN  [nodes |-> kept, roots |-> Without(roots, evicted),
         edges |-> AddAll(g.edges, Recovered(ToSet(kept)))]

(* The caps on files and tests, and the edges among what is left.          *)
Cap(g, roots, o) ==
    LET few     == Without(g.nodes, OverFile(g.nodes, roots, o))
        evicted == OverTests(few, o)
        kept    == Without(few, evicted)
    IN  [nodes |-> kept, roots |-> Without(roots, evicted),
         edges |-> AddAll(EdgesAmong(g.edges, ToSet(kept)), Recovered(ToSet(kept)))]

FindRelevantContext(found, o) ==
    LET roots == Roots(found, o)
    IN  Cap(Trim(Traversals(Hierarchies(roots, o), roots, o), roots, o), roots, o)
-----------------------------------------------------------------------------
CalledIn(g, n) ==
    LET es == SelectSeq(EdgesAmong(g.edges, ToSet(g.nodes)),
                        LAMBDA e : e.kind = "calls" /\ e.source = n)
    IN  [i \in DOMAIN es |-> es[i].target]

(* The chains dfs collects from the end of a path on.                      *)
RECURSIVE ChainsFrom(_, _)
ChainsFrom(g, path) ==
    LET next == Without(CalledIn(g, Last(path)), ToSet(path))
    IN  IF next = <<>> \/ Len(path) >= PathHops
        THEN IF Len(path) >= 3 THEN <<path>> ELSE <<>>
        ELSE FlattenSeq([i \in DOMAIN next |-> ChainsFrom(g, Append(path, next[i]))])

RootsOn(g, path) == Cardinality({i \in DOMAIN path : path[i] \in ToSet(g.roots)})

IsPartOf(part, path) ==
    \E i \in 0..(Len(path) - Len(part)) : SubSeq(path, i + 1, i + Len(part)) = part

(* Mutation: the chains are taken as they were found.                      *)
RankedAsFound(g, chains) == SelectSeq(chains, LAMBDA c : RootsOn(g, c) >= 2)

(* By the number of entry points on them, then by length.                  *)
Ranked(g, chains) ==
    ByKeyDescending(SelectSeq(chains, LAMBDA c : RootsOn(g, c) >= 2),
                    LAMBDA c : RootsOn(g, c) * (PathHops + 1) + Len(c))

(* buildCallPathsSection, but for the budget of 2000 calls of dfs.         *)
BuildCallPaths(g) ==
    LET callers == SelectSeq([i \in DOMAIN g.edges |-> g.edges[i].source],
                             LAMBDA n : n \in ToSet(g.nodes) /\ CalledIn(g, n) # <<>>)
        starts  == FirstOf(IF g.roots = <<>> THEN AddAll(<<>>, callers)
                           ELSE SelectSeq(g.roots, LAMBDA n : n \in ToSet(callers)), 5)
        chains  == FlattenSeq([i \in DOMAIN starts |-> ChainsFrom(g, <<starts[i]>>)])
    IN  FoldLeft(LAMBDA kept, c :
                   IF Len(kept) >= KeptPaths \/ \E k \in ToSet(kept) : IsPartOf(c, k) THEN kept
                   ELSE Append(kept, c),
                 <<>>, Ranked(g, chains))
-----------------------------------------------------------------------------
(* Whatever the searches rank first, the subgraph is within its bounds and *)
(* hangs together: no file and no test suite takes more than its part, no  *)
(* edge leads out of it, no edge among its nodes that the index has is     *)
(* missing, and an entry point is only left out for one of the caps.       *)
ContextHolds(found, o) ==
    LET g     == FindRelevantContext(found, o)
        nodes == ToSet(g.nodes)
    IN  /\ Len(g.nodes) = Cardinality(nodes) /\ Len(g.nodes) <= o.maxNodes
        /\ \A f \in Files : Cardinality({n \in nodes : fileOf[n] = f}) <= o.maxPerFile
        /\ ~o.aboutTests =>
              Cardinality({n \in nodes : fileOf[n] \in TestFiles}) <= o.maxNonProd
        /\ \A e \in ToSet(g.edges) : {e.source, e.target} \subseteq nodes
        /\ ToSet(Recovered(nodes)) \subseteq ToSet(g.edges)
        /\ \A n \in ToSet(Roots(found, o)) \ nodes :
              \/ fileOf[n] \in TestFiles /\ ~o.aboutTests
              \/ Cardinality({m \in ToSet(g.roots) : fileOf[m] = fileOf[n]}) > o.maxPerFile

(* The call paths of a subgraph are calls of its nodes one after another,  *)
(* none of them part of another, each with two entry points on it; and if  *)
(* there is such a path among the first entry points' there is one in the  *)
(* answer.                                                                 *)
CallPathsHold(g) ==
    LET paths  == ToSet(BuildCallPaths(g))
        nodes  == ToSet(g.nodes)
        IsCall(n, m) == \E e \in ToSet(g.edges) :
                            e.kind = "calls" /\ e.source = n /\ e.target = m
        simple == {p \in UNION {[1..k -> nodes] : k \in 3..PathHops} :
                     /\ p[1] \in ToSet(g.roots) /\ RootsOn(g, p) >= 2
                     /\ \A i \in 1..(Len(p) - 1) : IsCall(p[i], p[i + 1])
                     /\ Cardinality(ToSet(p)) = Len(p)}
    IN  /\ paths \subseteq simple
        /\ \A p, q \in paths : p # q => ~IsPartOf(p, q)
        /\ simple # {} => paths # {}
=============================================================================
