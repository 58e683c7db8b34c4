--------------------------- MODULE GraphTraversal ---------------------------
(***************************************************************************)
(* What the graph queries of src/src/graph/traversal.ts and                *)
(* src/src/graph/queries.ts answer, as functions of the stored edges,      *)
(* beside what they are meant to answer: balls, shortest paths, closures   *)
(* and cycles.                                                             *)
(*                                                                         *)
(* Edges come in the order of their rows; there may be twins among them.   *)
(* A file is named by its node of kind `file`, if the index has one.       *)
(***************************************************************************)
EXTENDS Naturals, FiniteSets, SequencesExt

CONSTANTS
    Symbols,        \* whatever may be a node of some index
    Containers,     \* those of the kinds in containerKinds
    Layouts,        \* indexes: the nodes of each, and the file of every node
    Kinds,          \* kinds of edges
    Rank,           \* bound of the model: rows are stored source by source
    MaxEdges        \* bound of the model

ASSUME GraphTraversalAssumption ==
    /\ IsFiniteSet(Symbols)
    /\ Containers \subseteq Symbols
    /\ \A layout \in Layouts :
          /\ DOMAIN layout \subseteq Symbols
          /\ \A n \in DOMAIN layout :
                layout[n] \in DOMAIN layout => layout[layout[n]] = layout[n]
    /\ Rank \in [Symbols -> Nat]
    /\ MaxEdges \in Nat

VARIABLES
    fileOf,         \* the file of each node
    edges           \* the rows of the edges table, in order

vars == <<fileOf, edges>>

Nodes == DOMAIN fileOf

Edge == [source : Nodes, kind : Kinds, target : Nodes]

TypeOK == fileOf \in Layouts /\ edges \in Seq(Edge)

Init == fileOf \in Layouts /\ edges = <<>>

Files == {fileOf[n] : n \in Nodes}

Holds(n, m) == \E e \in ToSet(edges) : e = [source |-> n, kind |-> "contains", target |-> m]

(* m is n or inside n, however deep.                                       *)
RECURSIVE Inside(_, _)
Inside(m, n) == m = n \/ \E p \in Nodes : Holds(p, m) /\ Inside(p, n)

(* An edge is stored.  What extraction says of containment is a forest in  *)
(* each file, with the file at its root.                                   *)
Insert(e) ==
    /\ Len(edges) < MaxEdges
    /\ edges # <<>> => Rank[Last(edges).source] <= Rank[e.source]
    /\ e.kind = "contains" =>
          /\ fileOf[e.source] = fileOf[e.target] /\ e.target \notin Files
          /\ \A n \in Nodes : ~Holds(n, e.target)
          /\ ~Inside(e.source, e.target)
    /\ edges' = Append(edges, e)
    /\ UNCHANGED fileOf

Next == \E e \in Edge : Insert(e)

Spec == Init /\ [][Next]_vars
-----------------------------------------------------------------------------
(* getOutgoingEdges, getIncomingEdges and, of an edge, the end that is not *)
(* n.                                                                      *)
Outgoing(n, kinds) == SelectSeq(edges, LAMBDA e : e.source = n /\ e.kind \in kinds)
Incoming(n, kinds) == SelectSeq(edges, LAMBDA e : e.target = n /\ e.kind \in kinds)
OtherEnd(e, n)     == IF e.source = n THEN e.target ELSE e.source

(* Map.set of keys that may be there already: a Map is the sequence of its *)
(* keys.                                                                   *)
AddAll(seq, new) ==
    FoldLeft(LAMBDA acc, x : IF x \in ToSet(acc) THEN acc ELSE Append(acc, x), seq, new)

Adjacent(n, direction) ==
    CASE direction = "outgoing" -> Outgoing(n, Kinds)
      [] direction = "incoming" -> Incoming(n, Kinds)
      [] direction = "both"     -> Outgoing(n, Kinds) \o Incoming(n, Kinds)

(* The sort of traverseBFS: containment, then calls, then the rest.        *)
ByPriority(es) ==
    SelectSeq(es, LAMBDA e : e.kind = "contains") \o SelectSeq(es, LAMBDA e : e.kind = "calls")
        \o SelectSeq(es, LAMBDA e : e.kind \notin {"contains", "calls"})

(* Mutation: the limit is noticed one step too late.                       *)
BfsNextTooDeep(step, visited, direction, depth) ==
    IF step.depth > depth THEN <<>>
    ELSE SelectSeq(ByPriority(Adjacent(step.node, direction)),
                   LAMBDA e : OtherEnd(e, step.node) \notin visited)

(* The edges over which a step is continued: none from the depth limit on. *)
BfsNext(step, visited, direction, depth) ==
    IF step.depth >= depth THEN <<>>
    ELSE SelectSeq(ByPriority(Adjacent(step.node, direction)),
                   LAMBDA e : OtherEnd(e, step.node) \notin visited)

(* A turn of the loop of traverseBFS: a step leaves the queue, its edge    *)
(* joins the result, and its neighbours join the result and the queue.     *)
BfsStep(st, direction, depth) ==
    LET step == Head(st.queue)
        next == BfsNext(step, st.visited \cup {step.node}, direction, depth)
    IN  IF step.node \in st.visited THEN [st EXCEPT !.queue = Tail(@)]
        ELSE [queue   |-> Tail(st.queue) \o
                          [i \in DOMAIN next |->
                             [node |-> OtherEnd(next[i], step.node), edge |-> <<next[i]>>,
                              depth |-> step.depth + 1]],
              visited |-> st.visited \cup {step.node},
              nodes   |-> AddAll(st.nodes, [i \in DOMAIN next |-> OtherEnd(next[i], step.node)]),
              edges   |-> st.edges \o step.edge]

RECURSIVE BfsLoop(_, _, _, _)
BfsLoop(st, direction, depth, limit) ==
    IF st.queue = <<>> \/ Len(st.nodes) >= limit THEN st
    ELSE BfsLoop(BfsStep(st, direction, depth), direction, depth, limit)

TraverseBFS(start, direction, depth, limit) ==
    BfsLoop([queue |-> <<[node |-> start, edge |-> <<>>, depth |-> 0]>>, visited |-> {},
             nodes |-> <<start>>, edges |-> <<>>], direction, depth, limit)

RECURSIVE Dfs(_, _, _, _)

(* The neighbours of n, each followed to its end before the next.          *)
DfsFrom(st, n, direction, depth) ==
    FoldLeft(LAMBDA acc, e :
               LET m == OtherEnd(e, n)
               IN  IF m \in acc.visited THEN acc
                   ELSE Dfs([acc EXCEPT !.nodes = @ \cup {m}, !.edges = Append(@, e)],
                            m, direction, depth - 1),
             st, Adjacent(n, direction))

(* Mutation: a node counts as visited although the limit kept it from      *)
(* being followed.                                                         *)
DfsMarksFirst(st, n, direction, depth) ==
    LET marked == [st EXCEPT !.visited = @ \cup {n}]
    IN  IF n \in st.visited THEN st
        ELSE IF depth = 0 THEN marked
        ELSE DfsFrom(marked, n, direction, depth)

(* dfsRecursive, with the depth that is left.                              *)
Dfs(st, n, direction, depth) ==
    IF n \in st.visited \/ depth = 0 THEN st
    ELSE DfsFrom([st EXCEPT !.visited = @ \cup {n}], n, direction, depth)

TraverseDFS(start, direction, depth) ==
    Dfs([visited |-> {}, nodes |-> {start}, edges |-> <<>>], start, direction, depth)
-----------------------------------------------------------------------------
UsageKinds == {"calls", "references", "imports"}

RECURSIVE Callers(_, _, _)

(* Mutation: a caller is marked when it is found, before it is followed.   *)
CallersMarkedEarly(st, n, depth) ==
    IF depth = 0 THEN st
    ELSE FoldLeft(LAMBDA acc, e :
                    IF e.source \in acc.visited THEN acc
                    ELSE Callers([acc EXCEPT !.result = Append(@, e),
                                             !.visited = @ \cup {e.source}],
                                 e.source, depth - 1),
                  [st EXCEPT !.visited = @ \cup {n}], Incoming(n, UsageKinds))

(* getCallersRecursive: who refers to n, and who to them.                  *)
Callers(st, n, depth) ==
    IF depth = 0 \/ n \in st.visited THEN st
    ELSE FoldLeft(LAMBDA acc, e :
                    IF e.source \in acc.visited THEN acc
                    ELSE Callers([acc EXCEPT !.result = Append(@, e)], e.source, depth - 1),
                  [st EXCEPT !.visited = @ \cup {n}], Incoming(n, UsageKinds))

GetCallers(n, depth) == Callers([visited |-> {}, result |-> <<>>], n, depth).result

(* getCalleesRecursive: to whom n refers, and they.                        *)
RECURSIVE Callees(_, _, _)
Callees(st, n, depth) ==
    IF depth = 0 \/ n \in st.visited THEN st
    ELSE FoldLeft(LAMBDA acc, e :
                    IF e.target \in acc.visited THEN acc
                    ELSE Callees([acc EXCEPT !.result = Append(@, e)], e.target, depth - 1),
                  [st EXCEPT !.visited = @ \cup {n}], Outgoing(n, UsageKinds))

GetCallees(n, depth) == Callees([visited |-> {}, result |-> <<>>], n, depth).result

(* getImpactRecursive.  First the members of a container, as deep as the   *)
(* container itself, then whatever has an edge to n, containers included.  *)
RECURSIVE Impact(_, _, _)

Members(st, n, depth) ==
    FoldLeft(LAMBDA acc, e :
               IF e.target \in acc.visited THEN acc
               ELSE Impact([acc EXCEPT !.nodes = @ \cup {e.target}], e.target, depth),
             st, IF n \in Containers THEN Outgoing(n, {"contains"}) ELSE <<>>)

Dependents(st, n, depth) ==
    FoldLeft(LAMBDA acc, e :
               IF e.source \in acc.nodes THEN acc
               ELSE Impact([acc EXCEPT !.nodes = @ \cup {e.source}], e.source, depth - 1),
             st, Incoming(n, Kinds))

Impact(st, n, depth) ==
    IF depth = 0 \/ n \in st.visited THEN st
    ELSE Dependents(Members([st EXCEPT !.visited = @ \cup {n}], n, depth), n, depth)

GetImpactRadius(n, depth) == Impact([visited |-> {}, nodes |-> {n}], n, depth).nodes
-----------------------------------------------------------------------------
(* What a path that was taken off the queue puts there.                    *)
Extensions(path, visited, kinds) ==
    LET next == SelectSeq(Outgoing(Last(path), kinds), LAMBDA e : e.target \notin visited)
    IN  [i \in DOMAIN next |-> Append(path, next[i].target)]

(* Mutation: the longest path is tried first.                              *)
EnqueueFirst(queue, paths) == paths \o queue

Enqueue(queue, paths) == queue \o paths

(* The loop of findPath; <<>> stands for null.                             *)
RECURSIVE PathLoop(_, _, _, _)
PathLoop(queue, visited, to, kinds) ==
    IF queue = <<>> THEN <<>>
    ELSE LET path == Head(queue) n == Last(path)
         IN  IF n = to THEN path
             ELSE IF n \in visited THEN PathLoop(Tail(queue), visited, to, kinds)
             ELSE PathLoop(Enqueue(Tail(queue), Extensions(path, visited \cup {n}, kinds)),
                           visited \cup {n}, to, kinds)

FindPath(from, to, kinds) == PathLoop(<< <<from>> >>, {}, to, kinds)
-----------------------------------------------------------------------------
TypeKinds == {"extends", "implements"}

(* getTypeAncestors and getTypeDescendants.                                *)
RECURSIVE TypeAncestors(_, _), TypeDescendants(_, _)
TypeAncestors(st, n) ==
    IF n \in st.visited THEN st
    ELSE FoldLeft(LAMBDA acc, e :
                    IF e.target \in ToSet(acc.nodes) THEN acc
                    ELSE TypeAncestors([acc EXCEPT !.nodes = Append(@, e.target),
                                                   !.edges = Append(@, e)], e.target),
                  [st EXCEPT !.visited = @ \cup {n}], Outgoing(n, TypeKinds))

TypeDescendants(st, n) ==
    IF n \in st.visited THEN st
    ELSE FoldLeft(LAMBDA acc, e :
                    IF e.source \in ToSet(acc.nodes) THEN acc
                    ELSE TypeDescendants([acc EXCEPT !.nodes = Append(@, e.source),
                                                     !.edges = Append(@, e)], e.source),
                  [st EXCEPT !.visited = @ \cup {n}], Incoming(n, TypeKinds))

GetTypeHierarchy(n) ==
    TypeDescendants(TypeAncestors([visited |-> {}, nodes |-> <<n>>, edges |-> <<>>], n), n)
-----------------------------------------------------------------------------
GetFileDependencies(file) ==
    LET imports == Outgoing(file, {"imports"})
    IN  {fileOf[imports[i].target] : i \in DOMAIN imports} \ {file}

RECURSIVE CycleDfs(_, _, _)

(* Every dependency of a file in turn.                                     *)
CycleFrom(st, file, path) ==
    FoldSet(LAMBDA dep, acc : CycleDfs(acc, dep, Append(path, file)),
            st, GetFileDependencies(file))

(* Mutation: the cycle is returned with the path that led to it.           *)
CycleDfsWholePath(st, file, path) ==
    IF file \in st.stack THEN [st EXCEPT !.cycles = @ \cup {path}]
    ELSE IF file \in st.visited THEN st
    ELSE LET done == CycleFrom([st EXCEPT !.visited = @ \cup {file}, !.stack = @ \cup {file}],
                               file, path)
         IN  [done EXCEPT !.stack = @ \ {file}]

(* The inner function of findCircularDependencies.                         *)
CycleDfs(st, file, path) ==
    IF file \in st.stack
    THEN LET start == SelectInSeq(path, LAMBDA f : f = file)
         IN  IF start = 0 THEN st
             ELSE [st EXCEPT !.cycles = @ \cup {SubSeq(path, start, Len(path))}]
    ELSE IF file \in st.visited THEN st
    ELSE LET done == CycleFrom([st EXCEPT !.visited = @ \cup {file}, !.stack = @ \cup {file}],
                               file, path)
         IN  [done EXCEPT !.stack = @ \ {file}]

FindCircularDependencies ==
    FoldSet(LAMBDA file, acc : IF file \in acc.visited THEN acc ELSE CycleDfs(acc, file, <<>>),
            [visited |-> {}, stack |-> {}, cycles |-> {}], Files).cycles
-----------------------------------------------------------------------------
(* What the answers are measured by.                                       *)
Successors(direction, kinds) ==
    LET followed == {e \in ToSet(edges) : e.kind \in kinds}
    IN  [n \in Nodes |->
           {e.target : e \in {d \in followed : direction # "incoming" /\ d.source = n}} \cup
           {e.source : e \in {d \in followed : direction # "outgoing" /\ d.target = n}}]

RECURSIVE Ball(_, _, _)
Ball(succ, S, d) == IF d = 0 THEN S ELSE Ball(succ, S \cup UNION {succ[n] : n \in S}, d - 1)

Everywhere == Cardinality(Nodes)      \* no shortest path is as long as that
Depths     == 0..Everywhere
Closure(succ, S) == Ball(succ, S, Everywhere)

(* How many steps it takes from n to each node that can be reached.        *)
Distances(succ, n) ==
    LET balls == [d \in Depths |-> Ball(succ, {n}, d)]
    IN  [m \in balls[Everywhere] |->
           CHOOSE d \in Depths : m \in balls[d] /\ (d = 0 \/ m \notin balls[d - 1])]

(* A node that changes takes its members along, and reaches what refers to *)
(* any of them.                                                            *)
WithMembers(S) ==
    Closure([n \in Nodes |-> {m \in Nodes : n \in Containers /\ Holds(n, m)}], S)

RECURSIVE ImpactBall(_, _)
ImpactBall(S, d) ==
    IF d = 0 THEN S
    ELSE LET own == WithMembers(S)
         IN  ImpactBall(own \cup UNION {Successors("incoming", Kinds)[n] : n \in own}, d - 1)

Directions == {"outgoing", "incoming", "both"}

(* Breadth-first traversal (traverseBFS) returns what lies within the      *)
(* depth, unless it stops at the limit, and its edges form a tree of       *)
(* shortest paths: each node but the start is entered once, from a node    *)
(* that is one step nearer.                                                *)
BreadthFirstIsShortest ==
    \A n \in Nodes, direction \in Directions :
        LET steps == Distances(Successors(direction, Kinds), n)
        IN  \A depth \in Depths, limit \in {2, Everywhere + 1} :
              LET ball    == {m \in DOMAIN steps : steps[m] <= depth}
                  found   == TraverseBFS(n, direction, depth, limit)
                  nodes   == ToSet(found.nodes)
                  entered == found.visited \ {n}
              IN  /\ n \in nodes /\ nodes \subseteq ball
                  /\ Cardinality(nodes) < limit => nodes = ball /\ found.visited = ball
                  /\ Len(found.edges) = Cardinality(entered)
                  /\ \A m \in entered : \E e \in ToSet(found.edges) :
                        /\ m \in {e.source, e.target}
                        /\ steps[OtherEnd(e, m)] + 1 = steps[m]

(* Depth-first traversal (traverseDFS) without a limit returns what can be *)
(* reached, and with one nothing farther away; what lies within two steps  *)
(* it never misses.                                                        *)
DepthFirstIsReachability ==
    \A n \in Nodes, direction \in Directions :
        LET steps == Distances(Successors(direction, Kinds), n)
        IN  \A depth \in Depths :
              LET ball  == {m \in DOMAIN steps : steps[m] <= depth}
                  found == TraverseDFS(n, direction, depth).nodes
              IN  /\ found \subseteq ball
                  /\ depth \in {0, 1, 2, Everywhere} => found = ball

(* Callers, callees and the impact radius name nothing that does not       *)
(* depend on the node, respectively it on them; they are complete when the *)
(* depth is unlimited, callers and callees also within two steps and the   *)
(* impact radius within one.                                               *)
DependentsAreComplete ==
    \A n \in Nodes, depth \in Depths :
        LET callers == {n} \cup {e.source : e \in ToSet(GetCallers(n, depth))}
            callees == {n} \cup {e.target : e \in ToSet(GetCallees(n, depth))}
            impact  == GetImpactRadius(n, depth)
            users   == Ball(Successors("incoming", UsageKinds), {n}, depth)
            used    == Ball(Successors("outgoing", UsageKinds), {n}, depth)
        IN  /\ callers \subseteq users /\ callees \subseteq used
            /\ impact \subseteq ImpactBall({n}, depth)
            /\ depth \in {0, 1, 2, Everywhere} => callers = users /\ callees = used
            /\ depth \in {0, 1, Everywhere} => impact = ImpactBall({n}, depth)

(* findPath finds a path if there is one, and none is shorter.             *)
PathIsShortest ==
    LET succ == Successors("outgoing", Kinds)
    IN  \A from \in Nodes :
          LET steps == Distances(succ, from)
          IN  \A to \in Nodes :
                LET path == FindPath(from, to, Kinds)
                IN  IF to \notin DOMAIN steps THEN path = <<>>
                    ELSE /\ path # <<>> /\ path[1] = from /\ Last(path) = to
                         /\ \A i \in 1..(Len(path) - 1) : path[i + 1] \in succ[path[i]]
                         /\ Len(path) = steps[to] + 1

(* findCircularDependencies returns cycles of imports between files and    *)
(* nothing else, and it returns one if there is one.                       *)
CyclesAreFound ==
    LET succ   == [f \in Files |-> GetFileDependencies(f)]
        cycles == FindCircularDependencies
    IN  /\ \A cycle \in cycles :
              /\ Cardinality(ToSet(cycle)) = Len(cycle)
              /\ \A i \in DOMAIN cycle : cycle[(i % Len(cycle)) + 1] \in succ[cycle[i]]
        /\ (\E f \in Files : f \in Closure(succ, succ[f])) => cycles # {}

(* What the traversals return is exact: nearest first, reachable, minimal, *)
(* and complete as far as their marking lets them be.                      *)
TraversalsHold ==
    /\ TypeOK
    /\ BreadthFirstIsShortest /\ DepthFirstIsReachability /\ DependentsAreComplete
    /\ PathIsShortest /\ CyclesAreFound

(* getTypeHierarchy has what extends or implements the type, as the        *)
(* comment on its second half says.                                        *)
HierarchyHasDescendants ==
    \A n \in Nodes : Successors("incoming", TypeKinds)[n] \subseteq ToSet(GetTypeHierarchy(n).nodes)
=============================================================================
