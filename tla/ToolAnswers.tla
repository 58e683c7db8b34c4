---------------------------- MODULE ToolAnswers ----------------------------
(***************************************************************************)
(* What the tools of src/src/mcp/tools.ts answer about named symbols:      *)
(* callers, callees, impact, the call path of codegraph_trace, and the     *)
(* flow codegraph_explore puts before its sections.                        *)
(***************************************************************************)
EXTENDS ContextSelection, Integers

CONSTANTS
    Names,          \* what a caller may ask for
    Hits,           \* what the search of the index returns for each name
    Exact,          \* pairs of a name and a symbol matchesSymbol accepts
    Qualified,      \* names with a separator in them
    Owner,          \* the name of what contains a symbol, or None
    None,
    Segments,       \* the simple names a name is made of
    Generated,      \* files isGeneratedFile is true of
    SharedDir,      \* length of the directory two files have in common
    LessCanonical,  \* files under examples/, vendor/ and the like
    StartLine,      \* first line of each symbol
    TraceHops,      \* MAX_HOPS of handleTrace
    FlowHops,       \* MAX_HOPS of buildFlowFromNamedSymbols
    PairBudget,     \* FINDPATH_PAIR_BUDGET
    FewHits         \* a name with more hits is ambiguous

ASSUME ToolAnswersAssumption ==
    /\ Hits \in [Names -> Seq(Symbols)]
    /\ Exact \subseteq Names \X Symbols
    /\ Qualified \subseteq Names
    /\ Segments \in [Names -> SUBSET Names]
    /\ StartLine \in [Symbols -> Nat]
    /\ {TraceHops, FlowHops, PairBudget, FewHits} \subseteq Nat \ {0}
-----------------------------------------------------------------------------
HitsOf(name)    == SelectSeq(Hits[name], LAMBDA n : n \in Nodes)
ExactOnes(name) == SelectSeq(HitsOf(name), LAMBDA n : <<name, n>> \in Exact)
GeneratedLast(seq) ==
    SelectSeq(seq, LAMBDA n : fileOf[n] \notin Generated) \o
    SelectSeq(seq, LAMBDA n : fileOf[n] \in Generated)

(* One symbol, or none; a qualified name is not answered by a near miss.   *)
FindSymbol(name) ==
    IF ExactOnes(name) # <<>> THEN FirstOf(GeneratedLast(ExactOnes(name)), 1)
    ELSE IF name \in Qualified THEN <<>> ELSE FirstOf(HitsOf(name), 1)

(* All of the name, or else the first hit, whatever its name is.           *)
FindAllSymbols(name) ==
    IF ExactOnes(name) # <<>> THEN GeneratedLast(ExactOnes(name)) ELSE FirstOf(HitsOf(name), 1)

CallersOf(n) == LET es == GetCallers(n, 1) IN [i \in DOMAIN es |-> es[i].source]
CalleesOf(n) == LET es == GetCallees(n, 1) IN [i \in DOMAIN es |-> es[i].target]

HandleCallers(name, limit) ==
    LET all == FindAllSymbols(name)
    IN  FirstOf(AddAll(<<>>, FlattenSeq([i \in DOMAIN all |-> CallersOf(all[i])])), limit)

HandleCallees(name, limit) ==
    LET all == FindAllSymbols(name)
    IN  FirstOf(AddAll(<<>>, FlattenSeq([i \in DOMAIN all |-> CalleesOf(all[i])])), limit)

HandleImpact(name, depth) ==
    UNION {GetImpactRadius(n, depth) : n \in ToSet(FindAllSymbols(name))}

(* The trail of codegraph_node: six callers and six callees.               *)
HandleNode(name) ==
    LET n == FindSymbol(name)
    IN  IF n = <<>> THEN n
        ELSE <<n[1], FirstOf(AddAll(<<>>, CallersOf(n[1])), 6),
                     FirstOf(AddAll(<<>>, CalleesOf(n[1])), 6)>>
-----------------------------------------------------------------------------
Score(pair) ==
    SharedDir[fileOf[pair[1]], fileOf[pair[2]]]
    - (IF fileOf[pair[1]] \in LessCanonical THEN 100 ELSE 0)
    - (IF fileOf[pair[2]] \in LessCanonical THEN 100 ELSE 0)

(* Every candidate of one name with every one of the other, the closest    *)
(* first.                                                                  *)
Pairs(from, to) ==
    LET fs == FindAllSymbols(from)
        ts == FindAllSymbols(to)
    IN  ByKeyDescending(FlattenSeq([i \in DOMAIN fs |-> [j \in DOMAIN ts |-> <<fs[i], ts[j]>>]]), Score)

(* Mutation: a path over the limit ends the search.                        *)
TryPairAndStop(st, pair) ==
    LET p == FindPath(pair[1], pair[2], {"calls"})
    IN  IF st.path # <<>> \/ st.over # <<>> THEN st
        ELSE IF Len(p) \in 2..TraceHops THEN [st EXCEPT !.path = p, !.pair = pair]
        ELSE IF Len(p) > 1 THEN [st EXCEPT !.over = p, !.pair = pair]
        ELSE IF st.pair = <<>> THEN [st EXCEPT !.pair = pair] ELSE st

(* A turn of the loop over the pairs.                                      *)
TryPair(st, pair) ==
    LET p == FindPath(pair[1], pair[2], {"calls"})
    IN  IF st.path # <<>> THEN st
        ELSE IF Len(p) \in 2..TraceHops THEN [st EXCEPT !.path = p, !.pair = pair]
        ELSE IF Len(p) > 1 /\ (st.over = <<>> \/ Len(p) < Len(st.over))
             THEN [st EXCEPT !.over = p, !.pair = pair]
        ELSE IF Len(p) <= 1 /\ st.pair = <<>> THEN [st EXCEPT !.pair = pair] ELSE st

Tried(from, to) ==
    FoldLeft(TryPair, [path |-> <<>>, over |-> <<>>, pair |-> <<>>],
             FirstOf(Pairs(from, to), PairBudget))

Distance(a, b) == IF a < b THEN b - a ELSE a - b

(* The functions next to the end of a failed trace.                        *)
Siblings(start, end) ==
    LET own == {n \in Functions \cap Nodes : fileOf[n] = fileOf[end]} \ {start, end}
    IN  FirstOf(SetToSortSeq(own, LAMBDA n, m :
                  LET dn == Distance(StartLine[n], StartLine[end])
                      dm == Distance(StartLine[m], StartLine[end])
                  IN  dn < dm \/ (dn = dm /\ Rank[n] < Rank[m])), 5)

(* What codegraph_trace shows: the path with what its end calls, or the    *)
(* two ends with what lies about the second.                               *)
HandleTrace(from, to) ==
    LET st == Tried(from, to)
    IN  IF Pairs(from, to) = <<>> THEN <<>>
        ELSE IF st.path # <<>>
        THEN <<"path", st.path, FirstOf(Without(CalleesOf(Last(st.path)), ToSet(st.path)), 6)>>
        ELSE <<"ends", st.pair, Siblings(st.pair[1], st.pair[2])>>
-----------------------------------------------------------------------------
(* The functions a query names; of an ambiguous name only those whose      *)
(* container is named as well.                                             *)
Named(query) ==
    LET pool == UNION {Segments[t] : t \in ToSet(query)}
        Pick(t) ==
          LET found == SelectSeq(FindAllSymbols(t), LAMBDA n : n \in Functions)
          IN  FirstOf(IF Len(found) <= FewHits THEN found
                      ELSE SelectSeq(found, LAMBDA n : Owner[n] \in pool), 6)
    IN  AddAll(<<>>, FlattenSeq([i \in DOMAIN query |-> Pick(query[i])]))

Unnamed(n, named) == n \notin ToSet(named)

(* Mutation: any number of functions in a row may go unnamed.              *)
NextInFlowFreely(path, named, seen) ==
    LET es == SelectSeq(GetCallees(Last(path), 1), LAMBDA e : e.kind = "calls" /\ e.target \notin seen)
    IN  IF Len(path) >= FlowHops THEN <<>>
        ELSE LET new == AddAll(<<>>, [i \in DOMAIN es |-> es[i].target])
             IN  [i \in DOMAIN new |-> Append(path, new[i])]

(* How a chain goes on: by a call to a function not seen before, and never *)
(* from one that is not named to another.                                  *)
NextInFlow(path, named, seen) ==
    LET es == SelectSeq(GetCallees(Last(path), 1), LAMBDA e :
                  /\ e.kind = "calls" /\ e.target \notin seen
                  /\ ~(Unnamed(Last(path), named) /\ Unnamed(e.target, named)))
    IN  IF Len(path) >= FlowHops THEN <<>>
        ELSE LET new == AddAll(<<>>, [i \in DOMAIN es |-> es[i].target])
             IN  [i \in DOMAIN new |-> Append(path, new[i])]

(* The loop over the queue of one seed: the first of the longest chains    *)
(* that end in a named function.                                           *)
RECURSIVE FlowLoop(_, _, _, _)
FlowLoop(queue, seen, best, named) ==
    IF queue = <<>> THEN best
    ELSE LET path == Head(queue)
             more == NextInFlow(path, named, seen)
         IN  FlowLoop(Tail(queue) \o more, seen \cup {Last(more[i]) : i \in DOMAIN more},
                      IF ~Unnamed(Last(path), named) /\ Len(path) > Len(best) THEN path ELSE best,
                      named)

FlowFrom(seed, named) == FlowLoop(<< <<seed>> >>, {seed}, <<seed>>, named)

(* buildFlowFromNamedSymbols; <<>> stands for ''.                          *)
BuildFlow(query) ==
    LET named == Named(query)
        best  == FoldLeft(LAMBDA acc, seed :
                            LET chain == FlowFrom(seed, named)
                            IN  IF Len(chain) > Len(acc) THEN chain ELSE acc,
                          <<>>, FirstOf(named, 8))
    IN  IF Len(query) < 2 \/ Len(named) < 2 \/ Len(best) < 3 THEN <<>> ELSE best
-----------------------------------------------------------------------------
IsCallPath(path) ==
    \A i \in 1..(Len(path) - 1) :
        \E e \in ToSet(edges) : e.kind = "calls" /\ e.source = path[i] /\ e.target = path[i + 1]

CallSteps(n) == Distances(Successors("outgoing", {"calls"}), n)

(* The tools agree about the neighbours of a name: its callers are those   *)
(* who say that they call it, and the other way round, all callers are in  *)
(* its impact, and the trail of a node lists none that they do not.        *)
NeighboursHold(name) ==
    LET own     == ToSet(FindAllSymbols(name))
        callers == ToSet(HandleCallers(name, Cardinality(Nodes)))
        callees == ToSet(HandleCallees(name, Cardinality(Nodes)))
        trail   == HandleNode(name)
    IN  /\ callers = {n \in Nodes : own \cap ToSet(CalleesOf(n)) # {}}
        /\ callees = {n \in Nodes : own \cap ToSet(CallersOf(n)) # {}}
        /\ own \cup callers \subseteq HandleImpact(name, 1)
        /\ IF trail = <<>> THEN own = {} \/ name \in Qualified
           ELSE trail[1] \in own /\ ToSet(trail[2]) \subseteq callers /\ ToSet(trail[3]) \subseteq callees

(* codegraph_trace shows a shortest path of calls between two symbols of   *)
(* the names asked for, within its limit, from the closest pair that has   *)
(* one; and if it shows none then no pair it may try has one.              *)
TraceHolds(from, to) ==
    LET answer == HandleTrace(from, to)
        pairs  == FirstOf(Pairs(from, to), PairBudget)
        Joined(i) == /\ pairs[i][2] \in DOMAIN CallSteps(pairs[i][1])
                     /\ CallSteps(pairs[i][1])[pairs[i][2]] \in 1..(TraceHops - 1)
        found == {i \in DOMAIN pairs : Joined(i)}
    IN  answer # <<>> =>
          IF answer[1] = "ends" THEN found = {} /\ answer[2] \in ToSet(pairs)
          ELSE LET path == answer[2]
               IN  \E i \in found :
                     /\ \A j \in found : i <= j
                     /\ path[1] = pairs[i][1] /\ Last(path) = pairs[i][2]
                     /\ IsCallPath(path)
                     /\ Len(path) = CallSteps(path[1])[Last(path)] + 1
                     /\ ToSet(answer[3]) \cap ToSet(path) = {}

(* The flow is a chain of calls whose ends are named and which never       *)
(* passes two unnamed functions in a row; it reaches the named function    *)
(* that is farthest from one of the seeds on such chains.                  *)
FlowHolds(query) ==
    LET named == Named(query)
        flow  == BuildFlow(query)
        all   == Successors("outgoing", {"calls"})
        succ  == [n \in Nodes |->
                    {m \in all[n] : ~(Unnamed(n, named) /\ Unnamed(m, named))}]
        far   == {Distances(succ, n)[m] + 1 : <<n, m>> \in
                    {<<n, m>> \in ToSet(FirstOf(named, 8)) \X ToSet(named) :
                       m \in DOMAIN Distances(succ, n)}}
    IN  IF flow = <<>> THEN Len(query) < 2 \/ \A k \in far : k \notin 3..FlowHops
        ELSE /\ IsCallPath(flow) /\ flow[1] \in ToSet(named) /\ Last(flow) \in ToSet(named)
             /\ \A i \in 1..(Len(flow) - 1) :
                    ~(Unnamed(flow[i], named) /\ Unnamed(flow[i + 1], named))
             /\ Len(flow) \in far /\ \A k \in far : k <= Len(flow) \/ k > FlowHops

(* The flow is the longest chain of calls among the named functions, as    *)
(* the comment on buildFlowFromNamedSymbols says.                          *)
LongestFlow(query) ==
    LET named == ToSet(Named(query))
    IN  \A k \in 3..FlowHops : \A path \in [1..k -> named] :
            IsCallPath(path) /\ Cardinality(ToSet(path)) = k => Len(BuildFlow(query)) >= k
=============================================================================
