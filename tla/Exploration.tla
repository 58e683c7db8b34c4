---------------------------- MODULE Exploration ----------------------------
(***************************************************************************)
(* codegraph_explore (handleExplore of src/src/mcp/tools.ts): which files  *)
(* it shows, which lines of them, and what it says about the rest.         *)
(*                                                                         *)
(* A character of the code is a character here; every line of a file has   *)
(* LineChars of them.  The order of the relationship map, the headers of   *)
(* the files and the cut of the finished text are left out.                *)
(***************************************************************************)
EXTENDS ToolAnswers

CONSTANTS
    FileNames,      \* the files of all indexes
    Lines,          \* how many lines each file has
    EndLine,        \* last line of each symbol
    CallLine,       \* the line on which a symbol makes its calls
    Envelopes,      \* symbols of the kinds in ENVELOPE_KINDS
    LowValue,       \* files isLowValue is true of
    LineChars,      \* characters of a line
    HeadChars       \* characters before the first section

ASSUME ExplorationAssumption ==
    /\ \A layout \in Layouts : \A n \in DOMAIN layout : layout[n] \in FileNames
    /\ Lines \in [FileNames -> Nat]
    /\ {StartLine, EndLine, CallLine} \subseteq [Symbols -> Nat]
    /\ Envelopes \subseteq Symbols
    /\ LineChars \in Nat \ {0} /\ HeadChars \in Nat

(* getExploreOutputBudget.                                                 *)
Budget(fileCount) ==
    CASE fileCount < 150   -> [output |-> 13000, files |-> 4,  perFile |-> 3800, gap |-> 7,  small |-> TRUE]
      [] fileCount \in 150..499   -> [output |-> 18000, files |-> 5,  perFile |-> 3800, gap |-> 8,  small |-> TRUE]
      [] fileCount \in 500..4999  -> [output |-> 28000, files |-> 10, perFile |-> 6500, gap |-> 12, small |-> FALSE]
      [] fileCount \in 5000..14999 -> [output |-> 35000, files |-> 12, perFile |-> 7000, gap |-> 15, small |-> FALSE]
      [] fileCount >= 15000 -> [output |-> 38000, files |-> 14, perFile |-> 7000, gap |-> 15, small |-> FALSE]

ExploreOptions == [searchLimit |-> 8, depth |-> 3, maxNodes |-> 200, maxPerFile |-> 40,
                   maxNonProd |-> 30, aboutTests |-> FALSE]

GlueCap    == 60
GapMarker  == 17       \* characters of "... (gap) ..." and its line breaks
TrimMarker == 18       \* and of "... (trimmed) ..."
Padding    == 3        \* contextPadding
WholeLines == 220      \* WHOLE_FILE_MAX_LINES
SmallerOf(a, b) == IF a < b THEN a ELSE b
-----------------------------------------------------------------------------
(* Callers and callees of the entry points, in files the subgraph touches. *)
Glue(g) ==
    LET near  == FlattenSeq([i \in DOMAIN g.roots |-> CallersOf(g.roots[i]) \o CalleesOf(g.roots[i])])
        files == {fileOf[n] : n \in ToSet(g.nodes)}
    IN  FirstOf(AddAll(<<>>, SelectSeq(near, LAMBDA n : n \notin ToSet(g.nodes) /\ fileOf[n] \in files)),
                GlueCap)

(* The subgraph with its glue, and what is next to an entry point in it.   *)
WithGlue(g) ==
    LET glue == Glue(g)
    IN  [nodes |-> g.nodes \o glue, roots |-> ToSet(g.roots), glue |-> ToSet(glue) \ ToSet(g.roots),
         near  |-> UNION {{x.source, x.target} : x \in
                            {y \in ToSet(g.edges) : {y.source, y.target} \cap ToSet(g.roots) # {}}}]

(* 10 for an entry point, 3 next to one, 1 for the rest.                   *)
Worth(g, n) == IF n \in g.roots THEN 10 ELSE IF n \in g.near THEN 3 ELSE 1

(* The nodes of a file, but for imports and exports.                       *)
Group(g, f) == SelectSeq(g.nodes, LAMBDA n : fileOf[n] = f /\ n \notin Importing)

FileScore(g, f) ==
    FoldLeft(LAMBDA acc, n : acc + Worth(g, n), 0, Group(g, f))

(* The files that count, without tests where enough is left.               *)
Relevant(g, b) ==
    LET files == {f \in FileNames : FileScore(g, f) >= 3}
        rest  == files \ LowValue
    IN  IF b.small /\ Cardinality(rest) >= 2 THEN rest ELSE files

(* Files the query mentions first, tests and generated files last, then by *)
(* score and by the number of nodes.                                       *)
SortedFiles(g, b, mentioned) ==
    LET Flag(cond) == IF cond THEN 1 ELSE 0
        Key(f) == (((Flag(f \in mentioned) * 2 + Flag(f \notin LowValue)) * 2
                      + Flag(f \notin Generated)) * 10000 + FileScore(g, f)) * 1000 + Len(Group(g, f))
        groups == AddAll(<<>>, [i \in DOMAIN g.nodes |-> fileOf[g.nodes[i]]])
    IN  ByKeyDescending(SelectSeq(groups, LAMBDA f : f \in Relevant(g, b)), Key)
-----------------------------------------------------------------------------
(* What is worth showing of a file: its nodes, except for a container of   *)
(* more than half of it, and the lines of their edges.                     *)
IsEnvelope(n) == n \in Envelopes /\ 2 * (EndLine[n] - StartLine[n] + 1) > Lines[fileOf[n]]

NodeRange(g, n) ==
    [first |-> StartLine[n], last |-> EndLine[n],
     worth |-> IF n \in g.glue THEN 6 ELSE Worth(g, n)]

EdgeRanges(g, f) ==
    LET own == Group(g, f)
        es  == FlattenSeq([i \in DOMAIN own |->
                             SelectSeq(edges, LAMBDA e : e.source = own[i] /\ e.kind # "contains")])
        at  == AddAll(<<>>, [i \in DOMAIN es |-> <<CallLine[es[i].source], es[i].target>>])
    IN  [i \in DOMAIN at |-> [first |-> at[i][1], last |-> at[i][1], worth |-> 2]]

Ranges(g, f) ==
    LET own == SelectSeq(Group(g, f), LAMBDA n : ~IsEnvelope(n))
        all == [i \in DOMAIN own |-> NodeRange(g, own[i])] \o EdgeRanges(g, f)
    IN  Reverse(ByKeyDescending(Reverse(all), LAMBDA r : r.first))

(* Mutation: a range that ends before the cluster cuts it short.           *)
JoinToTheLast(c, r) ==
    [first |-> c.first, last |-> r.last, worth |-> c.worth + r.worth, top |-> LargerOf(c.top, r.worth)]

(* A range joins a cluster.                                                *)
Join(c, r) ==
    [first |-> c.first, last |-> LargerOf(c.last, r.last), worth |-> c.worth + r.worth,
     top |-> LargerOf(c.top, r.worth)]

Clusters(ranges, gap) ==
    FoldLeft(LAMBDA cs, r :
               IF cs # <<>> /\ r.first <= Last(cs).last + gap
               THEN Append(Front(cs), Join(Last(cs), r))
               ELSE Append(cs, [first |-> r.first, last |-> r.last, worth |-> r.worth, top |-> r.worth]),
             <<>>, ranges)

Span(c) == c.last - c.first + 1

(* The lines of a cluster with those around it, and their characters.      *)
Section(c, f) == <<LargerOf(1, c.first - Padding), SmallerOf(Lines[f], c.last + Padding)>>
Chars(section) == IF section[2] < section[1] THEN 0 ELSE (section[2] - section[1] + 1) * LineChars

(* The order of rankedClusters.                                            *)
Before(c, d) ==
    \/ c.top > d.top
    \/ c.top = d.top /\
          \/ c.worth * Span(d) > d.worth * Span(c)
          \/ c.worth * Span(d) = d.worth * Span(c) /\
                \/ c.worth > d.worth
                \/ c.worth = d.worth /\ Span(c) < Span(d)

(* The clusters that fit, the first of them even if it does not.           *)
Chosen(cs, f, b) ==
    LET ranked == SetToSortSeq(DOMAIN cs, LAMBDA i, j :
                                 Before(cs[i], cs[j]) \/ (~Before(cs[j], cs[i]) /\ i < j))
    IN  FoldLeft(LAMBDA st, i :
                   LET chars == Chars(Section(cs[i], f)) + (IF st.some = {} THEN 0 ELSE GapMarker)
                   IN  IF st.some # {} /\ st.chars + chars > b.perFile THEN st
                       ELSE [some |-> st.some \cup {i}, chars |-> st.chars + chars],
                 [some |-> {}, chars |-> 0], ranked)

(* A file as it would be shown: in full, or by its clusters.               *)
View(g, f, b) ==
    LET cs == Clusters(Ranges(g, f), b.gap)
        ch == Chosen(cs, f, b)
        in == SetToSortSeq(ch.some, LAMBDA i, j : i < j)
    IN  IF Lines[f] <= WholeLines /\ Lines[f] * LineChars <= 3 * b.perFile
        THEN [file |-> f, sections |-> << <<1, Lines[f]>> >>, chars |-> Lines[f] * LineChars,
              cut |-> FALSE, partial |-> FALSE, whole |-> TRUE]
        ELSE [file |-> f, sections |-> [k \in DOMAIN in |-> Section(cs[in[k]], f)],
              chars |-> IF ch.chars > b.perFile THEN b.perFile + TrimMarker ELSE ch.chars,
              cut |-> ch.chars > b.perFile, partial |-> ch.some # DOMAIN cs, whole |-> FALSE]
-----------------------------------------------------------------------------

(* A view joins the answer, cut to what is left of it, or ends it.         *)
Show(st, view, b) ==
    LET left == b.output - st.chars - 200
    IN  IF view.chars <= left
        THEN [st EXCEPT !.shown = Append(@, view), !.chars = @ + view.chars + 200]
        ELSE IF left < 500 THEN [st EXCEPT !.done = TRUE]
        ELSE [shown |-> Append(st.shown, [view EXCEPT !.chars = left + TrimMarker, !.cut = TRUE]),
              chars |-> st.chars + left + TrimMarker + 200, done |-> TRUE]

(* A turn of the loop over the files; one that is gone or of which nothing *)
(* is worth showing is passed over.                                        *)
ShowFile(st, view, gone, b) ==
    IF st.done \/ Len(st.shown) >= b.files \/ 10 * st.chars > 9 * b.output THEN [st EXCEPT !.done = TRUE]
    ELSE IF view.file \in gone \/ view.sections = <<>> THEN st
    ELSE Show(st, view, b)

(* The answer to a query whose searches return found, when some files are  *)
(* gone from the disk.                                                     *)
HandleExplore(found, mentioned, gone, fileCount) ==
    LET b     == Budget(fileCount)
        g     == WithGlue(FindRelevantContext(found, ExploreOptions))
        files == SortedFiles(g, b, mentioned)
        st    == FoldLeft(LAMBDA acc, f : ShowFile(acc, View(g, f, b), gone, b),
                          [shown |-> <<>>, chars |-> HeadChars, done |-> FALSE], files)
        minor == {f \in FileNames : FileScore(g, f) \in 1..2}
    IN  [graph |-> g, shown |-> st.shown, chars |-> st.chars,
         listed |-> IF b.small THEN {}
                    ELSE ToSet(SubSeq(files, Len(st.shown) + 1, Len(files))) \cup minor,
         complete |-> ~b.small]
-----------------------------------------------------------------------------
(* An exploration stays within its budgets; the sections of a file do not  *)
(* overlap and come in order, each within the file.                        *)
WithinBudget(x, b) ==
    /\ Len(x.shown) <= b.files /\ x.chars <= b.output + TrimMarker
    /\ x.chars = HeadChars + FoldLeft(LAMBDA n, v : n + v.chars + 200, 0, x.shown)
    /\ \A v \in ToSet(x.shown) :
          /\ v.chars <= (IF v.whole THEN 3 * b.perFile ELSE b.perFile) + TrimMarker
          /\ \A i \in DOMAIN v.sections :
                /\ 1 <= v.sections[i][1] /\ v.sections[i][2] <= Lines[v.file]
                /\ \A j \in DOMAIN v.sections : i < j => v.sections[i][2] < v.sections[j][1]

(* A file whose text is not cut shows one at least of its entry points,    *)
(* and all that is worth showing if no cluster was left out.               *)
ShowsWhatWasAskedFor(x) ==
    \A v \in {w \in ToSet(x.shown) : ~w.cut} :
        LET own == {n \in ToSet(Group(x.graph, v.file)) : ~IsEnvelope(n)}
            Visible(n) == \E i \in DOMAIN v.sections :
                             v.sections[i][1] <= StartLine[n] /\ EndLine[n] <= v.sections[i][2]
        IN  /\ own \cap x.graph.roots # {} =>
                  \E n \in own \cap x.graph.roots : Visible(n)
            /\ ~v.partial => \A n \in own : Visible(n)

(* What is listed as not shown is not shown.                               *)
ListedIsNotShown(x) == x.listed \cap {v.file : v \in ToSet(x.shown)} = {}

(* When the answer calls the source complete, it is.                       *)
CompleteIsComplete(x) == x.complete => \A v \in ToSet(x.shown) : ~v.cut /\ ~v.partial
=============================================================================
