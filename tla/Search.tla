-------------------------------- MODULE Search --------------------------------
(***************************************************************************)
(* How a query finds symbols: searchNodes and its helpers                  *)
(* (src/src/db/queries.ts), the query language and the bounded edit        *)
(* distance (src/src/search/query-parser.ts) and the ranking signals       *)
(* (search/query-utils.ts).  ContextSearch.tla has the searches that       *)
(* findRelevantContext merges.                                             *)
(*                                                                         *)
(* A score is counted in sixtieths and rounded down.  A query is the       *)
(* sequence of its tokens, each a key, "" where it has none, and the parts *)
(* of its value between "::".                                              *)
(***************************************************************************)
EXTENDS NameMatching

CONSTANTS
    FtsMatches(_, _),   \* whether a word begins a word FTS5 has of a row
    Bm25(_, _),         \* the weight FTS5 gives a row for some words
    NameRank(_),        \* the place of a name in the order of names
    StopWords,          \* STOP_WORDS of search/query-utils.ts
    CommonWords,        \* commonWords of extractSymbolsFromQuery
    OverFetch,          \* FTS fetches so many times the limit, 5,
    MinFetch            \* and this many rows at least, 100

Unit          == 60
LargerOf(a, b) == IF a < b THEN b ELSE a
Halved(n)     == (n + 1) \div 2
Upto(seq, n)  == SubSeq(seq, 1, IF Len(seq) < n THEN Len(seq) ELSE n)
Cut(t, n)     == SubSeq(t, 1, Len(t) - n)
Starts(t, s)  == Len(s) <= Len(t) /\ SubSeq(t, 1, Len(s)) = s
Distinct(seq) == FoldLeft(LAMBDA s, x : IF x \in ToSet(s) THEN s ELSE Append(s, x), <<>>, seq)
Numbers(n)    == [i \in 1..n |-> i]
PathOf(f)     == Joined(f, "/")

Hit(s, score) == [node |-> s, score |-> score]
NodesOf(hits) == {hits[i].node : i \in DOMAIN hits}
Scaled(hits, New(_)) == [i \in DOMAIN hits |-> [hits[i] EXCEPT !.score = New(hits[i])]]

(* Array.sort: stable, the highest score first.                            *)
ByScore(hits) ==
    LET scores == SetToSortSeq({hits[i].score : i \in DOMAIN hits}, LAMBDA a, b : a > b)
    IN  FlattenSeq([k \in DOMAIN scores |-> SelectSeq(hits, LAMBDA h : h.score = scores[k])])
-----------------------------------------------------------------------------
(* The edit distance of two words, or at least k + 1 where it is more than *)
(* k: one row of the table after another, until a row is all above k.      *)
EditRow(prev, a, b, i) ==
    FoldLeft(LAMBDA row, j :
                 LET cost == IF SubSeq(a, i, i) = SubSeq(b, j, j) THEN 0 ELSE 1
                 IN  Append(row, Least({row[j] + 1, prev[j + 1] + 1, prev[j] + cost})),
             <<i>>, Numbers(Len(b)))
BoundedEditDistance(a, b, k) ==
    LET Step(row, i) == IF Len(row) = 1 THEN row
                        ELSE LET next == EditRow(row, a, b, i)
                             IN  IF Least(ToSet(next)) > k THEN <<k + 1>> ELSE next
    IN  IF Gap(Len(a), Len(b)) > k THEN k + 1
        ELSE IF b = "" THEN Len(a)
        ELSE Last(FoldLeft(Step, [j \in 1..(Len(b) + 1) |-> j - 1], Numbers(Len(a))))
-----------------------------------------------------------------------------
(* A query and what it filters by; a token whose key or value is not known *)
(* stays text.                                                             *)
Value(t)     == Joined(t.parts, "::")
TokenText(t) == IF t.key = "" THEN Value(t) ELSE t.key \o ":" \o Value(t)
NodeKinds == {"file", "module", "class", "struct", "interface", "trait", "protocol", "function", "method",
              "property", "field", "variable", "constant", "enum", "enum_member", "type_alias", "namespace",
              "parameter", "import", "export", "route", "component"}
Languages == JS \cup JVM \cup CXX \cup {"python", "go", "php", "ruby", "rust", "csharp", "swift", "svelte", "vue"}
IsFilter(t) == \/ t.key = "kind" /\ Value(t) \in NodeKinds
               \/ t.key \in {"lang", "language"} /\ Lower(Value(t)) \in Languages
               \/ t.key \in {"path", "name"}
Filters(query, keys) == {Lower(Value(t)) : t \in {u \in ToSet(query) : u.key \in keys /\ IsFilter(u)}}
ParseQuery(query) ==
    [text  |-> SelectSeq(query, LAMBDA t : ~IsFilter(t)),
     kinds |-> Filters(query, {"kind"}), languages |-> Filters(query, {"lang", "language"}),
     paths |-> Filters(query, {"path"}), names |-> Filters(query, {"name"})]

Texts(query)   == [i \in DOMAIN query |-> TokenText(query[i])]
Plain(words)   == [i \in DOMAIN words |-> [key |-> "", parts |-> <<words[i]>>]]
AsText(query)  == Joined(Texts(query), " ")
FtsWords(query) ==
    FlattenSeq([i \in DOMAIN query |-> <<query[i].key \o query[i].parts[1]>> \o Tail(query[i].parts)])
-----------------------------------------------------------------------------
(* Words of a query, stems among them.                                     *)
Doubled(t) == Len(t) >= 2 /\ SubSeq(t, Len(t), Len(t)) = SubSeq(t, Len(t) - 1, Len(t) - 1)
Unended(base) == <<base, base \o "e">> \o (IF Doubled(base) THEN <<Cut(base, 1)>> ELSE <<>>)
GetStemVariants(term) ==
    LET t == Lower(term)
        Ends3(end, least) == EndsWith(t, end) /\ Len(t) > least
        variants ==
            (IF Ends3("ing", 5) THEN Unended(Cut(t, 3)) ELSE <<>>) \o
            (IF Ends3("tion", 5) \/ Ends3("sion", 5) THEN <<Cut(t, 3)>> ELSE <<>>) \o
            (IF Ends3("ment", 6) THEN <<Cut(t, 4)>> ELSE <<>>) \o
            (IF Ends3("ies", 4) THEN <<Cut(t, 3) \o "y">>
             ELSE IF Ends3("es", 4) THEN <<Cut(t, 2)>>
             ELSE IF Ends3("s", 4) /\ ~EndsWith(t, "ss") THEN <<Cut(t, 1)>> ELSE <<>>) \o
            (IF Ends3("ed", 4) /\ ~EndsWith(t, "eed") THEN <<Cut(t, 1), Cut(t, 2)>> ELSE <<>>) \o
            (IF Ends3("ied", 5) THEN <<Cut(t, 3) \o "y">> ELSE <<>>) \o
            (IF Ends3("er", 4) THEN Unended(Cut(t, 2)) ELSE <<>>)
    IN  SelectSeq(Distinct(variants), LAMBDA v : Len(v) >= 3 /\ v # t)

(* Compounds whole, then the words they and the others are made of.        *)
BaseTerms(words) ==
    LET compounds == SelectSeq(words, LAMBDA w : Len(Words(w)) > 1)
        parts == FlattenSeq([i \in DOMAIN words |-> Words(words[i])])
    IN  Distinct([i \in DOMAIN compounds |-> Lower(compounds[i])] \o
                 SelectSeq(parts, LAMBDA w : Len(w) >= 3 /\ w \notin StopWords))
ExtractSearchTerms(words) ==
    LET base  == BaseTerms(words)
        stems == FlattenSeq([i \in DOMAIN base |-> GetStemVariants(base[i])])
    IN  Distinct(base \o SelectSeq(stems, LAMBDA v : v \notin StopWords))

(* What may be a symbol: names with a capital first, then other words.     *)
ExtractSymbols(words) ==
    LET named == SelectSeq(words, LAMBDA w : Lower(w) # w /\ Len(w) >= 2)
        plain == SelectSeq(words, LAMBDA w : Lower(w) = w /\ Len(w) >= 3)
    IN  SelectSeq(Distinct(named \o plain), LAMBDA w : Lower(w) \notin CommonWords)
-----------------------------------------------------------------------------
(* Ranking signals.                                                        *)
AnyIncluded(t, S) == \E s \in S : Includes(t, s)
AsksForTests(query) == AnyIncluded(Lower(AsText(query)), {"test", "spec"})

Stem(name) ==
    LET dots == {i \in 1..Len(name) : SubSeq(name, i, i) = "."}
    IN  IF dots = {} THEN "" ELSE SubSeq(name, 1, (CHOOSE i \in dots : \A j \in dots : j <= i) - 1)
TestDirs == {"tests", "test", "spec", "specs", "integration", "sample", "samples", "example", "examples",
             "fixture", "fixtures", "benchmark", "benchmarks", "demo", "demos"}
IsTestFile(f) ==
    LET name == Last(f)
        stem == Stem(name)
    IN  \/ Starts(Lower(name), "test_") \/ Starts(Lower(name), "test.")
        \/ \E sep \in {".", "_", "-"}, end \in {"test", "tests", "spec", "specs"} : EndsWith(Lower(stem), sep \o end)
        \/ \E end \in {"Test", "Tests", "TestCase", "Tester", "Spec", "Specs"} : EndsWith(stem, end)
        \/ \E i \in 1..(Len(f) - 1) :
               \/ Lower(f[i]) \in TestDirs
               \/ i > 1 /\ Lower(f[i]) \in {"__tests__", "testlib", "testing"}
               \/ \E end \in {"Test", "Tests", "Spec"} : EndsWith(f[i], end)

ScorePathRelevance(f, query) ==
    LET terms == BaseTerms(FlattenSeq([i \in DOMAIN query |-> query[i].parts]))
        name  == Lower(Last(f))
        dir   == Lower(Joined(Front(f), "/"))
        Worth(t) == (IF Includes(name, t) THEN 10 ELSE 0) +
                    (IF Includes(dir, t) THEN 5 ELSE IF Includes(Lower(PathOf(f)), t) THEN 3 ELSE 0)
    IN  IF terms = <<>> THEN 0
        ELSE FoldLeft(LAMBDA sum, t : sum + Worth(t), 0, terms) -
             (IF IsTestFile(f) /\ ~AsksForTests(query) THEN 15 ELSE 0)

NameMatchBonus(name, query) ==
    LET low    == Lower(name)
        whole  == Lower(Joined(Texts(query), ""))
        tokens == SelectSeq([i \in DOMAIN query |-> Lower(TokenText(query[i]))], LAMBDA t : Len(t) >= 2)
        terms  == SelectSeq(FlattenSeq([i \in DOMAIN query |-> Words(TokenText(query[i]))]), LAMBDA t : Len(t) >= 2)
    IN  IF low = whole THEN 80
        ELSE IF Len(tokens) > 1 /\ low \in ToSet(tokens) THEN 60
        ELSE IF Starts(low, whole) THEN 10 + (60 * Len(whole) + Len(low)) \div (2 * Len(low))
        ELSE IF Len(terms) > 1 /\ \A i \in DOMAIN terms : Includes(low, terms[i]) THEN 15
        ELSE IF Includes(low, whole) THEN 10 ELSE 0

KindWeight(kind) ==
    CASE kind \in {"function", "method"} -> 10     [] kind \in {"interface", "trait", "route", "protocol"} -> 9
      [] kind \in {"class", "component"} -> 8      [] kind \in {"type_alias", "struct"} -> 6
      [] kind = "enum" -> 5                        [] kind \in {"module", "namespace"} -> 4
      [] kind \in {"property", "field", "constant", "enum_member"} -> 3
      [] kind = "variable" -> 2                    [] kind \in {"import", "export"} -> 1
      [] OTHER -> 0
-----------------------------------------------------------------------------
(* The rows a search may answer with.  No kinds or languages means any.    *)
Admitted(s, o) == (o.kinds = {} \/ s.kind \in o.kinds) /\ (o.languages = {} \/ s.lang \in o.languages)
Rows(o, Test(_)) == SelectSeq(table, LAMBDA s : Admitted(s, o) /\ Test(s))

(* FTS5: a row of which some word begins with a word of the text.          *)
SearchNodesFTS(query, o) ==
    LET terms == SelectSeq(FtsWords(query), LAMBDA w : Lower(w) \notin {"and", "or", "not", "near"})
        hits  == Rows(o, LAMBDA s : \E i \in DOMAIN terms : FtsMatches(terms[i], s))
    IN  Upto(Drop(ByScore([i \in DOMAIN hits |-> Hit(hits[i], Bm25(terms, hits[i]))]), o.offset),
             LargerOf(o.limit * OverFetch, MinFetch))

(* LIKE: letters of either case, and "_" of the text is any letter.        *)
Fits(pattern, t) ==
    /\ Len(pattern) = Len(t)
    /\ \A i \in 1..Len(t) : SubSeq(pattern, i, i) \in {"_", SubSeq(t, i, i)}
LikeStart(t, p) == Len(p) <= Len(t) /\ Fits(Lower(p), SubSeq(Lower(t), 1, Len(p)))
LikePart(t, p)  == \E i \in 0..(Len(t) - Len(p)) : Fits(Lower(p), SubSeq(Lower(t), i + 1, i + Len(p)))
ShortFirst(nodes) == ByScore([i \in DOMAIN nodes |-> Hit(nodes[i], 0 - Len(nodes[i].name))])

SearchNodesLike(query, o) ==
    LET p == AsText(query)
        Worth(s) == IF s.name = p THEN 60 ELSE IF LikeStart(s.name, p) THEN 54
                    ELSE IF LikePart(s.name, p) THEN 48 ELSE 42
        hits == ShortFirst(Rows(o, LAMBDA s : LikePart(s.name, p) \/ LikePart(s.qname, p)))
    IN  Upto(Drop(ByScore(Scaled(hits, LAMBDA h : Worth(h.node))), o.offset), o.limit)

(* The names nearest to the text, with at most five symbols of each.       *)
FuzzyDistance(text) == IF Len(text) <= 4 THEN 1 ELSE 2
SearchNodesFuzzy(query, o) ==
    LET text  == Lower(AsText(query))
        most  == FuzzyDistance(text)
        names == Distinct([i \in DOMAIN table |-> table[i].name])
        near  == SelectSeq([i \in DOMAIN names |->
                               [name |-> names[i], dist |-> BoundedEditDistance(Lower(names[i]), text, most)]],
                           LAMBDA c : c.dist <= most)
        first == FlattenSeq([d \in 1..(most + 1) |-> SelectSeq(near, LAMBDA c : c.dist = d - 1)])
        kept  == Upto(first, LargerOf(2 * o.limit, 50))
        HitsOf(c) == LET own == Upto(Rows(o, LAMBDA s : s.name = c.name), 5)
                     IN  [i \in DOMAIN own |-> Hit(own[i], Unit \div (1 + c.dist))]
    IN  Upto(FlattenSeq([i \in DOMAIN kept |-> HitsOf(kept[i])]), o.limit)

SearchAllByFilters(o, n) ==
    LET all == Rows(o, LAMBDA s : TRUE)
    IN  Upto(Scaled(ByScore([i \in DOMAIN all |-> Hit(all[i], 0 - NameRank(all[i].name))]), LAMBDA h : Unit), n)

WithoutExactNames(hits, query, o) == hits

(* Rows of exactly a name of the query join whatever the text found.       *)
WithExactNames(hits, query, o) ==
    LET most  == CHOOSE h \in ToSet(hits) : \A g \in ToSet(hits) : g.score <= h.score
        terms == SelectSeq(Texts(query), LAMBDA t : Len(t) >= 2)
        named == FlattenSeq([i \in DOMAIN terms |-> Upto(Rows(o, LAMBDA s : Lower(s.name) = Lower(terms[i])), 20)])
        new   == SelectSeq(Distinct(named), LAMBDA s : s \notin NodesOf(hits))
    IN  IF hits = <<>> THEN hits ELSE hits \o [i \in DOMAIN new |-> Hit(new[i], most.score)]

SignalsOf(s, query) ==
    KindWeight(s.kind) + ScorePathRelevance(s.file, query) + NameMatchBonus(s.name, query)

(* The trim to the limit comes before the filters on path and name.        *)
SearchNodes(query, given) ==
    LET p    == ParseQuery(query)
        o    == [given EXCEPT !.kinds = IF p.kinds = {} THEN @ ELSE @ \cup p.kinds,
                              !.languages = IF p.languages = {} THEN @ ELSE @ \cup p.languages]
        size == Len(AsText(p.text))
        fts  == IF size > 0 THEN SearchNodesFTS(p.text, o) ELSE SearchAllByFilters(o, 5 * o.limit)
        like == IF fts = <<>> /\ size >= 2 THEN SearchNodesLike(p.text, o) ELSE fts
        hits == IF like = <<>> /\ size >= 3 THEN SearchNodesFuzzy(p.text, o) ELSE like
        text == IF size > 0 THEN p.text ELSE query
        best == Upto(ByScore(Scaled(WithExactNames(hits, query, o), LAMBDA h : h.score + Unit * SignalsOf(h.node, text))), o.limit)
    IN  SelectSeq(best, LAMBDA h : /\ p.paths = {} \/ AnyIncluded(Lower(PathOf(h.node.file)), p.paths)
                                   /\ p.names = {} \/ AnyIncluded(Lower(h.node.name), p.names))
-----------------------------------------------------------------------------
(* The words a given number of edits away: letters put in, left out or     *)
(* replaced.                                                               *)
Edits(w, letters) ==
    LET Split(i, gone, mid) == SubSeq(w, 1, i) \o mid \o SubSeq(w, i + 1 + gone, Len(w))
    IN  {Split(i, 0, c) : i \in 0..Len(w), c \in letters}
          \cup {Split(i, 1, c) : i \in 0..(Len(w) - 1), c \in letters \cup {""}}
EditDistanceHolds(words, letters) ==
    \A a \in words :
        LET one == Edits(a, letters)
            two == UNION {Edits(w, letters) : w \in one}
        IN  \A b \in words :
                LET d == IF a = b THEN 0 ELSE IF b \in one THEN 1 ELSE IF b \in two THEN 2 ELSE 3
                IN  \A k \in 1..2 : IF d <= k THEN BoundedEditDistance(a, b, k) = d
                                   ELSE BoundedEditDistance(a, b, k) > k

(* Answers are rows of the kinds asked for, each once, no more than asked. *)
AnswersHold(query, o) ==
    LET hits == SearchNodes(query, o)
    IN  /\ Len(hits) <= o.limit /\ Cardinality(NodesOf(hits)) = Len(hits)
        /\ \A h \in ToSet(hits) : Admitted(h.node, [o EXCEPT !.kinds = IF @ = {} THEN @ ELSE @ \cup ParseQuery(query).kinds])

(* Whatever weight the text gives the rows, those of exactly the name that *)
(* was asked for come before what kind and path do not favour.             *)
ExactNamesHold(word, o) ==
    LET hits  == SearchNodes(Plain(<<word>>), o)
        exact == {s \in ToSet(table) : Admitted(s, o) /\ Lower(s.name) = Lower(word)}
        Favour(s) == KindWeight(s.kind) + ScorePathRelevance(s.file, Plain(<<word>>))
        Ahead(s)  == {i \in DOMAIN hits : \A j \in 1..i : hits[j].node # s}
    IN  \A s \in exact :
            /\ s \notin NodesOf(hits) => Len(hits) = o.limit
            /\ \A i \in Ahead(s) : hits[i].node \in exact \/ Favour(hits[i].node) > Favour(s)

(* A word that nothing begins with or contains finds the names nearest to  *)
(* it, and only those.                                                     *)
TyposHold(word, o) ==
    LET q == Plain(<<word>>)
        hits == SearchNodes(q, o)
        near == {s \in ToSet(table) : Admitted(s, o) /\ BoundedEditDistance(Lower(s.name), Lower(word), 2) <= FuzzyDistance(word)}
    IN  (Len(word) >= 3 /\ SearchNodesFTS(q, o) = <<>> /\ SearchNodesLike(q, o) = <<>>) =>
            /\ NodesOf(hits) \subseteq near
            /\ near # {} => hits # <<>>
=============================================================================
