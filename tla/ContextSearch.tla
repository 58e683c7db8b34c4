----------------------------- MODULE ContextSearch -----------------------------
(***************************************************************************)
(* The searches findRelevantContext (src/src/context/index.ts) makes for a *)
(* question, and how it merges what they find.  The question is a sequence *)
(* of words; an answer is a sequence of nodes with their scores, the best  *)
(* first, and becomes `found' in ContextSelection.tla.  The directory of the file     *)
(* that holds most calls, when it has three times those of the next, is    *)
(* o.core (getDominantFile), and None otherwise.                           *)
(***************************************************************************)
EXTENDS Search

Definition  == {"class", "interface", "struct", "trait", "protocol", "enum", "type_alias"}
Searched(o) == IF o.kinds # {} THEN o.kinds ELSE NodeKinds \ {"import", "parameter"}
Asking(kinds, n) == [kinds |-> kinds, languages |-> {}, limit |-> n, offset |-> 0]
TitleCased(w) == Capital(Lower(w))
SoNamed(s, w)   == Lower(s.name) = Lower(w)

(* Rows so named, those first that stand in a file with a rare name of the *)
(* question.  A kind, not a language, decides which names are rare.        *)
FindNodesByExactName(names, o) ==
    LET Files(w) == {s.file : s \in {r \in ToSet(table) : SoNamed(r, w) /\ (o.kinds = {} \/ r.kind \in o.kinds)}}
        rare == UNION {Files(names[i]) : i \in {j \in DOMAIN names : Cardinality(Files(names[j])) < 10}}
        each == LargerOf(8, (o.limit + Len(names) - 1) \div Len(names))
        OneName(hits, w) ==
            LET rows == Upto(Rows(o, LAMBDA s : SoNamed(s, w)), LargerOf(3 * each, 50))
                new  == SelectSeq(rows, LAMBDA s : s \notin NodesOf(hits))
            IN  hits \o Upto(ByScore([i \in DOMAIN new |-> Hit(new[i], IF new[i].file \in rare THEN 21 * Unit ELSE Unit)]), each)
    IN  IF names = <<>> THEN <<>> ELSE Upto(ByScore(FoldLeft(OneName, <<>>, names)), o.limit)

(* Step 2: each further name of the question in its file adds to a row.    *)
ExactMatches(symbols, o) ==
    LET hits == FindNodesByExactName(symbols, Asking(o.kinds, 5 * o.searchLimit))
        Beside(h) == Cardinality({Lower(g.node.name) : g \in {x \in ToSet(hits) : x.node.file = h.node.file}})
    IN  Upto(ByScore(Scaled(hits, LAMBDA h : h.score + 20 * Unit * (Beside(h) - 1))), 2 * o.searchLimit)

(* Step 2b: types whose name begins with a symbol or a stem of one.        *)
Expanded(symbols) == Distinct(symbols \o FlattenSeq([i \in DOMAIN symbols |-> GetStemVariants(symbols[i])]))
WithDefinitions(exact, symbols, o) ==
    LET OneName(hits, w) ==
            LET t    == TitleCased(w)
                all  == SearchNodes(Plain(<<t>>), Asking(Definition, 30))
                fits == SelectSeq(all, LAMBDA h : Starts(Lower(h.node.name), Lower(t)))
                best == Upto(ByScore(Scaled(fits, LAMBDA h :
                            h.score + 15 * Unit + LargerOf(0, 10 * Unit - 20 * (Len(h.node.name) - Len(t))))), o.searchLimit)
            IN  IF t = w THEN hits ELSE hits \o SelectSeq(best, LAMBDA h : h.node \notin NodesOf(hits))
    IN  IF symbols = <<>> THEN exact
        ELSE Upto(ByScore(FoldLeft(OneName, exact, Expanded(symbols))), 3 * o.searchLimit)

(* The first hit of a node stands for it, with what all its hits make.     *)
Joining(hits, Total(_)) ==
    LET Own(s) == SelectSeq(hits, LAMBDA h : h.node = s)
        nodes == Distinct([i \in DOMAIN hits |-> hits[i].node])
    IN  [i \in DOMAIN nodes |-> Hit(nodes[i], Total(Own(nodes[i])))]
Most(hits) == LET S == {hits[i].score : i \in DOMAIN hits} IN CHOOSE x \in S : \A y \in S : y <= x

(* Step 3: each word and stem for itself, and more for what several find.  *)
TextResults(question, o) ==
    LET terms == ExtractSearchTerms(question)
        hits  == FlattenSeq([i \in DOMAIN terms |-> SearchNodes(Plain(<<terms[i]>>), Asking(Searched(o), 2 * o.searchLimit))])
    IN  Upto(ByScore(Joining(hits, LAMBDA own : Most(own) + 5 * Unit * (Len(own) - 1))), 2 * o.searchLimit)

(* Step 4: the best score of either; tests count less, the core more.      *)
Merged(exact, text, question, o) ==
    LET tests == AsksForTests(Plain(question))
                Placed(h) == (IF IsTestFile(h.node.file) /\ ~tests THEN (3 * h.score) \div 10 ELSE h.score)
                     + (IF o.core # None /\ IsPrefix(o.core, h.node.file) THEN 25 * Unit ELSE 0)
    IN  Scaled(Joining(exact \o text, Most), Placed)

(* Step 5a: words that contain one another count as one.                   *)
TermGroups(terms) ==
    LET longest == ByScore([i \in DOMAIN terms |-> Hit(terms[i], Len(terms[i]))])
        Group(groups, h) ==
            LET t == h.node
            IN  IF t \in UNION ToSet(groups) THEN groups
                ELSE Append(groups, {t} \cup {u \in ToSet(terms) \ UNION ToSet(groups) : Includes(t, u) \/ Includes(u, t)})
    IN  FoldLeft(Group, <<>>, longest)
Concepts(s, groups) ==
    Cardinality({i \in DOMAIN groups : \E t \in groups[i] :
        Includes(Lower(s.name), t) \/ \E j \in 1..(Len(s.file) - 1) : Lower(s.file[j]) = t})
ByConcepts(hits, exact, question) ==
    LET terms  == ExtractSearchTerms(question)
        groups == TermGroups(terms)
        Weighed(h) == LET n == Concepts(h.node, groups)
                      IN  IF n >= 2 THEN (h.score * (2 + n)) \div 2
                          ELSE IF h.node \in NodesOf(exact) THEN h.score ELSE (6 * h.score) \div 10
    IN  IF Len(terms) < 2 THEN hits ELSE ByScore(Scaled(hits, Weighed))

(* Types whose name has the symbol in it, shorter names first.             *)
FindNodesByNameSubstring(t, notFirst) ==
    Upto(ShortFirst(Rows(Asking(Definition, 0), LAMBDA s :
             LikePart(s.name, t) /\ ~(notFirst /\ LikeStart(s.name, t)))), 200)
Fresh(hits, seen, question) ==
    SelectSeq(hits, LAMBDA h : h.node \notin seen /\ (IsTestFile(h.node.file) => AsksForTests(Plain(question))))
Titles(symbols) == SelectSeq([i \in DOMAIN symbols |-> TitleCased(symbols[i])], LAMBDA t : Len(t) >= 3)

(* Step 5b: a hump inside the name.                                        *)
NoLetters == {"_", "$", "0", "1", "2", "3", "4", "5", "6", "7", "8", "9"}
AtHump(name, t) ==
    LET at == {i \in 2..(Len(name) - Len(t) + 1) : SubSeq(name, i, i + Len(t) - 1) = t}
    IN  /\ at # {} /\ ~Starts(name, t)
        /\ Lower(SubSeq(name, Least(at) - 1, Least(at) - 1)) \notin NoLetters
CamelMatches(symbols, seen, question, o) ==
    LET titles == Distinct(Titles(symbols))
        Worth(h, t) == Unit * (8 + ScorePathRelevance(h.node.file, Plain(question)))
                       + LargerOf(0, 6 * Unit - 15 * (Len(h.node.name) - Len(t)))
        Of(t) == LET fits == SelectSeq(Fresh(FindNodesByNameSubstring(t, TRUE), seen, question), LAMBDA h : AtHump(h.node.name, t))
                 IN  Upto(ByScore(Scaled(fits, LAMBDA h : Worth(h, t))), 4 * Halved(o.searchLimit))
        hits  == FlattenSeq([i \in DOMAIN titles |-> Of(titles[i])])
    IN  Upto(ByScore(Joining(hits, LAMBDA own : own[1].score * (1 + Len(own)) + 30 * Unit * (Len(own) - 1))), o.searchLimit)

(* Step 5c: two symbols anywhere in the name.                              *)
CompoundMatches(symbols, seen, question, o) ==
    LET titles == Distinct(Titles(symbols))
        hits == FlattenSeq([i \in DOMAIN titles |-> Fresh(FindNodesByNameSubstring(titles[i], FALSE), seen, question)])
        twice == SelectSeq(Joining(hits, Len), LAMBDA h : h.score >= 2)
        Worth(h) == Unit * (10 + 20 * (h.score - 1) + ScorePathRelevance(h.node.file, Plain(question)))
                    + LargerOf(0, 48 * Unit - Unit * Len(h.node.name)) \div 8
    IN  IF Len(symbols) < 2 THEN <<>> ELSE Upto(ByScore(Scaled(twice, Worth)), Halved(o.searchLimit))
WithCamel(hits, symbols, question, o) == hits \o CamelMatches(symbols, NodesOf(hits), question, o)
WithCompounds(hits, symbols, question, o) == hits \o CompoundMatches(symbols, NodesOf(hits), question, o)

SearchForContext(question, o) ==
    LET symbols == ExtractSymbols(question)
        exact   == WithDefinitions(ExactMatches(symbols, o), symbols, o)
        merged  == ByConcepts(Merged(exact, TextResults(question, o), question, o), exact, question)
        camel   == WithCamel(merged, symbols, question, o)
        all     == WithCompounds(camel, symbols, question, o)
    IN  SelectSeq(Upto(ByScore(all), 3 * o.searchLimit), LAMBDA h : h.score >= o.minScore)
-----------------------------------------------------------------------------
(* However many searches find a node it is ranked once, by its score, and  *)
(* no more is ranked than asked for.                                       *)
RankedOnce(question, o) ==
    LET hits == SearchForContext(question, o)
    IN  /\ Cardinality(NodesOf(hits)) = Len(hits) /\ Len(hits) <= 3 * o.searchLimit
        /\ \A i \in 1..(Len(hits) - 1) : hits[i].score >= hits[i + 1].score
=============================================================================
