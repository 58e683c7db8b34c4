---------------------------- MODULE NameMatching ----------------------------
(***************************************************************************)
(* How a name is matched with the symbols of the index where no import     *)
(* says which is meant: src/src/resolution/name-matcher.ts.  Confidences   *)
(* and scores are in hundredths.                                           *)
(***************************************************************************)
EXTENDS ImportResolution

CONSTANTS
    Lower(_),       \* the lower case of a name
    Capital(_),     \* a name with its first letter capitalised
    Words(_),       \* splitCamelCase of a name or a qualified name, lowered
    NonTypes        \* CPP_NON_TYPE_TOKENS

Least(S)      == CHOOSE x \in S : \A y \in S : x <= y
Gap(a, b)     == IF a < b THEN b - a ELSE a - b
Types         == {"class", "struct", "interface"}
Callables     == {"function", "method"}

SameLang(ref, seq) == SelectSeq(seq, LAMBDA s : s.lang = ref.lang)
OneLink(hit, score) == IF hit = <<>> THEN <<>> ELSE Link(hit[1], score)
-----------------------------------------------------------------------------
(* A path: the file of that path, of that ending, or the only one so named.*)
MatchByFilePath(ref) ==
    LET files == SelectSeq(GetNodesByName(Last(ref.parts)), LAMBDA s : s.kind = "file")
        exact == Find(files, LAMBDA s : s.file = ref.parts)
        tail  == Find(files, LAMBDA s : EndsWith(Joined(s.file, "/"), Text(ref)))
    IN  IF ref.sep # "/" THEN <<>>
        ELSE IF exact # <<>> THEN Link(exact[1], 95)
        ELSE IF tail # <<>> THEN Link(tail[1], 85)
        ELSE IF Len(files) = 1 THEN Link(files[1], 70) ELSE <<>>

(* A qualified name: the only symbol of it, or the first whose qualified   *)
(* name ends like it.                                                      *)
MatchByQualifiedName(ref) ==
    LET exact == GetNodesByQualifiedName(Text(ref))
        tail  == Find(GetNodesByName(Last(ref.parts)), LAMBDA s : EndsWith(s.qname, Text(ref)))
    IN  IF ref.sep \notin {".", "::"} THEN <<>>
        ELSE IF Len(exact) = 1 THEN Link(exact[1], 95)
        ELSE OneLink(tail, 85)
-----------------------------------------------------------------------------
(* Methods.                                                                *)
ResolveMethodOnType(type, name, ref, fqn) ==
    LET want  == type \o "::" \o name
        found == SelectSeq(SameLang(ref, GetNodesByName(name)), LAMBDA s :
                     s.kind = "method" /\ (s.qname = want \/ EndsWith(s.qname, "::" \o want)))
        named == Find(found, LAMBDA s : fqn # <<>> /\ OnPath(s, fqn[1]))
    IN  IF found = <<>> THEN <<>>
        ELSE IF Len(found) > 1 /\ named # <<>> THEN Link(named[1], 90) ELSE Link(found[1], 90)

(* The last declaration of the receiver at or above the call, whatever     *)
(* function it stands in, and else the first in a header of the file.      *)
Headers(f) ==
    LET stem == CHOOSE t \in {<<d, e>> \in {Last(f)} \X {".cpp", ".cc", ".c", ".cxx", ""} : EndsWith(d, e)} : TRUE
        base == SubSeq(Last(f), 1, Len(Last(f)) - Len(stem[2]))
    IN  SelectSeq([i \in 1..3 |-> Append(Front(f), base \o <<".h", ".hpp", ".hxx">>[i])], FileExists)
DeclarationsIn(f, receiver) ==
    SelectSeq(project.declarations[f], LAMBDA d : d.name = receiver /\ d.type \notin NonTypes)
InferCppReceiverType(receiver, ref) ==
    LET above == SelectSeq(DeclarationsIn(ref.file, receiver), LAMBDA d : d.line <= ref.line)
        hs    == Headers(ref.file)
        inH   == FlattenSeq([i \in DOMAIN hs |-> DeclarationsIn(hs[i], receiver)])
    IN  IF above # <<>> THEN <<Last(above).type>> ELSE IF inH # <<>> THEN <<inH[1].type>> ELSE <<>>

(* The type of the field of that name in the innermost type about the call.*)
InferJavaFieldReceiverType(receiver, ref) ==
    LET nodes == SameLang(ref, GetNodesInFile(ref.file))
        about == SelectSeq(nodes, LAMBDA s : s.kind \in {"class", "interface"} /\ s.line <= ref.line /\ s.end >= ref.line)
        field == Find(nodes, LAMBDA s : s.kind = "field" /\ s.name = receiver
                                        /\ s.line >= Last(about).line /\ s.end <= Last(about).end)
    IN  IF about = <<>> THEN <<>>
        ELSE IF field = <<>> THEN <<>> ELSE IF field[1].type = None THEN <<>> ELSE <<field[1].type>>

TypedMatch(receiver, name, ref) ==
    IF ref.sep # "." THEN <<>>
    ELSE IF ref.lang = "cpp"
    THEN LET type == InferCppReceiverType(receiver, ref)
         IN  IF type = <<>> THEN <<>> ELSE ResolveMethodOnType(type[1], name, ref, <<>>)
    ELSE IF ref.lang \in JVM
    THEN LET type == InferJavaFieldReceiverType(receiver, ref)
             named == IF type = <<>> THEN <<>>
                      ELSE Find(GetImportMappings(ref.file, ref.lang), LAMBDA m : m.local = type[1])
         IN  IF type = <<>> THEN <<>>
             ELSE ResolveMethodOnType(type[1], name, ref, [i \in DOMAIN named |-> named[i].source])
    ELSE <<>>

(* The first type of the name whose file has a method of the name under a  *)
(* qualified name in which the type's name occurs.                         *)
Includes(t, s) == \E i \in 0..(Len(t) - Len(s)) : SubSeq(t, i + 1, i + Len(s)) = s
MethodNear(c, name) ==
    Find(GetNodesInFile(c.file), LAMBDA s : s.kind = "method" /\ s.name = name /\ Includes(s.qname, c.name))
MethodOfClass(class, name, ref) ==
    LET classes == SelectSeq(SameLang(ref, GetNodesByName(class)), LAMBDA s : s.kind \in Types)
    IN  FirstHit([i \in DOMAIN classes |-> MethodNear(classes[i], name)])

(* By the name alone, or by the words its type and the receiver share.     *)
Overlap(ref, s) ==
    Cardinality(ToSet(Words(ref.parts[1])) \cap ToSet(Words(s.qname))) + (IF s.lang = ref.lang THEN 1 ELSE 0)
BestOf(seq, Of(_), floor) ==
    LET top == {i \in DOMAIN seq : Of(seq[i]) > floor /\ \A j \in DOMAIN seq : Of(seq[j]) <= Of(seq[i])}
    IN  IF top = {} THEN <<>> ELSE <<seq[Least(top)]>>
MethodByOverlap(ref, name) ==
    LET methods == SelectSeq(GetNodesByName(name), LAMBDA s : s.kind = "method")
        own     == SameLang(ref, methods)
        these   == IF own # <<>> THEN own ELSE methods
    IN  IF Len(own) = 1 THEN Link(own[1], 70)
        ELSE IF Len(these) > 1 THEN OneLink(BestOf(these, LAMBDA s : Overlap(ref, s), 1), 65) ELSE <<>>

MatchMethodCall(ref) ==
    LET receiver == ref.parts[1]
        name     == ref.parts[2]
        typed    == TypedMatch(receiver, name, ref)
        named    == MethodOfClass(receiver, name, ref)
        capital  == MethodOfClass(Capital(receiver), name, ref)
    IN  IF Len(ref.parts) # 2 \/ ref.sep \notin {".", "::"} THEN <<>>
        ELSE IF typed # <<>> THEN typed
        ELSE IF named # <<>> THEN Link(named[1], 85)
        ELSE IF Capital(receiver) # receiver /\ capital # <<>> THEN Link(capital[1], 80)
        ELSE MethodByOverlap(ref, name)
-----------------------------------------------------------------------------
(* Plain names.                                                            *)
ComputePathProximity(f, g) ==
    LET a == Front(f)
        b == Front(g)
        n == Cardinality({i \in DOMAIN a : i \in DOMAIN b /\ SubSeq(a, 1, i) = SubSeq(b, 1, i)})
    IN  IF n * 15 > 80 THEN 80 ELSE n * 15

KindBonus(kind, s) ==
    CASE kind = "calls" /\ s.kind \in Callables -> 25
      [] kind = "instantiates" /\ s.kind \in Types -> 25
      [] kind = "decorates" /\ s.kind \in Callables -> 25
      [] kind = "decorates" /\ s.kind \in {"class", "interface"} -> 15
      [] OTHER -> 0

(* Lines count in tenths, so every score is ten times what the code adds.  *)
Nearness(ref, s) == IF Gap(s.line, ref.line) > 200 THEN 0 ELSE 200 - Gap(s.line, ref.line)

(* Mutation: a file is no better than another of its directory.            *)
ScoreApart(ref, s) ==
    10 * (ComputePathProximity(ref.file, s.file) + (IF s.lang = ref.lang THEN 50 ELSE -80)
          + KindBonus(ref.kind, s) + (IF s.exported THEN 10 ELSE 0))

Score(ref, s) ==
    10 * ((IF s.file = ref.file THEN 100 ELSE 0)
          + ComputePathProximity(ref.file, s.file)
          + (IF s.lang = ref.lang THEN 50 ELSE -80)
          + KindBonus(ref.kind, s)
          + (IF s.exported THEN 10 ELSE 0))
    + IF s.file = ref.file THEN Nearness(ref, s) ELSE 0

(* The first of the best; one whose score is below zero is never the best. *)
FindBestMatch(ref, candidates) == BestOf(candidates, LAMBDA s : Score(ref, s), -10)

MatchByExactName(ref) ==
    LET all  == GetNodesByName(Text(ref))
        best == FindBestMatch(ref, all)
    IN  IF Len(all) = 1 THEN Link(all[1], IF all[1].lang = ref.lang THEN 90 ELSE 50)
        ELSE IF all = <<>> \/ best = <<>> THEN <<>>
        ELSE Link(best[1], IF ComputePathProximity(ref.file, best[1].file) >= 30 THEN 70 ELSE 40)

MatchFuzzy(ref) ==
    LET all   == SelectSeq(table, LAMBDA s : Lower(s.name) = Lower(Text(ref)) /\ s.kind \in Callables \cup {"class"})
        own   == SameLang(ref, all)
        these == IF own # <<>> THEN own ELSE all
    IN  IF Len(these) = 1 THEN Link(these[1], IF these[1].lang = ref.lang THEN 50 ELSE 30) ELSE <<>>

MatchReference(ref) ==
    FirstHit(<<MatchByFilePath(ref), MatchByQualifiedName(ref), MatchMethodCall(ref),
               MatchByExactName(ref), MatchFuzzy(ref)>>)
=============================================================================
