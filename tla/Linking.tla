------------------------------ MODULE Linking ------------------------------
(***************************************************************************)
(* How the references of an indexed project become edges: resolveOne and   *)
(* createEdges of src/src/resolution/index.ts over the tables as they      *)
(* stand.  The files of a project are stored whole, one after another, in  *)
(* the order in which they happen to be parsed, and some may be missing;   *)
(* every state is an index the extractor leaves.                           *)
(***************************************************************************)
EXTENDS Frameworks

CONSTANTS
    Projects,       \* the projects considered
    BuiltIns,       \* names a language provides, per language
    Receivers,      \* receivers it provides: console, list, fmt, std
    PythonMethods,  \* PYTHON_BUILT_IN_METHODS
    CFunctions      \* C_BUILT_INS and CPP_BUILT_INS

Init ==
    /\ project \in Projects
    /\ table = <<>>

(* The nodes of a file become rows together, in the order of the walk.     *)
Store(f) ==
    /\ \A i \in DOMAIN table : table[i].file # f
    /\ table' = table \o project.nodes[f]
    /\ UNCHANGED project

Next == \E f \in DOMAIN project.nodes : Store(f)
Spec == Init /\ [][Next]_vars
-----------------------------------------------------------------------------
KnownNames == {table[i].name : i \in DOMAIN table}

HasAnyPossibleMatch(ref) ==
    \/ Text(ref) \in KnownNames
    \/ ref.sep \in {".", "::"} /\ {ref.parts[1], MemberOf(ref)} \cap KnownNames # {}
    \/ ref.sep = "." /\ {Capital(ref.parts[1]), Last(ref.parts)} \cap KnownNames # {}
    \/ ref.sep = "/" /\ Last(ref.parts) \in KnownNames

(* What the language provides: for good, or while nobody declares it.      *)
IsProvided(ref) ==
    \/ Text(ref) \in BuiltIns[ref.lang]
    \/ Len(ref.parts) > 1 /\ ref.parts[1] \in Receivers[ref.lang]

IsBuiltInOrExternal(ref) ==
    \/ IsProvided(ref)
    \/ /\ ref.lang = "python" /\ ref.sep = "." /\ MemberOf(ref) \in PythonMethods
       /\ Capital(ref.parts[1]) \notin KnownNames
    \/ ref.lang = "python" /\ Text(ref) \in PythonMethods \ KnownNames
    \/ ref.lang \in CXX /\ Text(ref) \in CFunctions /\ ~HasAnyPossibleMatch(ref)

(* The surest answer, and the first of those.                              *)
Surest(links) == BestOf(links, LAMBDA l : l.score, 0)

ResolveOne(ref) ==
    LET jvm == ResolveJvmImport(ref)
        fws == FrameworkLinks(ref)
        imp == ResolveViaImport(ref)
    IN  IF IsBuiltInOrExternal(ref) THEN <<>>
        ELSE IF ~HasAnyPossibleMatch(ref) /\ ~MatchesAnyImport(ref) /\ ~ClaimedBySome(ref) THEN <<>>
        ELSE IF jvm # <<>> THEN jvm
        ELSE IF fws # <<>> /\ Last(fws).score >= 90 THEN <<Last(fws)>>
        ELSE IF imp # <<>> THEN imp
        ELSE Surest(fws \o MatchReference(ref))

(* Extending an interface is implementing it, calling a class making one.  *)
EdgeKind(ref, to) ==
    CASE ref.kind = "extends" /\ to.kind \in {"interface", "protocol"} /\ ref.from.kind \notin {"interface", "protocol"} -> "implements"
      [] ref.kind = "calls" /\ to.kind \in {"class", "struct"} -> "instantiates"
      [] OTHER -> ref.kind
CreateEdge(ref) ==
    LET l == ResolveOne(ref)
    IN  IF l = <<>> THEN {} ELSE {[source |-> ref.from, target |-> l[1].to, kind |-> EdgeKind(ref, l[1].to)]}
-----------------------------------------------------------------------------
(* What a name exported by a file means: the declarations reached by       *)
(* following re-exports, each with the name it has there.                  *)
Onward(x) ==
    LET res == ToSet(GetReExports(x.file, x.lang))
        to  == {[at |-> ResolveImportPath(r.source, x.file, x.lang),
                 want |-> IF r.isNamespace THEN x.want ELSE r.exported] :
                r \in {q \in res : q.isNamespace \/ q.local = Sought(x.want)}}
    IN  {[file |-> t.at[1], want |-> t.want, lang |-> x.lang] : t \in {u \in to : u.at # <<>>}}
RECURSIVE Closed(_)
Closed(S) == LET T == S \cup UNION {Onward(x) : x \in S} IN IF T = S THEN S ELSE Closed(T)
Origins(f, want, lang) == Closed({[file |-> f, want |-> want, lang |-> lang]})
Meant(f, want, lang) == UNION {ToSet(Declared(x.file, x.want)) : x \in Origins(f, want, lang)}
KeepsNames(f, want, lang) ==
    \A x \in Origins(f, want, lang) : x.want = want

(* A name a file exports is followed to a declaration it stands for, to    *)
(* the file's own before any other; nothing that is forwarded under one    *)
(* name all the way is lost, whatever circles the barrels make.            *)
ReExportHolds(f, want, lang) ==
    LET hit == Exported(f, want, FALSE, lang)
    IN  /\ hit # <<>> => hit[1] \in Meant(f, want, lang)
        /\ Declared(f, want) # <<>> => hit = Declared(f, want)
        /\ KeepsNames(f, want, lang) /\ Meant(f, want, lang) # {} => hit # <<>>

Sure(ref)  == \E i \in DOMAIN FrameworkLinks(ref) : FrameworkLinks(ref)[i].score >= 90
IsBare(ref) == Len(ref.parts) = 1
Linked(ref, S) == LET l == ResolveOne(ref) IN l # <<>> /\ l[1].to \in S

(* What an import of the file says a name is, where its text settles it.   *)
SaidByImport(ref, m) ==
    IF ref.lang \in JVM
    THEN {s \in ToSet(GetNodesByName(m.local)) : s.lang = ref.lang /\ OnPath(s, m.source)}
    ELSE IF m.isNamespace THEN {}
    ELSE LET f == ImportedFile(ref, m)
         IN  IF f = <<>> THEN {}
             ELSE IF ~KeepsNames(f[1], Wanted(m), ref.lang) /\ Exported(f[1], Wanted(m), FALSE, ref.lang) = <<>> THEN {}
             ELSE Meant(f[1], Wanted(m), ref.lang)

(* A name that is imported once, from a file of the project that has it,   *)
(* is linked to what that file means by it, however many others share it.  *)
ImportHolds(ref) ==
    LET ms == ImportedName(ref, GetImportMappings(ref.file, ref.lang))
    IN  (/\ IsBare(ref) /\ Len(ms) = 1 /\ ref.kind # "imports"
         /\ ~IsProvided(ref) /\ ~Sure(ref)
         /\ SaidByImport(ref, ms[1]) # {}) => Linked(ref, SaidByImport(ref, ms[1]))

Undirected(ref) == IsBare(ref) /\ ~MatchesAnyImport(ref) /\ ~IsProvided(ref) /\ project.frameworks = {}
Candidates(ref) == {s \in ToSet(GetNodesByName(ref.parts[1])) : s.lang = ref.lang}

(* A name its own file declares means that declaration, and else one in    *)
(* its language, also when the language has a function of that name.       *)
DeclaredHolds(ref) ==
    LET own == {s \in Candidates(ref) : s.file = ref.file}
    IN  Undirected(ref) => /\ own # {} => Linked(ref, own)
                           /\ Candidates(ref) # {} => Linked(ref, Candidates(ref))

(* A route that names a controller and its action is linked to the method  *)
(* of that controller, though every controller has one of that name.       *)
ActionHolds(ref, class) ==
    LET homes == {s.file : s \in ToSet(ClassesOf(class))}
        acts  == {s \in ToSet(GetNodesByName(ref.parts[2])) : s.kind \in Callables /\ s.file \in homes}
    IN  acts # {} => Linked(ref, acts)

(* A name that a framework gives a role, declared of the kind and in the   *)
(* directory of the role, is linked there and not to a namesake elsewhere. *)
RoleHolds(ref, role) ==
    LET placed == {s \in ToSet(GetNodesByName(ref.parts[1])) : s.kind = role.kind /\ Includes(PathText(s.file), role.dir)}
    IN  placed # {} /\ ~MatchesAnyImport(ref) => Linked(ref, placed)
=============================================================================
