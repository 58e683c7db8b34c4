-------------------------- MODULE ImportResolution --------------------------
(***************************************************************************)
(* How an import of a file is followed to a declaration: the import        *)
(* statements (src/src/resolution/import-resolver.ts), the path aliases of *)
(* tsconfig (path-aliases.ts) and the module of go.mod (go-module.ts).     *)
(*                                                                         *)
(* A path is the sequence of its segments; a specifier is the sequence of  *)
(* what lies between its slashes, so "./a" is <<".", "a">>.                *)
(***************************************************************************)
EXTENDS Integers, FiniteSets, SequencesExt

CONSTANTS
    StdLib,         \* specifiers of the standard library, per language
    Extensions,     \* EXTENSION_RESOLUTION: what is glued to a path, in order
    None

VARIABLES
    table,          \* the rows of the nodes table, in the order of insertion
    project         \* the files of the project and what stands in them

vars == <<table, project>>

-----------------------------------------------------------------------------
(* Strings and sequences.                                                  *)
EndsWith(t, s)   == Len(s) <= Len(t) /\ SubSeq(t, Len(t) - Len(s) + 1, Len(t)) = s
Drop(t, n)       == SubSeq(t, n + 1, Len(t))
Joined(parts, sep) == FoldLeft(LAMBDA t, p : IF t = "" THEN p ELSE t \o sep \o p, "", parts)

Find(seq, Test(_)) == LET i == SelectInSeq(seq, Test) IN IF i = 0 THEN <<>> ELSE <<seq[i]>>
First(seq)         == Find(seq, LAMBDA x : TRUE)
FirstHit(seq)      == LET hit == Find(seq, LAMBDA x : x # <<>>) IN IF hit = <<>> THEN <<>> ELSE hit[1]

JS  == {"typescript", "javascript", "tsx", "jsx"}
JVM == {"java", "kotlin"}
CXX == {"c", "cpp"}

(* A reference: the parts of its name and what stands between them.        *)
Text(ref)           == Joined(ref.parts, ref.sep)
IsMember(ref, name) == ref.sep = "." /\ ref.parts[1] = name
Bare(ref, name)     == Len(ref.parts) = 1 /\ ref.parts[1] = name
MemberOf(ref)       == Joined(Tail(ref.parts), ref.sep)
-----------------------------------------------------------------------------
(* What the resolver asks of the index.  Only the nodes of a file are      *)
(* ordered, by their line; the rest come as the rows stand.                *)
GetNodesByName(name)       == SelectSeq(table, LAMBDA s : s.name = name)
GetNodesByQualifiedName(q) == SelectSeq(table, LAMBDA s : s.qname = q)
GetNodesInFile(f) ==
    LET own == SelectSeq(table, LAMBDA s : s.file = f)
        at  == {own[i].line : i \in DOMAIN own}
    IN  FlattenSeq([k \in 1..Cardinality(at) |->
            SelectSeq(own, LAMBDA s : Cardinality({l \in at : l < s.line}) = k - 1)])
FileExists(p) == p \in project.files

Link(s, score) == <<[to |-> s, score |-> score]>>
-----------------------------------------------------------------------------
(* Import statements.  Several names of one statement are one mapping      *)
(* each; comments are blanked for Java and for re-exports only.            *)
Mapping(local, exported, source, default, namespace) ==
    [local |-> local, exported |-> exported, source |-> source,
     isDefault |-> default, isNamespace |-> namespace]

DefaultOf(s) ==
    IF s.default = None THEN <<>> ELSE <<Mapping(s.default, "default", s.source, TRUE, FALSE)>>
NamedOf(s) ==
    [i \in DOMAIN s.named |-> Mapping(s.named[i][2], s.named[i][1], s.source, FALSE, FALSE)]
StarOf(s) ==
    IF s.star = None THEN <<>> ELSE <<Mapping(s.star, "*", s.source, FALSE, TRUE)>>

Statements(f, forms) == SelectSeq(project.text[f], LAMBDA s : s.form \in forms)
Mapped(stmts, Of(_)) == FlattenSeq([i \in DOMAIN stmts |-> Of(stmts[i])])

JSImports(f) ==
    Mapped(Statements(f, {"import"}), LAMBDA s : DefaultOf(s) \o NamedOf(s) \o StarOf(s)) \o
    Mapped(Statements(f, {"require"}), LAMBDA s : DefaultOf(s) \o NamedOf(s))
PythonImports(f) ==
    Mapped(Statements(f, {"from"}), NamedOf) \o Mapped(Statements(f, {"import"}), StarOf)
GoImports(f)   == Mapped(Statements(f, {"import", "block"}), StarOf)
JavaImports(f) ==
    Mapped(SelectSeq(Statements(f, {"import"}), LAMBDA s : ~s.commented /\ s.star = None), NamedOf)
PHPImports(f)  == Mapped(Statements(f, {"use"}), NamedOf)
CppImports(f)  == Mapped(Statements(f, {"include"}), StarOf)

GetImportMappings(f, lang) ==
    CASE lang \in JS -> JSImports(f)      [] lang = "python" -> PythonImports(f)
      [] lang = "go" -> GoImports(f)      [] lang \in JVM    -> JavaImports(f)
      [] lang = "php" -> PHPImports(f)    [] lang \in CXX    -> CppImports(f)
      [] OTHER -> <<>>

(* export * from, and export {a as b} from: its local name is the b others *)
(* import.                                                                 *)
GetReExports(f, lang) ==
    IF lang \notin JS THEN <<>>
    ELSE LET live == SelectSeq(Statements(f, {"export"}), LAMBDA s : ~s.commented)
         IN  Mapped(live, StarOf) \o Mapped(live, NamedOf)
-----------------------------------------------------------------------------
(* Specifiers.                                                             *)
IsRelative(spec) == spec[1] \in {".", ".."}

(* Longer prefixes first, and a literal before a pattern.                  *)
LoadProjectAliases ==
    SortSeq(project.aliases, LAMBDA a, b :
        \/ Len(a.prefix) > Len(b.prefix)
        \/ Len(a.prefix) = Len(b.prefix) /\ ~a.wildcard /\ b.wildcard)

Begins(a, spec) == IsPrefix(a.prefix, spec) /\ (a.wildcard => Len(spec) > Len(a.prefix))

InModule(spec) == project.goModule # None /\ IsPrefix(project.goModule, spec)

IsExternalImport(spec, lang) ==
    /\ ~IsRelative(spec)
    /\ \/ spec \in StdLib[lang]
       \/ /\ lang \in JS
          /\ \A i \in DOMAIN project.aliases : ~Begins(project.aliases[i], spec)
          /\ spec[1] \notin {"@", "~", "src"} \/ Len(spec) = 1
       \/ /\ lang = "go" /\ ~InModule(spec)
          /\ \A i \in 2..(Len(spec) - 1) : spec[i] # "internal"

(* The path, with each ending in turn, and at last without one.  An ending *)
(* is glued to the last segment or follows it, as /index.ts does.          *)
Extended(p, ext) ==
    IF ext.glued THEN Append(SubSeq(p, 1, Len(p) - 1), p[Len(p)] \o ext.text) ELSE Append(p, ext.text)
TryWithExt(p, lang) ==
    Find(Append([i \in DOMAIN Extensions[lang] |-> Extended(p, Extensions[lang][i])], p), FileExists)

Directory(f) == SubSeq(f, 1, Len(f) - 1)
Walked(dir, spec) ==
    FoldLeft(LAMBDA at, s : IF s = "." THEN at
                            ELSE IF s = ".." /\ at # <<>> /\ at[Len(at)] # ".." THEN SubSeq(at, 1, Len(at) - 1)
                            ELSE Append(at, s), dir, spec)
ResolveRelativeImport(spec, f, lang) ==
    LET at == Walked(Directory(f), spec) IN IF at = <<>> THEN <<>> ELSE TryWithExt(at, lang)

(* Only the first pattern that matches is asked, and what it rewrites to a *)
(* path outside the project is skipped.                                    *)
Matches(a, spec) == Begins(a, spec) /\ (~a.wildcard => spec = a.prefix)
ApplyAliases(spec) ==
    LET hit == Find(LoadProjectAliases, LAMBDA a : Matches(a, spec))
    IN  IF hit = <<>> THEN <<>>
        ELSE SelectSeq([i \in DOMAIN hit[1].to |->
                           Walked(<<>>, hit[1].to[i] \o
                                        IF hit[1].wildcard THEN Drop(spec, Len(hit[1].prefix)) ELSE <<>>)],
                       LAMBDA p : p # <<>> /\ p[1] # "..")

FallbackAliases == <<<<"@", "src">>, <<"~", "src">>, <<"@src", "src">>, <<"src", "src">>,
                     <<"@app", "app">>, <<"app", "app">>>>

ResolveAliasedImport(spec, lang) ==
    LET rewritten == ApplyAliases(spec)
        fallback  == SelectSeq(FallbackAliases, LAMBDA a : spec[1] = a[1] /\ Len(spec) > 1)
    IN  FirstHit([i \in DOMAIN rewritten |-> TryWithExt(rewritten[i], lang)] \o
                 [i \in DOMAIN fallback |-> TryWithExt(<<fallback[i][2]>> \o Tail(spec), lang)] \o
                 <<TryWithExt(spec, lang)>>)

(* -I and -isystem of a compilation database, within the project; without  *)
(* one, the usual directories and those that hold a header.                *)
Conventional == {"include", "src", "lib", "api", "inc"}
HoldsHeader(top) ==
    \E p \in project.files : Len(p) = 2 /\ p[1] = top /\ \E e \in {".h", ".hpp", ".hxx", ".hh"} : EndsWith(p[2], e)
LoadCppIncludeDirs ==
    IF project.compileDb # None
    THEN SelectSeq([i \in DOMAIN project.compileDb |->
                       Walked(project.compileDb[i].directory, project.compileDb[i].include)],
                   LAMBDA p : p # <<>> /\ p[1] # "..")
    ELSE LET tops == {p[1] : p \in {q \in project.files : Len(q) > 1}}
         IN  SetToSeq({<<d>> : d \in {t \in tops : t \in Conventional \/ HoldsHeader(t)}})

ResolveCppIncludePath(spec, lang) ==
    LET dirs == LoadCppIncludeDirs
    IN  FirstHit([i \in DOMAIN dirs |-> TryWithExt(dirs[i] \o spec, lang)])

(* The file a specifier stands for, or none.                               *)
ResolveImportPath(spec, f, lang) ==
    IF IsExternalImport(spec, lang) THEN <<>>
    ELSE IF IsRelative(spec) THEN ResolveRelativeImport(spec, f, lang)
    ELSE LET aliased == ResolveAliasedImport(spec, lang)
         IN  IF aliased = <<>> /\ lang \in CXX THEN ResolveCppIncludePath(spec, lang) ELSE aliased
-----------------------------------------------------------------------------
(* Re-exports.                                                             *)
REEXPORT_MAX_DEPTH == 8

Declared(f, want) ==
    Find(GetNodesInFile(f), LAMBDA s :
        s.exported /\ IF want = "default" THEN s.kind \in {"function", "class"} ELSE s.name = want)

(* import {default as X} asks for a declaration of the name default, which *)
(* none has, and for what is forwarded under it.                           *)
NamedDefault == "{default}"
Sought(want) == IF want = NamedDefault THEN "default" ELSE want

(* The name a file exports for the one wanted, and where it has it from.   *)
(* Mutation: the alias is asked for in the file it renames a name of.      *)
OnwardNameKept(re, want) == want
OnwardName(re, want) == IF re.isNamespace THEN want ELSE re.exported

(* A search over files, each entered once whatever was wanted of it: the   *)
(* files seen so far and what has been found.  A member of a namespace is  *)
(* asked for as "*" where a named re-export is meant to match it.          *)
RECURSIVE FindExportedSymbol(_, _, _, _, _, _)
FindExportedSymbol(f, want, member, lang, seen, depth) ==
    LET here  == Declared(f, want)
        res   == GetReExports(f, lang)
        named == SelectSeq(res, LAMBDA r : ~r.isNamespace /\ r.local = IF member THEN "*" ELSE Sought(want))
        stars == SelectSeq(res, LAMBDA r : r.isNamespace)
        Follow(st, r) ==
            LET next == ResolveImportPath(r.source, f, lang)
            IN  IF st.found # <<>> \/ next = <<>> THEN st
                ELSE FindExportedSymbol(next[1], OnwardName(r, want), member /\ r.isNamespace, lang, st.seen, depth + 1)
        entered == [found |-> here, seen |-> seen \cup {f}]
    IN  IF depth > REEXPORT_MAX_DEPTH \/ f \in seen THEN [found |-> <<>>, seen |-> seen]
        ELSE IF here # <<>> THEN entered
        ELSE FoldLeft(Follow, entered, named \o stars)

Exported(f, want, member, lang) == FindExportedSymbol(f, want, member, lang, {}, 0).found
-----------------------------------------------------------------------------
(* Java and Kotlin, by the path a qualified name stands for.               *)
JvmEnd(lang) == IF lang = "kotlin" THEN ".kt" ELSE ".java"
OnPath(s, fqn) == EndsWith(Joined(s.file, "/"), Joined(fqn, "/") \o JvmEnd(s.lang))

ResolveJvmImport(ref) ==
    IF ref.kind # "imports" \/ ref.lang \notin JVM \/ Len(ref.parts) < 2 \/ Last(ref.parts) = "*" THEN <<>>
    ELSE LET q    == Joined(Front(ref.parts), ".") \o "::" \o Last(ref.parts)
             hits == GetNodesByQualifiedName(q)
         IN  IF hits = <<>> THEN <<>> ELSE Link(hits[1], 95)

ResolveJavaImportedReference(ref, imports) ==
    LET Follow(m) ==
            LET bare == Bare(ref, m.local)
                all  == SelectSeq(GetNodesByName(IF bare THEN m.local ELSE MemberOf(ref)), LAMBDA s : s.lang = ref.lang)
                own  == Find(all, LAMBDA s : OnPath(s, m.source))
                mem  == Find(all, LAMBDA s : Len(m.source) > 1 /\ OnPath(s, Front(m.source)))
            IN  IF own # <<>> \/ ~bare THEN own ELSE mem
        named == SelectSeq(imports, LAMBDA m : Bare(ref, m.local) \/ IsMember(ref, m.local))
    IN  FirstHit([i \in DOMAIN named |-> Follow(named[i])])

(* Go, by the directory an import of the module stands for.                *)
ResolveGoCrossPackageReference(ref, imports) ==
    LET named == SelectSeq(imports, LAMBDA m : IsMember(ref, m.local) /\ InModule(m.source))
        Follow(m) == Find(GetNodesByName(MemberOf(ref)), LAMBDA s :
                        s.lang = "go" /\ s.exported /\ Directory(s.file) = Drop(m.source, Len(project.goModule)))
    IN  FirstHit([i \in DOMAIN named |-> Follow(named[i])])

(* The file itself, for an #include.                                       *)
ResolveInclude(ref) ==
    LET f == ResolveImportPath(ref.parts, ref.file, ref.lang)
    IN  IF f = <<>> THEN <<>>
        ELSE Find(GetNodesByName(Last(f[1])), LAMBDA s : s.kind = "file" /\ s.file = f[1])

ImportedName(ref, imports) == SelectSeq(imports, LAMBDA m : Bare(ref, m.local) \/ IsMember(ref, m.local))

(* A PHP path with backslashes names a file that exists and has no nodes.  *)
ImportedFile(ref, m) ==
    IF ref.lang = "php" /\ Len(m.source) > 1 THEN <<>>
    ELSE ResolveImportPath(m.source, ref.file, ref.lang)

Wanted(m) == IF m.exported = "default" /\ ~m.isDefault THEN NamedDefault ELSE m.exported

FollowImports(ref, imports) ==
    LET Follow(m) ==
            LET f    == ImportedFile(ref, m)
                want == IF m.isNamespace THEN IF Len(ref.parts) > 1 THEN MemberOf(ref) ELSE m.local
                        ELSE Wanted(m)
            IN  IF f = <<>> THEN <<>> ELSE Exported(f[1], want, m.isNamespace, ref.lang)
        named == ImportedName(ref, imports)
    IN  FirstHit([i \in DOMAIN named |-> Follow(named[i])])

ResolveViaImport(ref) ==
    LET imports == GetImportMappings(ref.file, ref.lang)
        special == IF ref.lang = "go" /\ project.goModule # None THEN ResolveGoCrossPackageReference(ref, imports)
                   ELSE IF ref.lang \in JVM THEN ResolveJavaImportedReference(ref, imports)
                   ELSE <<>>
        hit     == IF ref.lang \in CXX /\ ref.kind = "imports" THEN ResolveInclude(ref)
                   ELSE IF special # <<>> THEN special ELSE FollowImports(ref, imports)
    IN  IF hit = <<>> THEN <<>> ELSE Link(hit[1], 90)

MatchesAnyImport(ref) == ImportedName(ref, GetImportMappings(ref.file, ref.lang)) # <<>>
=============================================================================
