------------------------------ MODULE MCLinking ------------------------------
(***************************************************************************)
(* Small projects for Synthesis.tla, each about one thing that decides where *)
(* a name is linked, with every order of their files and every subset.     *)
(***************************************************************************)
EXTENDS Synthesis, ContextSearch

VARIABLE asked      \* whether the index has been asked for its links

Langs == JS \cup JVM \cup CXX \cup {"python", "go", "php", "ruby", "scala", "rust", "csharp", "swift", "svelte", "vue"}

MCCapitalised == {"User", "UserService", "UsersController", "PostsController", "Panel", "Foo", "UserView"}
MCOneHump == {"User", "Panel", "Foo"}
Capitals == ("A" :> "a") @@ ("L" :> "l") @@ ("S" :> "s")
Smalls   == ("a" :> "A") @@ ("l" :> "L") @@ ("s" :> "S")
MCCatalogue == {"save", "Saver", "saveAll", "autoSave", "SaveStore", "LoadStore", "load", "Save", "Store", "save.test.ts"}
Lowered(t) == FoldLeft(LAMBDA u, i : LET c == SubSeq(t, i, i) IN u \o (IF c \in DOMAIN Capitals THEN Capitals[c] ELSE c),
                       "", Numbers(Len(t)))
MCLower(t)   == CASE t = "Load" -> "load" [] t \in MCCapitalised -> "lowered" \o SubSeq(t, 2, Len(t)) [] t \in MCCatalogue -> Lowered(t) [] OTHER -> t
MCCapital(t) == CASE t = "foo" -> "Foo" [] t = "bar" -> "Bar"
                  [] SubSeq(t, 1, 1) \in DOMAIN Smalls -> Smalls[SubSeq(t, 1, 1)] \o SubSeq(t, 2, Len(t)) [] OTHER -> t
MCWords(t)   == CASE t = "fooStore" -> <<"foo", "store">> [] t = "FooStore::load" -> <<"foo", "store", "load">>
                  [] t = "saveAll" -> <<"save", "all">> [] t = "autoSave" -> <<"auto", "save">>
                  [] t = "SaveStore" -> <<"save", "store">> [] t = "LoadStore" -> <<"load", "store">>
                  [] t \in MCCatalogue -> <<Lowered(t)>> [] OTHER -> <<t>>
MCSnake(t)   == CASE t = "User" -> "user" [] t = "users" -> "Users" [] t = "posts" -> "Posts" [] OTHER -> t
MCNonTypes   == {"return"}

MCStdLib    == [l \in Langs |-> CASE l = "python" -> {<<"os">>} [] l = "cpp" -> {<<"math.h">>} [] OTHER -> {}]
MCBuiltIns  == [l \in Langs |-> CASE l \in JS -> {"fetch"} [] l = "python" -> {"print", "list"} [] l = "go" -> {"make"} [] OTHER -> {}]
MCReceivers == [l \in Langs |-> CASE l \in JS -> {"console"} [] l = "python" -> {"list"} [] l = "go" -> {"fmt"} [] l = "cpp" -> {"std"} [] OTHER -> {}]
MCRegistrars  == {"onUpdate"}
MCDispatchers == {"triggerUpdate"}
MCPythonMethods == {"append"}
MCCFunctions    == {"open"}

Glue(texts) == [i \in DOMAIN texts |-> [glued |-> TRUE, text |-> texts[i]]]
Index(text) == [glued |-> FALSE, text |-> text]
MCExtensions ==
    [l \in Langs |-> CASE l \in JS -> Glue(<<".ts", ".tsx">>) \o <<Index("index.ts")>>
                       [] l = "python" -> Glue(<<".py">>) \o <<Index("__init__.py")>>
                       [] l = "go" -> Glue(<<".go">>)   [] l \in CXX -> Glue(<<".h", ".hpp">>)
                       [] l = "php" -> Glue(<<".php">>) [] l = "vue" -> Glue(<<".ts", ".vue">>)
                       [] l = "svelte" -> Glue(<<".ts", ".svelte">>) [] OTHER -> <<>>]
-----------------------------------------------------------------------------
Sym(kind, name, q, f, lang, line) ==
    [kind |-> kind, name |-> name, qname |-> q, file |-> f, lang |-> lang, exported |-> TRUE,
     line |-> line, end |-> line + 5, type |-> None]
Fn(name, f, lang, line)  == Sym("function", name, name, f, lang, line)
Cls(name, f, lang, line) == Sym("class", name, name, f, lang, line)
Mth(name, class, f, lang, line) == Sym("method", name, class \o "::" \o name, f, lang, line)

Nobody == Fn("main", <<"main">>, "none", 1)
Ref(parts, sep, f, lang) ==
    [parts |-> parts, sep |-> sep, kind |-> "calls", file |-> f, lang |-> lang, line |-> 9, from |-> Nobody]
Name(n, f, lang)      == Ref(<<n>>, "", f, lang)
Call(r, m, f, lang)   == Ref(<<r, m>>, ".", f, lang)

Stmt(form, source)     == [form |-> form, default |-> None, named |-> <<>>, star |-> None, source |-> source, commented |-> FALSE]
Naming(form, a, b, source) == [Stmt(form, source) EXCEPT !.named = <<<<a, b>>>>]
Whole(form, n, source) == [Stmt(form, source) EXCEPT !.star = n]
Default(n, source)     == [Stmt("import", source) EXCEPT !.default = n]

(* A project of files, each with its statements and its nodes.             *)
Project(rows) ==
    LET F == {r[1] : r \in rows}
        Row(f) == CHOOSE r \in rows : r[1] = f
    IN  [files |-> F, text |-> [f \in F |-> Row(f)[2]], nodes |-> [f \in F |-> Row(f)[3]],
         declarations |-> [f \in F |-> <<>>], aliases |-> <<>>, compileDb |-> None, goModule |-> None,
         crates |-> <<>>, frameworks |-> {}, refs |-> {}, actions |-> {}, roles |-> {},
         marks |-> [f \in F |-> <<>>], generated |-> {}, flows |-> {},
         contains |-> UNION {{cm \in ToSet(Row(f)[3]) \X ToSet(Row(f)[3]) :
                                  cm[1].kind \in Types /\ cm[2].kind = "method" /\ cm[2].line \in cm[1].line..cm[1].end} : f \in F}]
-----------------------------------------------------------------------------
(* Barrels: main imports from a, and a and b forward what c, b or a has.   *)
A == <<"src", "a.ts">>
B == <<"src", "b.ts">>
C == <<"src", "lib", "index.ts">>
M == <<"src", "main.ts">>
To(f, at) == CASE f = A -> <<".", "a">> [] f = B -> <<".", "b">> [] f = C /\ at = C -> <<".", "index">> [] f = C -> <<"@", "lib">>
Forwards(at, f) ==
    {Naming("export", "f", "f", To(f, at)), Naming("export", "g", "f", To(f, at)),
     Naming("export", "default", "f", To(f, at)), Whole("export", "*", To(f, at))}
Imports == {Naming("import", "f", "f", To(A, M)), Naming("import", "f", "h", To(A, M)), Default("f", To(A, M)),
            Naming("import", "default", "f", To(A, M)),
            Whole("import", "ns", To(A, M)), [Default("k", To(A, M)) EXCEPT !.named = <<<<"f", "f">>, <<"g", "g">>>>]}
Barrel(imp, first, second, inB) ==
    [Project({<<M, <<imp>>, <<>>>>, <<A, <<first, second>>, <<>>>>, <<B, inB, <<Fn("g", B, "typescript", 1)>>>>,
              <<C, <<>>, <<Fn("f", C, "typescript", 7), Fn("e", C, "typescript", 2)>>>>})
     EXCEPT !.refs = {Name(n, M, "typescript") : n \in {"f", "g", "h"}} \cup {Call("ns", "f", M, "typescript")}]
Back    == Forwards(B, C) \cup Forwards(B, A)
Barrels == {Barrel(i, x, y, <<z>>) : i \in Imports, x \in Forwards(A, B), y \in Forwards(A, C), z \in Back} \cup
           {Barrel(Naming("import", "f", "h", To(A, M)), x, y, z) :
                x \in Forwards(A, B), y \in Forwards(A, C), z \in Back \X Back}

(* Namesakes: f in three files, one of them main's own and not exported.   *)
Namesakes ==
    {[Project({<<M, stmts, own>>, <<A, <<>>, <<Fn("f", A, "typescript", l)>>>>, <<B, <<>>, <<Cls("f", B, "typescript", 3)>>>>,
               <<<<"py", "c.py">>, <<>>, <<Fn("f", <<"py", "c.py">>, "python", 9)>>>>})
      EXCEPT !.refs = {Name("f", M, "typescript"), Name("h", M, "typescript")},
             !.aliases = <<[prefix |-> <<"lib">>, wildcard |-> FALSE, to |-> <<<<"src", "a">>>>],
                           [prefix |-> <<"lib">>, wildcard |-> TRUE, to |-> <<<<"src">>>>]>>] :
        stmts \in {<<>>, <<Naming("import", "f", "f", <<".", "b">>)>>, <<Naming("require", "f", "h", <<"lib", "b">>)>>,
                   <<Naming("import", "f", "f", <<"lib">>)>>, <<Naming("import", "f", "h", <<"src", "b">>)>>},
        own \in {<<>>, <<[Fn("f", M, "typescript", 1) EXCEPT !.exported = FALSE]>>}, l \in {9, 400}}

(* Names that the language has too.                                        *)
P == <<"py", "a.py">>
Q == <<"py", "b.py">>
K == <<"src", "io.c">>
L == <<"src", "use.cpp">>
Shared ==
    {[Project({<<P, imp, <<Fn("append", P, "python", 5), Fn("print", P, "python", 20)>>>>, <<Q, <<>>, <<Cls("List", Q, "python", 1)>>>>,
               <<K, <<>>, <<Fn("open", K, "c", 3)>>>>, <<L, <<Whole("include", "io", <<"io.h">>)>>, <<Fn("run", L, "cpp", 1)>>>>})
      EXCEPT !.refs = {Name("append", P, "python"), Name("append", Q, "python"), Call("List", "append", Q, "python"),
                       Name("open", K, "c"), Name("open", L, "cpp"), Name("print", Q, "python")}] :
        imp \in {<<>>, <<Naming("from", "List", "List", <<"b">>)>>, <<Whole("import", "b", <<"b">>)>>}}

(* Types: packages of Java, Go and PHP, receivers of C++ and Java.         *)
JX == <<"com", "x", "Foo.java">>
JY == <<"com", "y", "Foo.java">>
JM == <<"com", "z", "Main.java">>
GX == <<"x", "run.go">>
GY == <<"y", "run.go">>
GM == <<"main.go">>
HX == <<"include", "x.h">>
HY == <<"inc", "y.hpp">>
CM == <<"src", "x.cpp">>
FooAt(f, line) == <<Cls("Foo", f, "java", line), Mth("bar", "Foo", f, "java", line + 1)>>
Typed ==
    {[Project({<<JX, <<>>, FooAt(JX, 3)>>, <<JY, <<>>, FooAt(JY, 2)>>,
               <<JM, <<[imp EXCEPT !.commented = c]>>, <<Cls("Main", JM, "java", 8),
                         [Sym("field", "foo", "Main::foo", JM, "java", 9) EXCEPT !.type = "Foo", !.end = 9]>>>>})
      EXCEPT !.refs = {Name("Foo", JM, "java"), Name("bar", JM, "java"), Call("foo", "bar", JM, "java"), Call("Foo", "bar", JM, "java"),
                       [Ref(<<"com", "x", "Foo">>, ".", JM, "java") EXCEPT !.kind = "imports"]}] :
        imp \in {Naming("import", "Foo", "Foo", <<"com", "x", "Foo">>), Naming("import", "Foo", "Foo", <<"com", "y", "Foo">>),
                 Naming("import", "bar", "bar", <<"com", "y", "Foo", "bar">>), Whole("import", "*", <<"com", "x">>)},
        c \in BOOLEAN}
    \cup
    {[Project({<<GX, <<>>, <<Fn("Run", GX, "go", 3)>>>>, <<GY, <<>>, <<Fn("Run", GY, "go", 3)>>>>,
               <<GM, <<Whole("import", "y", <<"m", "y">>)>>, <<Fn("main", GM, "go", 1)>>>>})
      EXCEPT !.refs = {Call("y", "Run", GM, "go"), Call("fmt", "Run", GM, "go"), Name("Run", GM, "go")}, !.goModule = g] :
        g \in {None, <<"m">>}}
    \cup
    {[Project({<<HX, <<>>, <<Sym("file", "x.h", "x.h", HX, "cpp", 1), Cls("Foo", HX, "cpp", 3), Mth("load", "FooStore", HX, "cpp", 4)>>>>,
               <<HY, <<>>, <<Cls("Bar", HY, "cpp", 3), Mth("load", "Bar", HY, "cpp", 4), Mth("Load", "Bar", HY, "cpp", 6)>>>>,
               <<CM, <<Whole("include", "x", <<"x.h">>)>>, <<Fn("main", CM, "cpp", 1)>>>>})
      EXCEPT !.refs = {Call("p", "load", CM, "cpp"), Call("fooStore", "load", CM, "cpp"), Call("bar", "load", CM, "cpp"),
                       Ref(<<"Bar", "load">>, "::", CM, "cpp"), Call("std", "move", CM, "cpp"), Name("open", CM, "cpp"),
                       [Ref(<<"x.h">>, "/", CM, "cpp") EXCEPT !.kind = "imports"]},
             !.compileDb = db,
             !.declarations = [f \in {HX, HY, CM} |-> IF f = CM THEN <<[name |-> "p", line |-> 2, type |-> "Foo"],
                                                                       [name |-> "p", line |-> 6, type |-> t]>> ELSE <<>>]] :
        db \in {None, <<[directory |-> <<"inc">>, include |-> <<"..", "include">>]>>}, t \in {"Bar", "return"}}
    \cup
    {[Project({<<<<"app", "A.php">>, <<>>, <<Cls("Foo", <<"app", "A.php">>, "php", 3)>>>>,
               <<<<"app", "B.php">>, <<Naming("use", "A", "Foo", <<"app", "A">>)>>, <<Cls("Foo", <<"app", "B.php">>, "php", 3)>>>>})
      EXCEPT !.refs = {Name("Foo", <<"app", "B.php">>, "php"), Ref(<<"app", "A.php">>, "/", <<"app", "B.php">>, "php")}]}
-----------------------------------------------------------------------------
(* Frameworks: two controllers with actions of one name, or namesakes of   *)
(* which one stands where the framework expects it.                        *)
Two(fw, lang, f, g, c, d, action, meth, ref) ==
    [Project({<<f, <<>>, <<Cls(c, f, lang, 1), [meth EXCEPT !.file = f, !.qname = c \o "::" \o action]>>>>,
              <<g, <<>>, <<Cls(d, g, lang, 1), [meth EXCEPT !.file = g, !.qname = d \o "::" \o action]>>>>, <<ref.file, <<>>, <<>>>>})
     EXCEPT !.frameworks = fw, !.refs = {ref}, !.actions = {[ref |-> ref, class |-> c]}]
Controllers ==
    LET Act(lang) == Sym("method", "index", "", <<>>, lang, 2)
        Ctl(dir, stem, end) == dir \o <<stem \o end>>
        Rb == <<"app", "controllers">>
        Ph == <<"app", "Http", "Controllers">>
    IN  {Two({"rails"}, "ruby", Ctl(Rb, "users", "_controller.rb"), Ctl(Rb, "posts", "_controller.rb"),
             "UsersController", "PostsController", "index", Act("ruby"), Ref(<<"users", "index">>, "#", <<"config", "routes.rb">>, "ruby")),
         Two({"rails"}, "ruby", Ctl(Rb \o <<"api">>, "users", "_controller.rb"), Ctl(Rb, "posts", "_controller.rb"),
             "UsersController", "PostsController", "index", Act("ruby"), Ref(<<"users", "index">>, "#", <<"config", "routes.rb">>, "ruby")),
         Two({"laravel"}, "php", Ctl(Ph, "UsersController", ".php"), Ctl(Ph, "PostsController", ".php"),
             "UsersController", "PostsController", "index", Act("php"), Ref(<<"UsersController", "index">>, "@", <<"routes", "web.php">>, "php")),
         Two({"laravel"}, "php", Ctl(Ph \o <<"Api">>, "UsersController", ".php"), Ctl(Ph, "PostsController", ".php"),
             "UsersController", "PostsController", "index", Act("php"), Ref(<<"UsersController", "index">>, "@", <<"routes", "web.php">>, "php")),
         Two({"play"}, "scala", <<"app", "Users.scala">>, <<"app", "Posts.scala">>,
             "UsersController", "PostsController", "index", Act("scala"), Ref(<<"UsersController", "index">>, ".", <<"conf", "routes">>, "scala")),
         Two({"drupal"}, "php", <<"src", "Users.php">>, <<"src", "Posts.php">>,
             "UsersController", "PostsController", "index", Act("php"), Ref(<<"UsersController", "index">>, "::", <<"x.routing.yml">>, "php"))}

Role(fw, lang, kind, name, dir, path) ==
    LET f == <<"old", "x">>
        g == path
        ref == Name(name, <<"main">>, lang)
    IN  [Project({<<f, <<>>, <<Sym(kind, name, name, f, lang, 3)>>>>, <<g, <<>>, <<Sym(kind, name, name, g, lang, 9)>>>>, <<ref.file, <<>>, <<>>>>})
         EXCEPT !.frameworks = fw, !.refs = {ref}, !.roles = {[ref |-> ref, kind |-> kind, dir |-> dir]}]
Roles ==
    {Role({"spring"}, "java", "class", "UserService", "/service/", <<"x", "service", "U.java">>),
     Role({"spring", "go"}, "java", "class", "User", "/domain/", <<"x", "domain", "U.java">>),
     Role({"aspnet"}, "csharp", "class", "UsersController", "/Controllers/", <<"x", "Controllers", "U.cs">>),
     Role({"django", "flask", "fastapi"}, "python", "class", "UserView", "views", <<"x", "views.py">>),
     Role({"fastapi"}, "python", "variable", "user_router", "/routers/", <<"x", "routers", "u.py">>),
     Role({"flask"}, "python", "variable", "user_bp", "", <<"old", "a", "u.py">>),
     Role({"go"}, "go", "function", "HandleUser", "/api/", <<"x", "api", "u.go">>),
     Role({"rust"}, "rust", "struct", "UserService", "/services/", <<"x", "services", "u.rs">>),
     Role({"swiftui", "uikit"}, "swift", "struct", "UserView", "/Views/", <<"x", "Views", "U.swift">>),
     Role({"vapor"}, "swift", "class", "UsersController", "/Controllers/", <<"x", "Controllers", "U.swift">>),
     Role({"react", "express"}, "tsx", "function", "useUser", "/hooks/", <<"x", "hooks", "u.ts">>),
     Role({"nest"}, "typescript", "class", "UserService", ".service.", <<"x", "u.service.ts">>),
     Role({"rails"}, "ruby", "class", "User", "app/models/", <<"app", "models", "user.rb">>),
     Role({"vue"}, "vue", "component", "Panel", "Panel.vue", <<"ui", "Panel.vue">>)}

(* Overrides: a type of impl extends a base of which there are two, or one *)
(* of its own name, with overloads on either side.                         *)
Base(f, kind, name, lang) ==
    <<[Sym(kind, name, name, f, lang, 1) EXCEPT !.end = 9], Mth("find", name, f, lang, 2), Mth("find", name, f, lang, 4), Mth("save", name, f, lang, 6)>>
Hierarchies ==
    {LET at == <<"src", "base" \o end>>
         other == <<"old", "base" \o end>>
         impl == <<"src", "impl" \o end>>
         own == Base(impl, kind, name, lang)
     IN  [Project({<<at, <<>>, Base(at, "interface", "Repo", lang)>>, <<other, <<>>, Base(other, "class", "Repo", lang)>>,
                   <<impl, stmts, own>>})
          EXCEPT !.refs = {[Name("Repo", impl, lang) EXCEPT !.kind = "extends", !.from = own[1], !.line = 1]}] :
        end \in {".ts", ".x"}, lang \in {"typescript", "java", "cpp", "swift"}, kind \in {"class", "struct"}, name \in {"Sql", "Repo"},
        stmts \in {<<>>, <<Naming("import", "Repo", "Repo", <<".", "base">>)>>}}

(* One of each thing the synthesizers look for.                            *)
Mark(line, does, name, arg) == [line |-> line, does |-> does, name |-> name, arg |-> arg]
HubFile == <<"src", "hub.tsx">>
WireFile == <<"src", "wire.tsx">>
VueFile == <<"ui", "Panel.vue">>
GoFile == <<"gin.go">>
StubFile == <<"x_grpc.pb.go">>
NativeFile == <<"ios", "Geo.m">>
XmlFile == <<"m", "Geo.xml">>
JavaFile == <<"m", "Geo.java">>
DartFile == <<"home.dart">>
Long(s, n) == [s EXCEPT !.end = n]
Screens ==
    LET hub == <<Long(Cls("Hub", HubFile, "tsx", 1), 40), Long(Mth("onUpdate", "Hub", HubFile, "tsx", 2), 4),
                 Long(Mth("triggerUpdate", "Hub", HubFile, "tsx", 5), 9), Long(Mth("render", "Hub", HubFile, "tsx", 10), 12),
                 Long(Fn("useHub", HubFile, "tsx", 41), 50), Fn("close", HubFile, "tsx", 43)>>
        wire == <<Fn("wire", WireFile, "tsx", 1), Fn("paint", WireFile, "tsx", 10), Fn("Chart", WireFile, "tsx", 20)>>
        reg  == [Call("hub", "onUpdate", WireFile, "tsx") EXCEPT !.line = 3, !.from = wire[1]]
    IN  [Project({<<HubFile, <<>>, hub>>, <<WireFile, <<>>, wire>>,
                  <<VueFile, <<>>, <<Sym("component", "Panel", "Panel", VueFile, "vue", 1)>>>>,
                  <<NativeFile, <<>>, <<Sym("component", "Map", "Map", NativeFile, "fabric", 1), Cls("MapView", NativeFile, "objc", 3),
                                        Mth("send", "MapView", NativeFile, "objc", 4)>>>>})
         EXCEPT !.refs = {reg},
                !.flows = {<<"callback", "triggerUpdate", "paint">>, <<"event-emitter", "triggerUpdate", "wire">>,
                           <<"react-render", "triggerUpdate", "render">>, <<"jsx-render", "paint", "Chart">>,
                           <<"jsx-render", "Panel", "Chart">>, <<"vue-handler", "Panel", "close">>, <<"vue-handler", "Panel", "paint">>,
                           <<"rn-event-channel", "send", "wire">>, <<"fabric-native-impl", "Map", "MapView">>},
                !.marks = [@ EXCEPT
                    ![HubFile] = <<Mark(3, "adds", "cbs", ""), Mark(6, "for of", "cbs", ""), Mark(7, "emit", "up", ""), Mark(8, "this.setState", "", "")>>,
                    ![WireFile] = <<Mark(3, "passes", "onUpdate", "paint"), Mark(4, "on", "up", "wire"), Mark(5, "on", "geo", "anon"),
                                    Mark(11, "tag", "Chart", ""), Mark(12, "closes tag", "", "")>>,
                    ![VueFile] = <<Mark(1, "destructures", <<"useHub", "close">>, "shut"), Mark(2, "handles", "", "shut"),
                                   Mark(3, "handles", "", "paint"), Mark(4, "dashed tag", "", "Chart")>>,
                    ![NativeFile] = <<Mark(5, "sendEventWithName", "geo", "")>>]]
Servers ==
    [Project({<<GoFile, <<>>, <<Sym("struct", "Srv", "Srv", GoFile, "go", 1), Mth("Send", "Srv", GoFile, "go", 2), Fn("Auth", GoFile, "go", 12)>>>>,
              <<StubFile, <<>>, <<Sym("struct", "UnimplementedXServer", "U", StubFile, "go", 1), Mth("Send", "U", StubFile, "go", 2)>>>>,
              <<JavaFile, <<>>, <<Mth("send", "Geo", JavaFile, "java", 4)>>>>,
              <<XmlFile, <<>>, <<[Mth("send", "m.Geo", XmlFile, "xml", 4) EXCEPT !.type = "Geo"]>>>>,
              <<DartFile, <<>>, <<Cls("Home", DartFile, "dart", 1), Mth("build", "Home", DartFile, "dart", 2), Mth("tap", "Home", DartFile, "dart", 6)>>>>})
     EXCEPT !.generated = {StubFile},
            !.flows = {<<"go-grpc-stub-impl", "Send", "Send">>, <<"gin-middleware-chain", "Send", "Auth">>,
                       <<"mybatis-java-xml", "send", "send">>, <<"flutter-build", "tap", "build">>},
            !.marks = [@ EXCEPT ![GoFile] = <<Mark(3, "indexes handlers", "", ""), Mark(14, "registers", "", "Auth")>>,
                                ![DartFile] = <<Mark(9, "setState", "", "")>>]]

(* Names that begin, end or nearly are one another.  FTS5 knows the rows by *)
(* their whole names, and weighs them by anything.                         *)
SaveFile == <<"src", "save", "io.ts">>
StoreFile == <<"src", "lib", "store.ts">>
TestFile == <<"test", "save.test.ts">>
AutoFile == <<"src", "auto.py">>
Catalogue ==
    Project({<<SaveFile, <<>>, <<Sym("variable", "save", "save", SaveFile, "typescript", 26), Fn("saveAll", SaveFile, "typescript", 3)>>>>,
             <<StoreFile, <<>>, <<Cls("SaveStore", StoreFile, "typescript", 4), Cls("LoadStore", StoreFile, "typescript", 9),
                                  Fn("load", StoreFile, "typescript", 1)>>>>,
             <<TestFile, <<>>, <<Fn("save", TestFile, "typescript", 2)>>>>,
             <<AutoFile, <<>>, <<Fn("autoSave", AutoFile, "python", 7), Cls("Saver", AutoFile, "python", 8)>>>>})
MCFtsMatches(word, s) == LikeStart(s.name, word)
MCBm25(words, s)      == Unit * s.line
MCNameRank(name)      == CASE name = "save" -> 1 [] name = "load" -> 2 [] OTHER -> 3
MCStopWords           == {"how"}
MCCommonWords         == {"how", "all"}

MCProjects == Hierarchies \cup {Screens, Servers, Catalogue} \cup Barrels \cup Namesakes \cup Shared \cup Typed \cup Controllers \cup Roles
-----------------------------------------------------------------------------
(* Files are stored until somebody asks; what is linked and found is that  *)
(* of the index as it then stands, and the properties speak of that step.  *)
MCInit == Init /\ asked = FALSE
More   == ~asked /\ Next /\ UNCHANGED asked
Ask    == ~asked /\ asked' = TRUE /\ UNCHANGED vars
MCSpec == MCInit /\ [][More \/ Ask]_<<vars, asked>>

(* Whatever the barrels between, a name is followed to the declaration it  *)
(* is exported for, under the name it has there, and an import of the file *)
(* decides among namesakes.  A renamed re-export, or a prefilter that only *)
(* asks for known names, is where this goes wrong.                         *)
Followed ==
    /\ \A f \in {A, B, C} \cap project.files, want \in {"f", "g", "default"} : ReExportHolds(f, want, "typescript")
    /\ \A ref \in project.refs : ImportHolds(ref)
ReExportsAreFollowed == [][Ask => Followed]_<<vars, asked>>

(* A name means the declaration of its own file before any namesake, and   *)
(* one in its own language before any other, in every order of the rows;   *)
(* also when the language provides a function so named.                    *)
DeclaredNamesLink == [][Ask => \A ref \in project.refs : DeclaredHolds(ref)]_<<vars, asked>>

(* A route reaches the action of its own controller, and a name to which a *)
(* framework gives a role the symbol in the place of that role.            *)
Placed ==
    /\ \A a \in project.actions : ActionHolds(a.ref, a.class)
    /\ \A r \in project.roles : RoleHolds(r.ref, r)
ConventionsDecide == [][Ask => Placed]_<<vars, asked>>

(* Calls nobody wrote are found, and no others.  An implementation is      *)
(* reached from every method it overrides, overloads included, whichever   *)
(* of several bases of one name its type was linked to; and once all of a  *)
(* project is stored, in whatever order, its observers, events, renders,   *)
(* templates, stubs, mappers and chains are joined to what they run.       *)
AllStored == \A f \in DOMAIN project.nodes : \E i \in DOMAIN table : table[i].file = f
Found     == {<<e.by, e.source.name, e.target.name>> : e \in ToSet(SynthesizeCallbackEdges)}
Bridged ==
    /\ OverridesHold
    /\ AllStored /\ project.flows # {} => Found = project.flows
DispatchIsBridged == [][Ask => Bridged]_<<vars, asked>>
-----------------------------------------------------------------------------
Looking(n)    == [kinds |-> {}, languages |-> {}, limit |-> n, offset |-> 0]
Classes(n)    == [Looking(n) EXCEPT !.kinds = {"class"}]
TypedWords    == {"save", "Save", "load", "store", "sav", "lod", "sve", "safe", "autosav", "Loadstor"}
Filter(k, v)  == [key |-> k, parts |-> <<v>>]
TypedQueries  == {Plain(<<w>>) : w \in TypedWords} \cup {<<Filter("kind", "class")>>, <<Filter("path", "lib"), Filter("", "save")>>,
                  <<Filter("name", "auto")>>, <<Filter("kind", "nothing")>>, <<Filter("lang", "python"), Filter("", "save")>>,
                  Plain(<<"save", "load">>)}
Questions     == {<<"how", "Save", "Store">>, <<"load", "save", "store">>, <<"test", "saving">>}
Question(n)   == [kinds |-> {}, searchLimit |-> n, minScore |-> 18, core |-> None]
Letters       == {"a", "b"}
ShortWords    == UNION {{Joined(w, "") : w \in [1..n -> Letters]} : n \in 0..4}
EditDistancesAreRight == EditDistanceHolds(ShortWords, Letters)

(* Over every part of the catalogue: a name that is typed as it is written *)
(* comes first among its like however the text weighs it, one that is      *)
(* mistyped is found by its distance, and what several searches find is    *)
(* ranked once.                                                            *)
Answered ==
    /\ EditDistancesAreRight
    /\ project = Catalogue =>
        /\ \A q \in TypedQueries, n \in {1, 3} : AnswersHold(q, Looking(n)) /\ AnswersHold(q, Classes(n))
        /\ \A w \in TypedWords, n \in {1, 3} : ExactNamesHold(w, Looking(n)) /\ TyposHold(w, Looking(n)) /\ TyposHold(w, Classes(n))
        /\ AllStored => \A q \in Questions, n \in {1, 2} : RankedOnce(q, Question(n))
SearchesFind == [][Ask => Answered]_<<vars, asked>>
=============================================================================
