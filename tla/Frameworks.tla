----------------------------- MODULE Frameworks -----------------------------
(***************************************************************************)
(* What the detected frameworks make of a reference: the resolve functions *)
(* of src/src/resolution/frameworks.  Most are a list of rules: a name     *)
(* that looks so is a symbol of such a kind, best under such a directory.  *)
(* None of them asks for the language of the reference.                    *)
(***************************************************************************)
EXTENDS NameMatching

CONSTANTS
    Capitalised,    \* names of letters that begin with a capital
    OneHump,        \* those of them whose other letters are small
    Snake(_)        \* the snake case of a name, and the camel case of a path

PathText(f) == Joined(f, "/")
InDirs(s, dirs) == \E d \in dirs : Includes(PathText(s.file), d)
AnyStart(t, starts) == \E p \in starts : Len(p) <= Len(t) /\ SubSeq(t, 1, Len(p)) = p
AnyEnd(t, ends)     == \E e \in ends : EndsWith(t, e)
Without(t, ends)    == IF AnyEnd(t, ends) THEN SubSeq(t, 1, Len(t) - Len(CHOOSE e \in ends : EndsWith(t, e))) ELSE t

(* The first symbol in a conventional directory, or else the first.        *)
ResolveByNameAndKind(name, kinds, dirs) ==
    LET all  == SelectSeq(GetNodesByName(name), LAMBDA s : s.kind \in kinds)
        best == Find(all, LAMBDA s : InDirs(s, dirs))
    IN  IF best # <<>> THEN best ELSE First(all)

Rule(ends, starts, names, kinds, dirs, score) ==
    [ends |-> ends, starts |-> starts, names |-> names, kinds |-> kinds, dirs |-> dirs, score |-> score]
Ends(ends, kinds, dirs, score) == Rule(ends, {}, {}, kinds, dirs, score)
Proper(kinds, dirs, score)     == Rule({}, {}, Capitalised, kinds, dirs, score)

ByRules(rules, ref) ==
    LET name == Text(ref)
        fits == SelectSeq(rules, LAMBDA r : \/ AnyEnd(name, r.ends) \/ AnyStart(name, r.starts)
                                            \/ name \in r.names)
    IN  FirstHit([i \in DOMAIN fits |-> OneLink(ResolveByNameAndKind(name, fits[i].kinds, fits[i].dirs), fits[i].score)])
-----------------------------------------------------------------------------
Django  == <<Rule({"Model"}, {}, OneHump, {"class"}, {"models"}, 80),
             Ends({"View", "ViewSet"}, {"class", "function"}, {"views"}, 80),
             Ends({"Form"}, {"class"}, {"forms"}, 80)>>
Flask   == <<Ends({"_bp", "_blueprint"}, {"variable"}, {}, 80)>>
FastApi == <<Rule({"_router"}, {"router"}, {}, {"variable"}, {"/routers/", "/api/", "/routes/", "/endpoints/"}, 80),
             Rule({}, {"get_", "Depends"}, {}, {"function"}, {"/dependencies/", "/deps/", "/core/"}, 75)>>
Go      == <<Rule({"Handler"}, {"Handle"}, {}, {"function"},
                  {"/handler/", "/handlers/", "/api/", "/routes/", "/controller/", "/controllers/"}, 80),
             Ends({"Service", "Repository", "Store"}, {"struct", "interface"},
                  {"/service/", "/services/", "/repository/", "/store/", "/pkg/"}, 80),
             Rule({"Middleware"}, {"Auth", "Log"}, {}, {"function"}, {"/middleware/", "/middlewares/"}, 75),
             Proper({"struct"}, {"/model/", "/models/", "/entity/", "/entities/", "/domain/", "/pkg/"}, 70)>>
Rust    == <<Rule({"_handler"}, {"handle_"}, {}, {"function"},
                  {"/handlers/", "/handler/", "/api/", "/routes/", "/controllers/"}, 80),
             Ends({"Service", "Repository"}, {"struct", "trait"}, {"/services/", "/service/", "/repository/", "/domain/"}, 80),
             Proper({"struct"}, {"/models/", "/model/", "/entities/", "/entity/", "/domain/", "/types/"}, 70)>>
Spring  == <<Ends({"Service"}, {"class", "interface"}, {"/service/", "/services/"}, 85),
             Ends({"Repository"}, {"class", "interface"}, {"/repository/", "/repositories/"}, 85),
             Ends({"Controller"}, {"class"}, {"/controller/", "/controllers/"}, 85),
             Proper({"class"}, {"/entity/", "/entities/", "/model/", "/models/", "/domain/"}, 70),
             Ends({"Component", "Config"}, {"class"}, {"/component/", "/components/", "/config/"}, 80)>>
AspNet  == <<Ends({"Controller"}, {"class"}, {"/Controllers/"}, 85),
             Rule({"Service"}, {"I"}, {}, {"class", "interface"}, {"/Services/", "/Service/", "/Application/"}, 85),
             Ends({"Repository"}, {"class", "interface"}, {"/Repositories/", "/Repository/", "/Data/", "/Infrastructure/"}, 85),
             Proper({"class"}, {"/Models/", "/Model/", "/Entities/", "/Entity/", "/Domain/"}, 70),
             Ends({"ViewModel", "Dto"}, {"class"}, {"/ViewModels/", "/ViewModel/", "/DTOs/", "/Dto/"}, 80)>>
SwiftUI == <<Rule({}, {}, {n \in Capitalised : EndsWith(n, "View")}, {"struct", "component"}, {"/Views/", "/View/", "/Screens/", "/Components/", "/UI/"}, 85),
             Ends({"ViewModel", "Store", "Manager"}, {"class"}, {"/ViewModels/", "/ViewModel/", "/Stores/", "/Managers/", "/Services/"}, 85),
             Proper({"struct", "class"}, {"/Models/", "/Model/", "/Entities/", "/Domain/"}, 70)>>
UIKit   == <<Ends({"ViewController"}, {"class"}, {"/ViewControllers/", "/ViewController/", "/Controllers/", "/Screens/"}, 85),
             Ends({"View"}, {"class"}, {"/Views/", "/View/", "/UI/", "/Components/"}, 80),
             Ends({"Cell"}, {"class"}, {"/Cells/", "/Cell/", "/Views/", "/TableViewCells/", "/CollectionViewCells/"}, 85),
             Ends({"Delegate", "DataSource"}, {"protocol"}, {}, 80)>>
Vapor   == <<Ends({"Controller"}, {"class", "struct"}, {"/Controllers/", "/Controller/", "/Routes/"}, 85),
             Proper({"class"}, {"/Models/", "/Model/", "/Entities/", "/Database/"}, 75),
             Ends({"Middleware"}, {"class", "struct"}, {"/Middleware/", "/Middlewares/"}, 80)>>
-----------------------------------------------------------------------------
(* What a rule does not say.                                               *)
MethodIn(f, name, kinds) == Find(GetNodesInFile(f), LAMBDA s : s.kind \in kinds /\ s.name = name)
ClassIn(f, name)         == IF FileExists(f) THEN Find(GetNodesInFile(f), LAMBDA s : s.kind = "class" /\ s.name = name) ELSE <<>>
ClassesOf(name)          == SelectSeq(GetNodesByName(name), LAMBDA s : s.kind = "class")
MethodOfAny(classes, name, kinds) == FirstHit([i \in DOMAIN classes |-> MethodIn(classes[i].file, name, kinds)])
FirstFile(paths, Of(_))  == FirstHit([i \in DOMAIN paths |-> IF FileExists(paths[i]) THEN Of(paths[i]) ELSE <<>>])

(* ModelIterable.__iter__, for QuerySet's call of self._iterable_class.    *)
ResolveModelIterableIter ==
    LET cls  == Find(GetNodesByName("ModelIterable"), LAMBDA s : s.kind = "class")
    IN  IF cls = <<>> THEN <<>>
        ELSE Find(GetNodesByName("__iter__"), LAMBDA s : s.file = cls[1].file /\ s.line \in cls[1].line..cls[1].end)
ResolveDjango(ref) ==
    FirstHit(<<ByRules(Django, ref), IF Text(ref) = "_iterable_class" THEN OneLink(ResolveModelIterableIter, 70) ELSE <<>>>>)

(* A module of the crate, or a member of the workspace.                    *)
ResolveModule(name) ==
    LET At(paths, score) ==
            FirstHit([i \in DOMAIN paths |->
                LET own == IF FileExists(paths[i]) THEN GetNodesInFile(paths[i]) ELSE <<>>
                    mod == Find(own, LAMBDA s : s.kind = "module")
                IN  IF mod # <<>> THEN Link(mod[1], score) ELSE OneLink(First(own), score)])
        crate == SelectSeq(project.crates, LAMBDA c : c.name = name)
    IN  FirstHit(<<At(<<<<"src", name \o ".rs">>, <<"src", name, "mod.rs">>>>, 60),
                   At([i \in DOMAIN crate |-> crate[i].path \o <<"src", "lib.rs">>] \o
                      [i \in DOMAIN crate |-> crate[i].path \o <<"src", "main.rs">>], 95)>>)
ResolveRust(ref) ==
    FirstHit(<<ByRules(Rust, ref), IF Len(ref.parts) = 1 /\ Lower(Text(ref)) = Text(ref) THEN ResolveModule(Text(ref)) ELSE <<>>>>)

(* Rails: the file its convention names, then the class by its name.       *)
RailsAction(controller, action) ==
    FirstHit(<<FirstFile(<<<<"app", "controllers", controller \o "_controller.rb">>>>,
                         LAMBDA f : MethodIn(f, action, Callables)),
               MethodOfAny(ClassesOf(Snake(controller) \o "Controller"), action, Callables)>>)
RailsHelper(name) ==
    FirstFile(<<<<"app", "helpers", Snake(name) \o ".rb">>>>, LAMBDA f : MethodIn(f, name, {"module"}))
RailsClass(name, tops, dir) ==
    FirstHit(<<FirstFile([i \in DOMAIN tops |-> Append(tops[i], Snake(name) \o ".rb")], LAMBDA f : ClassIn(f, name)),
               IF dir = None THEN <<>> ELSE Find(ClassesOf(name), LAMBDA s : Includes(PathText(s.file), dir))>>)
ResolveRails(ref) ==
    LET name == Text(ref)
    IN  IF ref.sep = "#" THEN OneLink(RailsAction(ref.parts[1], ref.parts[2]), 85)
        ELSE FirstHit(<<
            IF name \in Capitalised
            THEN OneLink(RailsClass(name, <<<<"app", "models">>, <<"app", "models", "concerns">>>>, "app/models/"), 80) ELSE <<>>,
            IF EndsWith(name, "Controller")
            THEN OneLink(RailsClass(name, <<<<"app", "controllers">>, <<"app", "controllers", "api">>,
                                            <<"app", "controllers", "api", "v1">>>>, "controllers/"), 85) ELSE <<>>,
            IF EndsWith(name, "Helper") THEN OneLink(RailsHelper(name), 80) ELSE <<>>,
            IF AnyEnd(name, {"Service", "Job"})
            THEN OneLink(RailsClass(name, <<<<"app", "services">>, <<"app", "jobs">>, <<"app", "workers">>>>, None), 80) ELSE <<>>>>)

(* Laravel: a model's method or the model, and Controller@action.          *)
LaravelModel(class, method) ==
    FirstFile(<<<<"app", "Models", class \o ".php">>, <<"app", class \o ".php">>>>,
              LAMBDA f : FirstHit(<<MethodIn(f, method, {"method"}), ClassIn(f, class)>>))
LaravelAction(class, method) ==
    FirstHit(<<FirstFile(<<<<"app", "Http", "Controllers", class \o ".php">>>>, LAMBDA f : MethodIn(f, method, {"method"})),
               MethodOfAny(SelectSeq(ClassesOf(class), LAMBDA s : Includes(PathText(s.file), "Controllers")), method, {"method"})>>)
ResolveLaravel(ref) ==
    CASE ref.sep = "::" /\ Len(ref.parts) = 2 /\ ref.parts[1] \in Capitalised ->
             OneLink(LaravelModel(ref.parts[1], ref.parts[2]), 85)
      [] ref.sep = "@" -> OneLink(LaravelAction(ref.parts[1], ref.parts[2]), 90)
      [] OTHER -> <<>>

(* Play: Controller.action.                                                *)
ResolvePlay(ref) ==
    IF ref.sep # "." \/ Len(ref.parts) # 2 THEN <<>>
    ELSE OneLink(MethodOfAny(ClassesOf(ref.parts[1]), ref.parts[2], Callables), 90)

(* Drupal: Class::method by the first class of the name, or that class;    *)
(* a class by a path; any function of a hook file that ends like the hook. *)
ResolveDrupal(ref) ==
    LET classes == ClassesOf(ref.parts[1])
        method  == MethodIn(classes[1].file, ref.parts[2], {"method"})
        hooks   == Find(table, LAMBDA s : s.kind = "function" /\ EndsWith(s.name, SubSeq(Text(ref), 5, Len(Text(ref))))
                                          /\ AnyEnd(Last(s.file), {".module", ".install", ".theme", ".inc"}))
    IN  CASE ref.sep = "::" /\ Len(ref.parts) = 2 /\ classes # <<>> ->
                 IF method # <<>> THEN Link(method[1], 90) ELSE Link(classes[1], 70)
          [] ref.sep = "\\" -> OneLink(First(ClassesOf(Last(ref.parts))), 85)
          [] AnyStart(Text(ref), {"hook_"}) -> OneLink(hooks, 75)
          [] OTHER -> <<>>

(* React: a component beside the reference or in a usual place; hooks and  *)
(* contexts.  A directory is a prefix of every path that begins like it.   *)
BuiltInTypes == {"Array", "Boolean", "Date", "Error", "Function", "JSON", "Math", "Number", "Object", "Promise",
                 "RegExp", "String", "Symbol", "Map", "Set", "WeakMap", "WeakSet", "React", "Component", "Fragment",
                 "Suspense", "StrictMode"}
Beside(f, s) == AnyStart(PathText(s.file), {PathText(Directory(f))})
ResolveComponent(name, f, kinds, dirs) ==
    LET all == SelectSeq(GetNodesByName(name), LAMBDA s : s.kind \in kinds)
    IN  FirstHit(<<Find(all, LAMBDA s : Beside(f, s)), Find(all, LAMBDA s : InDirs(s, dirs)), First(all)>>)
ResolveReact(ref) ==
    LET name == Text(ref)
    IN  FirstHit(<<
        IF name \in Capitalised \ BuiltInTypes
        THEN OneLink(ResolveComponent(name, ref.file, {"component", "function", "class"}, {"/components/", "/pages/", "/views/"}), 80)
        ELSE <<>>,
        IF AnyStart(name, {"use"}) /\ Len(name) > 3
        THEN OneLink(ResolveByNameAndKind(name, {"function"}, {"/hooks/"}), 85) ELSE <<>>,
        IF AnyEnd(name, {"Context", "Provider"})
        THEN OneLink(FirstHit(<<Find(GetNodesByName(name), LAMBDA s : InDirs(s, {"/context/", "/contexts/", "/providers/"})),
                                First(GetNodesByName(name)),
                                First(GetNodesByName(Without(name, {"Context", "Provider"})))>>), 80) ELSE <<>>>>)

(* Express: middleware, with or without that word at the end, and the     *)
(* methods of controllers and services by the name of their file.          *)
Middleware == {"auth", "authenticate", "authorization", "cors", "helmet", "logger", "errorhandler", "notfound"}
IsMiddlewareName(name) ==
    LET low == Lower(name)
    IN  low \in Middleware \/ EndsWith(low, "middleware") \/ AnyStart(low, {"validate", "sanitize", "ratelimit"})
ResolveMiddleware(name) ==
    LET base == GetNodesByName(Without(name, {"Middleware", "middleware"}))
    IN  FirstHit(<<First(GetNodesByName(name)), Find(base, LAMBDA s : InDirs(s, {"/middleware/", "/middlewares/"})), First(base)>>)
MethodInFileOf(stem, name) ==
    Find(GetNodesByName(name), LAMBDA s : s.kind \in Callables /\ Includes(Lower(PathText(s.file)), Lower(stem)))
ResolveExpress(ref) ==
    LET MethodOf(ends, score) ==
            IF ref.sep = "." /\ Len(ref.parts) = 2 /\ AnyEnd(ref.parts[1], ends) /\ ref.parts[1] \notin ends
            THEN OneLink(FirstHit(<<MethodInFileOf(Without(ref.parts[1], ends), ref.parts[2]),
                                    IF ends = {"Controller"}
                                    THEN MethodOfAny(GetNodesByName(ref.parts[1]), ref.parts[2], Callables) ELSE <<>>>>), score)
            ELSE <<>>
    IN  FirstHit(<<IF IsMiddlewareName(Text(ref)) THEN OneLink(ResolveMiddleware(Text(ref)), 80) ELSE <<>>,
                   MethodOf({"Controller"}, 85), MethodOf({"Service", "Helper", "Util", "Utils"}, 80)>>)

(* Nest: a provider, best in the file its convention names.                *)
Providers == <<<<"Service", ".service.">>, <<"Controller", ".controller.">>, <<"Resolver", ".resolver.">>,
               <<"Gateway", ".gateway.">>, <<"Repository", ".repository.">>, <<"Guard", ".guard.">>,
               <<"Interceptor", ".interceptor.">>, <<"Pipe", ".pipe.">>, <<"Module", ".module.">>>>
ResolveNest(ref) ==
    LET fit  == Find(Providers, LAMBDA p : EndsWith(Text(ref), p[1]))
        all  == ClassesOf(Text(ref))
        best == Find(all, LAMBDA s : Includes(PathText(s.file), fit[1][2]))
    IN  IF fit = <<>> \/ all = <<>> THEN <<>>
        ELSE IF best # <<>> THEN Link(best[1], 85) ELSE Link(all[1], 70)

(* Svelte and Vue: what the compiler provides is linked to its own caller, *)
(* with certainty.                                                         *)
Runes  == {"$state", "$derived", "$effect", "$props", "$bindable", "$inspect", "$host"}
Macros == {"defineProps", "defineEmits", "defineExpose", "withDefaults", "useRoute", "useRouter", "navigateTo", "useFetch",
           "useState", "useHead", "useCookie", "useError", "createError", "showError", "clearError"}
Itself(ref) == Link(ref.from, 100)
ResolveSvelte(ref) ==
    LET name == Text(ref)
    IN  CASE name \in Runes -> Itself(ref)
          [] AnyStart(name, {"$"}) /\ ref.kind # "imports" ->
                 OneLink(Find(GetNodesByName(Drop(name, 1)), LAMBDA s : s.kind \in {"variable", "constant"}), 85)
          [] ref.kind = "imports" /\ ref.parts[1] = "$lib" ->
                 LET at == TryWithExt(<<"src", "lib">> \o Tail(ref.parts), "svelte")
                 IN  IF at = <<>> THEN <<>> ELSE OneLink(First(GetNodesInFile(at[1])), 90)
          [] ref.kind = "imports" /\ ref.parts[1] \in {"$app", "$env"} -> Itself(ref)
          [] name \in Capitalised /\ ref.kind = "calls" -> OneLink(ResolveComponent(name, ref.file, {"component"}, {}), 80)
          [] OTHER -> <<>>
ResolveVue(ref) ==
    LET name == Text(ref)
        own  == Find(table, LAMBDA s : s.kind = "component" /\ s.name = name /\ Last(s.file) = name \o ".vue")
        at   == TryWithExt(<<"src">> \o Tail(ref.parts), "vue")
    IN  CASE name \in Macros -> Itself(ref)
          [] ref.kind = "imports" /\ ref.parts[1] \in {"#imports", "#components", "#app", "#build", "#head"} -> Itself(ref)
          [] ref.kind = "imports" /\ ref.parts[1] \in {"@", "~"} /\ at # <<>> ->
                 OneLink(First(GetNodesInFile(at[1])), 90)
          [] name \in Capitalised /\ ref.kind = "calls" -> OneLink(own, 80)
          [] OTHER -> <<>>
-----------------------------------------------------------------------------
(* Mutation: only what names a symbol is looked at.                        *)
ClaimsNothing(fw, ref) == FALSE

(* References that name no symbol and yet mean something to a framework.   *)
Claims(fw, ref) ==
    CASE fw = "rails"   -> ref.sep = "#"
      [] fw = "laravel" -> ref.sep = "@"
      [] fw = "play"    -> ref.sep = "." /\ Len(ref.parts) = 2
      [] fw = "drupal"  -> ref.sep \in {"::", "\\"} \/ AnyStart(Text(ref), {"hook_"})
      [] fw = "django"  -> Text(ref) = "_iterable_class"
      [] OTHER          -> FALSE

Resolve(fw, ref) ==
    CASE fw = "laravel" -> ResolveLaravel(ref) [] fw = "drupal" -> ResolveDrupal(ref)
      [] fw = "express" -> ResolveExpress(ref) [] fw = "nest"   -> ResolveNest(ref)
      [] fw = "react"   -> ResolveReact(ref)   [] fw = "svelte" -> ResolveSvelte(ref)
      [] fw = "vue"     -> ResolveVue(ref)     [] fw = "django" -> ResolveDjango(ref)
      [] fw = "flask"   -> ByRules(Flask, ref) [] fw = "fastapi" -> ByRules(FastApi, ref)
      [] fw = "rails"   -> ResolveRails(ref)   [] fw = "spring" -> ByRules(Spring, ref)
      [] fw = "play"    -> ResolvePlay(ref)    [] fw = "go"     -> ByRules(Go, ref)
      [] fw = "rust"    -> ResolveRust(ref)    [] fw = "aspnet" -> ByRules(AspNet, ref)
      [] fw = "swiftui" -> ByRules(SwiftUI, ref) [] fw = "uikit" -> ByRules(UIKit, ref)
      [] fw = "vapor"   -> ByRules(Vapor, ref)

(* All that is registered, in order; which are detected is of the project. *)
Registry == <<"laravel", "drupal", "express", "nest", "react", "svelte", "vue", "django", "flask", "fastapi", "rails",
              "spring", "play", "go", "rust", "aspnet", "swiftui", "uikit", "vapor">>
Detected == SelectSeq(Registry, LAMBDA fw : fw \in project.frameworks)
ClaimedBySome(ref) == \E i \in DOMAIN Detected : Claims(Detected[i], ref)

(* Their answers, up to the first that is sure.                            *)
FrameworkLinks(ref) ==
    LET all  == FlattenSeq([i \in DOMAIN Detected |-> Resolve(Detected[i], ref)])
        sure == {i \in DOMAIN all : all[i].score >= 90}
    IN  IF sure = {} THEN all ELSE <<all[Least(sure)]>>
=============================================================================
