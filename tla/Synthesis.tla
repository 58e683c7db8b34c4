------------------------------ MODULE Synthesis ------------------------------
(***************************************************************************)
(* The edges no reference shows: the calls of observers, events, renders,  *)
(* overrides and the like that                                             *)
(* src/src/resolution/callback-synthesizer.ts adds after the references    *)
(* have been resolved.  What its patterns find in the text of a file are   *)
(* the marks of the file: [line, does, name, arg], in their order.         *)
(***************************************************************************)
EXTENDS Linking

CONSTANTS
    MaxCallbacks,   \* MAX_CALLBACKS_PER_CHANNEL
    FanoutCap,      \* EVENT_FANOUT_CAP
    MaxChildren,    \* MAX_JSX_CHILDREN
    Registrars,     \* names like onUpdate, subscribe, register
    Dispatchers     \* names that contain emit, trigger, notify, ...

OfKind(kinds) == SelectSeq(table, LAMBDA s : s.kind \in kinds)
Named(name, kinds) == SelectSeq(GetNodesByName(name), LAMBDA s : s.kind \in kinds)
Methods(class) == SelectSeq(table, LAMBDA s : s.kind = "method" /\ <<class, s>> \in project.contains)
Bases(class, kinds) ==
    SetToSeq({e.target : e \in {d \in UNION {CreateEdge(r) : r \in project.refs} : d.source = class /\ d.kind \in kinds}})

AllFiles     == SetToSeq(project.files)
Marks(f, does) == SelectSeq(project.marks[f], LAMBDA m : m.does \in does)
Body(s, does)  == SelectSeq(Marks(s.file, does), LAMBDA m : m.line \in s.line..s.end)
EnclosingIn(f, line, kinds) ==
    LET about == SelectSeq(GetNodesInFile(f), LAMBDA s : s.kind \in kinds /\ s.line <= line /\ line <= s.end)
    IN  IF about = <<>> THEN <<>> ELSE <<Last(about)>>
EnclosingFn(f, line) == EnclosingIn(f, line, Callables \cup {"component"})

Edge(s, t, by) == [source |-> s, target |-> t, by |-> by]

(* Edges in groups of bundles: a pair is kept once, nothing calls itself,  *)
(* and a group takes no further bundle once it has given cap edges.        *)
Collect(groups, cap) ==
    LET New(edges, es)  == SelectSeq(es, LAMBDA e : e.source # e.target
                                   /\ \A i \in DOMAIN edges : edges[i].source # e.source \/ edges[i].target # e.target)
        Add(edges, e)   == edges \o New(edges, <<e>>)
        Group(edges, g) == FoldLeft(LAMBDA acc, b : IF Len(acc) - Len(edges) >= cap THEN acc ELSE FoldLeft(Add, acc, b), edges, g)
    IN  FoldLeft(Group, <<>>, groups)

Each(seq, Of(_)) == [i \in DOMAIN seq |-> Of(seq[i])]
Flat(seq, Of(_)) == FlattenSeq(Each(seq, Of))
Unbounded        == 1000
-----------------------------------------------------------------------------
(* Observers: who adds to a field, who runs over it, and what is added.    *)
FieldOf(s, does) == LET m == Body(s, {does}) IN IF m = <<>> THEN None ELSE m[1].name
DispatcherField(s) == IF FieldOf(s, "for of") # None THEN FieldOf(s, "for of") ELSE FieldOf(s, "forEach")

FieldChannelEdges ==
    LET all  == OfKind({"method"}) \o OfKind({"function"})
        regs == SelectSeq(all, LAMBDA s : s.name \in Registrars /\ FieldOf(s, "adds") # None)
        Disp(reg) == SelectSeq(all, LAMBDA s : /\ s.name \in Dispatchers /\ s.file = reg.file
                                               /\ DispatcherField(s) = FieldOf(reg, "adds"))
        Callers(reg) == SetToSeq({r \in project.refs : [source |-> r.from, target |-> reg, kind |-> "calls"] \in CreateEdge(r)})
        Passed(reg, r) == Find(Marks(r.file, {"passes"}), LAMBDA m : m.line = r.line /\ m.name = reg.name)
        Bundle(reg, r) == LET p  == Passed(reg, r)
                              fn == IF p = <<>> THEN <<>> ELSE First(Named(p[1].arg, Callables))
                          IN  Flat(Disp(reg), LAMBDA d : IF fn = <<>> THEN <<>> ELSE <<Edge(d, fn[1], "callback")>>)
    IN  Collect(Each(regs, LAMBDA reg : Each(Callers(reg), LAMBDA r : Bundle(reg, r))), MaxCallbacks)

(* Events: whatever emits one calls whatever listens, if few do either.    *)
Channel(from, to, by) ==
    LET events == SetToSeq({f[1] : f \in from} \cap {t[1] : t \in to})
        At(S, event) == SetToSeq({p[2] : p \in {q \in S : q[1] = event}})
        Pairs(event) == IF Len(At(from, event)) > FanoutCap \/ Len(At(to, event)) > FanoutCap THEN <<>>
                        ELSE Flat(At(from, event), LAMBDA d : Each(At(to, event), LAMBDA h : <<Edge(d, h, by)>>))
    IN  Collect(<<Flat(events, Pairs)>>, Unbounded)

Emitters(f, does) == UNION {{<<m.name, d>> : d \in ToSet(EnclosingFn(f, m.line))} : m \in ToSet(Marks(f, does))}
Handlers(f) == UNION {{<<m.name, h>> : h \in ToSet(First(Named(m.arg, Callables)))} : m \in ToSet(Marks(f, {"on"}))}
EventEmitterEdges ==
    Channel(UNION {Emitters(f, {"emit"}) : f \in project.files}, UNION {Handlers(f) : f \in project.files}, "event-emitter")

(* React Native: what native code sends, what JavaScript listens for; an   *)
(* anonymous listener stands for the function or the object it is in.      *)
JSFile(f)  == AnyEnd(Last(f), {".js", ".jsx", ".ts", ".tsx", ".mjs", ".cjs"})
SendsOf(f) == CASE AnyEnd(Last(f), {".m", ".mm"})   -> {"sendEventWithName"}
                [] AnyEnd(Last(f), {".swift"})       -> {"sendEvent"}
                [] AnyEnd(Last(f), {".java", ".kt"}) -> {"emit"}
                [] OTHER -> {}
Subscriber(f, m) == FirstHit(<<First(Named(m.arg, Callables)), EnclosingFn(f, m.line),
                               EnclosingIn(f, m.line, {"constant", "variable"})>>)
RnEventEdges ==
    Channel(UNION {Emitters(f, SendsOf(f)) : f \in project.files},
            UNION {UNION {{<<m.name, h>> : h \in ToSet(Subscriber(f, m))} : m \in ToSet(Marks(f, {"on"}))} :
                   f \in {g \in project.files : JSFile(g)}}, "rn-event-channel")
-----------------------------------------------------------------------------
(* setState runs the render of its class, in Flutter the build.            *)
RerunEdges(name, does, ends, by) ==
    Collect(Each(OfKind({"class"}), LAMBDA c :
        LET run == Find(Methods(c), LAMBDA m : m.name = name)
        IN  IF run = <<>> THEN <<>> ELSE IF ~AnyEnd(Last(run[1].file), ends) THEN <<>>
            ELSE Each(SelectSeq(Methods(c), LAMBDA m : Body(m, does) # <<>>), LAMBDA m : <<Edge(m, run[1], by)>>)), MaxCallbacks)
ReactRenderEdges  == RerunEdges("render", {"this.setState"}, {""}, "react-render")
FlutterBuildEdges == RerunEdges("build", {"this.setState", "setState"}, {".dart"}, "flutter-build")

(* Overrides.  C++ knows one method of a name in the base, the last.       *)
CppOverrideEdges ==
    LET Sub(c) == SelectSeq(Methods(c), LAMBDA m : m.lang = "cpp")
        Under(c, b) == Flat(Sub(c), LAMBDA m :
                           LET over == SelectSeq(Methods(b), LAMBDA bm : bm.name = m.name)
                           IN  IF over = <<>> THEN <<>> ELSE << <<Edge(Last(over), m, "cpp-override")>> >>)
    IN  Collect(Flat(OfKind({"class"}), LAMBDA c :
            Each(SelectSeq(Bases(c, {"extends"}), LAMBDA b : b.lang = "cpp" /\ b # c), LAMBDA b : Under(c, b))), MaxCallbacks)

IFACE_OVERRIDE_LANGS == {"java", "kotlin", "csharp", "typescript", "javascript", "swift", "scala"}

(* Mutation: one method of a name stands for all its overloads.            *)
ImplsByName(c, name) ==
    SelectSeq(Methods(c), LAMBDA m : m.lang \in IFACE_OVERRIDE_LANGS /\ m.name = name /\ \A k \in ToSet(Methods(c)) : k.name = name => k.line <= m.line)

Impls(c, name) == SelectSeq(Methods(c), LAMBDA m : m.lang \in IFACE_OVERRIDE_LANGS /\ m.name = name)
InterfaceOverrideEdges ==
    LET Under(c, b) == Flat(Methods(b), LAMBDA bm : Each(Impls(c, bm.name), LAMBDA m : <<Edge(bm, m, "interface-impl")>>))
        Super(c) == SelectSeq(Bases(c, {"implements", "extends"}), LAMBDA b : b.lang \in IFACE_OVERRIDE_LANGS /\ b # c)
    IN  Collect(Flat(OfKind({"class"}) \o OfKind({"struct"}), LAMBDA c : Each(Super(c), LAMBDA b : Under(c, b))), MaxCallbacks)

(* The empty server a generator writes for a gRPC service, and any struct  *)
(* written by hand that has all of its methods.                            *)
GoGrpcStubImplEdges ==
    LET structs == SelectSeq(OfKind({"struct"}), LAMBDA s : s.lang = "go")
        stubs   == SelectSeq(structs, LAMBDA s : s.file \in project.generated /\ AnyStart(s.name, {"Unimplemented"}) /\ AnyEnd(s.name, {"Server"}))
        Rpcs(s) == SelectSeq(Methods(s), LAMBDA m : ~AnyStart(m.name, {"mustEmbed"}) /\ m.name # "testEmbeddedByValue")
        Serves(c, s) == /\ c # s /\ c.file \notin project.generated /\ Rpcs(s) # <<>>
                        /\ \A m \in ToSet(Rpcs(s)) : \E k \in ToSet(Methods(c)) : k.name = m.name
        Under(s, c) == Flat(Rpcs(s), LAMBDA sm : Each(SelectSeq(Methods(c), LAMBDA m : m.name = sm.name),
                                                      LAMBDA m : <<Edge(sm, m, "go-grpc-stub-impl")>>))
    IN  Collect(Flat(stubs, LAMBDA s : Each(SelectSeq(structs, LAMBDA c : Serves(c, s)), LAMBDA c : Under(s, c))), MaxCallbacks)
-----------------------------------------------------------------------------
(* What a component draws: tags of its body, and in a Vue template also    *)
(* tags with dashes and the handlers of its events.                        *)
Drawn == {"component", "function", "class"}
ReactJsxChildEdges ==
    LET Draws(f) == SelectSeq(GetNodesInFile(f), LAMBDA s : s.kind \in Callables \cup {"component"} /\ Body(s, {"closes tag"}) # <<>>)
        Child(p, m) == Each(First(Named(m.name, Drawn)), LAMBDA c : Edge(p, c, "jsx-render"))
    IN  Collect(Flat(SelectSeq(AllFiles, LAMBDA f : Marks(f, {"closes tag"}) # <<>>), LAMBDA f :
            Each(Draws(f), LAMBDA p : Each(Body(p, {"tag"}), LAMBDA m : Child(p, m)))), MaxChildren)

VueTemplateEdges ==
    LET Best(f, name, kinds) == FirstHit(<<Find(Named(name, kinds), LAMBDA s : s.file = f), First(Named(name, kinds))>>)
        \* const { close: name } = useX()
        Destructured(f, name) == SelectSeq(Marks(f, {"destructures"}), LAMBDA m : m.arg = name)
        Returned(f, name) ==
            LET d == Destructured(f, name)
                c == IF d = <<>> THEN <<>> ELSE Best(f, Last(d).name[1], Callables)
            IN  IF c = <<>> THEN <<>>
                ELSE Find(Named(Last(d).name[2], Callables \cup {"variable", "constant"}), LAMBDA s : s.file = c[1].file)
        Target(f, m) == IF m.does = "dashed tag" THEN Best(f, m.arg, Drawn)
                        ELSE FirstHit(<<Best(f, m.arg, Callables), Returned(f, m.arg)>>)
        By(m) == IF m.does = "dashed tag" THEN "jsx-render" ELSE "vue-handler"
        Bundle(f, c, m) == Each(Target(f, m), LAMBDA t : Edge(c, t, By(m)))
        Template(f, c) == Each(Marks(f, {"dashed tag"}) \o Marks(f, {"handles"}), LAMBDA m : Bundle(f, c, m))
    IN  Collect(Flat(SelectSeq(AllFiles, LAMBDA f : AnyEnd(Last(f), {".vue"})), LAMBDA f :
            Each(First(SelectSeq(GetNodesInFile(f), LAMBDA s : s.kind = "component")), LAMBDA c : Template(f, c))), MaxChildren)

(* A codegen component and the native classes named after it.              *)
FABRIC_NATIVE_SUFFIXES == <<"", "View", "ViewManager", "ComponentView", "Manager">>
FabricNativeImplEdges ==
    LET natives == SelectSeq(OfKind({"class"}), LAMBDA s : s.lang \in {"objc", "kotlin", "java", "cpp"})
        Of(c, suffix) == SelectSeq(natives, LAMBDA s : s.name = c.name \o suffix)
    IN  Collect(<<Flat(SelectSeq(OfKind({"component"}), LAMBDA s : s.lang = "fabric"), LAMBDA c :
            Flat(FABRIC_NATIVE_SUFFIXES, LAMBDA x : Each(Of(c, x), LAMBDA s : <<Edge(c, s, "fabric-native-impl")>>)))>>, Unbounded)

(* A mapper's method and the statement of its class and name, if only one  *)
(* class is so called.  A class is the last part of a namespace.           *)
MybatisJavaXmlEdges ==
    LET methods == OfKind({"method"})
        Java(x) == SelectSeq(methods, LAMBDA m : m.lang \in JVM /\ m.name = x.name /\ AnyEnd(m.qname, {x.type \o "::" \o x.name}))
        Xmls    == SelectSeq(methods, LAMBDA m : m.lang = "xml" /\ Len(Java(m)) = 1)
    IN  Collect(<<Each(Xmls, LAMBDA x : <<Edge(Java(x)[1], x, "mybatis-java-xml")>>)>>, Unbounded)

(* Gin: the method that indexes its handlers runs whatever is registered.  *)
GinMiddlewareChainEdges ==
    LET runs == SelectSeq(OfKind({"method"}), LAMBDA m : m.lang = "go" /\ Body(m, {"indexes handlers"}) # <<>>)
        registered == Flat(SelectSeq(AllFiles, LAMBDA f : AnyEnd(Last(f), {".go"})), LAMBDA f : Marks(f, {"registers"}))
        Handler(name) == Find(Named(name, Callables), LAMBDA s : s.lang = "go")
    IN  Collect(Each(runs, LAMBDA d : Each(registered, LAMBDA m : Each(Handler(m.arg), LAMBDA h : Edge(d, h, "gin-middleware-chain")))), MaxCallbacks)

(* All of them; a pair two of them find is one edge, of the first.         *)
SynthesizeCallbackEdges ==
    Collect(<<Each(FieldChannelEdges \o EventEmitterEdges \o ReactRenderEdges \o ReactJsxChildEdges \o VueTemplateEdges
                   \o FlutterBuildEdges \o CppOverrideEdges \o InterfaceOverrideEdges \o GoGrpcStubImplEdges \o RnEventEdges
                   \o FabricNativeImplEdges \o MybatisJavaXmlEdges \o GinMiddlewareChainEdges, LAMBDA e : <<e>>)>>, Unbounded)
-----------------------------------------------------------------------------
Joins(s, t) == s = t \/ \E e \in ToSet(SynthesizeCallbackEdges) : e.source = s /\ e.target = t

(* A type whose reference to another was linked: each method of the base    *)
(* leads to each of its own of that name.                                  *)
OverridesHold ==
    \A c \in ToSet(OfKind({"class", "struct"})) : \A b \in ToSet(Bases(c, {"implements", "extends"})) :
        b # c /\ {c.lang, b.lang} \subseteq IFACE_OVERRIDE_LANGS =>
            \A bm \in ToSet(Methods(b)), m \in ToSet(Methods(c)) : bm.name = m.name => Joins(bm, m)
=============================================================================
