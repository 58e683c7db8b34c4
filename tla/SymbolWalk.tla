------------------------------ MODULE SymbolWalk ------------------------------
(***************************************************************************)
(* How the extractor walks the syntax tree of one file, and what symbols,  *)
(* containment edges and references it leaves: TreeSitterExtractor of      *)
(* src/src/extraction/tree-sitter.ts.                                      *)
(*                                                                         *)
(* The recursion of the code is an agenda of tasks, the next one first; an *)
(* action is one call of an extract* or visit* method up to the calls it   *)
(* makes for its children, which it puts on the agenda.  The tree is a     *)
(* sequence of its nodes in preorder.  The node of a body is not a node of *)
(* its own: the children of a declaration are its Heads (type annotations, *)
(* annotations, base types) and, in order, what stands in its body.        *)
(***************************************************************************)
EXTENDS Naturals, Sequences, FiniteSets, Languages

CONSTANTS
    Programs    \* records of a language, a tree and how its text is laid out

\* Syntax trees of one of the languages, their nodes in preorder: the next
\* node hangs from the last one or from where that one hangs, or before.
ASSUME SymbolWalkAssumption ==
    \A p \in Programs :
       /\ p.language \in Known
       /\ p.tree \in Seq([type : STRING, up : Nat]) /\ p.tree # <<>>
       /\ p.tree[1] = [type |-> "file", up |-> 0]
       /\ \A n \in 2 .. Len(p.tree) :
             /\ p.tree[n].up \in 1 .. n - 1
             /\ \A m \in 2 .. n - 1 : p.tree[n].up >= m \/ p.tree[n].up <= p.tree[m].up

VARIABLES
    program,        \* [language, tree, oneName, oneLine, exported]
    agenda,         \* tasks [do, on], the next one first
    nodeStack,      \* ids of the enclosing symbols, outermost first
    nodes,          \* symbols [id, kind, name, at], in the order of their creation
    edges,          \* `contains` edges <<outer id, inner id>>
    references,     \* unresolved references [from, kind, at]
    methodIndex     \* <<what defProc looks names up in>>, or <<>> before its first use

walkVars == <<program, agenda, nodeStack, nodes, edges, references, methodIndex>>

-------------------------------------------------------------------------------
(* The syntax tree. *)

language == program.language
Tree     == DOMAIN program.tree
Type(n)  == program.tree[n].type
Parent(n) == program.tree[n].up

\* Line by line or on one line, all of one name or each of its own.
Line(n) == IF program.oneLine THEN 1 ELSE n
Name(n) == IF program.oneName THEN 1 ELSE n

\* The nodes of S as they stand in the text.
InOrder(S) ==
    [i \in 1 .. Cardinality(S) |-> CHOOSE n \in S : Cardinality({m \in S : m < n}) = i - 1]

Children(n) == InOrder({c \in Tree : Parent(c) = n})
ChildrenIn(n, types) == InOrder({c \in Tree : Parent(c) = n /\ Type(c) \in types})

\* In preorder what is below a node is all that follows it up to the first
\* one that hangs from a node before it.
Ancestors(n) == {a \in 1 .. n - 1 : \A m \in a + 1 .. n : Parent(m) >= a}

Heads == {"type", "annotation", "base"}

InBody(n) == InOrder({c \in Tree : Parent(c) = n /\ Type(c) \notin Heads})

\* The body of a class field is that of its function, the first one that is
\* its value or an argument of a call.
BodyOfField(n) ==
    LET functions == InOrder({c \in Tree \ {1} :
            /\ Type(c) = "arrow"
            /\ \/ Parent(c) = n
               \/ Type(Parent(c)) = "call" /\ Parent(Parent(c)) = n})
    IN  IF functions = <<>> THEN <<>> ELSE InBody(functions[1])

Body(n) == IF Type(n) = "field" THEN BodyOfField(n) ELSE InBody(n)

\* The name of an arrow function is that of the variable it initializes.
IsAnonymous(n) == Type(n) = "arrow"
NameOfArrow(n) == IF Type(Parent(n)) = "variable" THEN {Name(Parent(n))} ELSE {}

-------------------------------------------------------------------------------
(* Symbols, edges, references and tasks. *)

Id(kind, name, n) == <<kind, name, Line(n)>>
FileId == Id("file", 0, 1)

Symbol(kind, name, n) == [id |-> Id(kind, name, n), kind |-> kind, name |-> name, at |-> n]

Kind(id) == id[1]

Top == nodeStack[Len(nodeStack)]

IsInsideClassLikeNode ==
    Kind(Top) \in {"class", "struct", "interface", "trait", "enum", "module"}

Reference(from, kind, n) == [from |-> from, kind |-> kind, at |-> n]
ReferencesTo(from, kind, s) == [i \in DOMAIN s |-> Reference(from, kind, s[i])]

Tasks(do, s) == [i \in DOMAIN s |-> [do |-> do, on |-> s[i]]]
PopScope == <<[do |-> "pop", on |-> 1]>>

This == Head(agenda).on
Doing(do) == agenda # <<>> /\ Head(agenda).do = do
Then(tasks) == agenda' = tasks \o Tail(agenda)

\* createNode for each of a sequence of symbols with one parent.
CreateUnder(parent, s) ==
    /\ nodes' = nodes \o s
    /\ edges' = edges \o [i \in DOMAIN s |-> <<parent, s[i].id>>]

Keep == UNCHANGED <<nodeStack, nodes, edges, references>>
Add(rs) == references' = references \o rs

\* The symbol becomes the scope of the tasks.
OpenScope(symbol, tasks) ==
    /\ CreateUnder(Top, <<symbol>>)
    /\ nodeStack' = Append(nodeStack, symbol.id)
    /\ Then(tasks \o PopScope)

\* The symbol has no scope of its own.
Leaf(symbol, tasks) ==
    /\ CreateUnder(Top, <<symbol>>)
    /\ Then(tasks)
    /\ UNCHANGED nodeStack

-------------------------------------------------------------------------------
(* What is read off a declaration beside its name. *)

TypesIn(roots) ==
    InOrder({m \in Tree : Type(m) = "type" /\ (m \in roots \/ Ancestors(m) \cap roots # {})})

Annotations(n) == {c \in Tree \ {1} : Parent(c) = n /\ Type(c) \in {"type", "objtype"}}

ExtractTypeAnnotations(n, from) ==
    IF language.annotated THEN ReferencesTo(from, "references", TypesIn(Annotations(n)))
                          ELSE <<>>

\* Annotations of its own, and the decorators right before it.
DecoratorsOf(n) ==
    LET siblings == {c \in Tree \ {1} : Parent(c) = Parent(n)} IN
    ChildrenIn(n, {"annotation"}) \o
    InOrder({c \in siblings : c < n /\ \A d \in siblings : c <= d /\ d < n => Type(d) = "decorator"})

ExtractDecoratorsFor(n, id) == ReferencesTo(id, "decorates", DecoratorsOf(n))
ExtractInheritance(n, id) == ReferencesTo(id, "extends", ChildrenIn(n, {"base"}))

\* The name of the type a function is a method of, if it has one.
GetReceiverType(n) ==
    IF language.receiver = "impl"
    THEN {Name(m) : m \in {a \in Ancestors(n) : /\ Type(a) = "impl"
                                                /\ \A b \in Ancestors(n) :
                                                      Type(b) = "impl" => b <= a}}
    ELSE IF language.receiver = Type(n) THEN {Name(n)} ELSE {}

SymbolsOf(kinds, names) ==
    SelectSeq(nodes, LAMBDA d : d.kind \in kinds /\ d.name \in names)

-------------------------------------------------------------------------------
(* The methods that extract one declaration. *)

Skip == Then(<<>>) /\ Keep /\ UNCHANGED methodIndex

VisitInstead(do, s) == Then(Tasks(do, s)) /\ Keep /\ UNCHANGED methodIndex

\* extractMethod, once it is settled that n is a method.
AsMethod(n) ==
    LET symbol == Symbol("method", Name(n), n)
        owners == SymbolsOf({"struct", "class", "enum", "trait"}, GetReceiverType(n))
        owner  == IF IsInsideClassLikeNode \/ owners = <<>> THEN <<>>
                  ELSE <<<<owners[1].id, symbol.id>>>>
    IN  /\ nodes' = Append(nodes, symbol)
        /\ edges' = Append(edges, <<Top, symbol.id>>) \o owner
        /\ Add(ExtractTypeAnnotations(n, symbol.id) \o ExtractDecoratorsFor(n, symbol.id))
        /\ nodeStack' = Append(nodeStack, symbol.id)
        /\ Then(Tasks("body", Body(n)) \o PopScope)
        /\ UNCHANGED methodIndex

\* extractFunction, once it is settled that n is a function of this name.
AsFunction(n, name) ==
    LET symbol == Symbol("function", name, n) IN
    /\ OpenScope(symbol, Tasks("body", Body(n)))
    /\ Add(ExtractTypeAnnotations(n, symbol.id) \o ExtractDecoratorsFor(n, symbol.id))
    /\ UNCHANGED methodIndex

\* names has the name of n, or is empty when n is anonymous.
ExtractFunction(n, names) ==
    \/ GetReceiverType(n) # {} /\ AsMethod(n)
    \/ GetReceiverType(n) = {} /\ names = {} /\ Skip
    \/ /\ GetReceiverType(n) = {} /\ Type(n) = "misparsed"
       /\ VisitInstead("body", Body(n))
    \/ /\ GetReceiverType(n) = {} /\ Type(n) # "misparsed"
       /\ \E name \in names : AsFunction(n, name)

ExtractMethod(n) ==
    LET isMethod == \/ IsInsideClassLikeNode \/ language.methodsAreTopLevel
                    \/ GetReceiverType(n) # {}
    IN  \/ ~isMethod /\ Type(Parent(n)) = "object" /\ VisitInstead("body", Body(n))
        \/ ~isMethod /\ Type(Parent(n)) # "object" /\ ExtractFunction(n, {Name(n)})
        \/ isMethod /\ Type(n) = "misparsed" /\ VisitInstead("body", Body(n))
        \/ isMethod /\ Type(n) # "misparsed" /\ AsMethod(n)

\* The class as it would be without a scope of its own.
ExtractClassUnscoped(n, kind) ==
    LET symbol == Symbol(kind, Name(n), n) IN
    /\ Leaf(symbol, Tasks("visit", Body(n)))
    /\ Add(ExtractInheritance(n, symbol.id) \o ExtractDecoratorsFor(n, symbol.id))
    /\ UNCHANGED methodIndex

ExtractClass(n, kind) ==
    LET symbol == Symbol(kind, Name(n), n) IN
    /\ OpenScope(symbol, Tasks("visit", Body(n)))
    /\ Add(ExtractInheritance(n, symbol.id) \o ExtractDecoratorsFor(n, symbol.id))
    /\ UNCHANGED methodIndex

ExtractInterface(n) ==
    LET symbol == Symbol(language.interfaceKind, Name(n), n) IN
    /\ OpenScope(symbol, Tasks("visit", Body(n)))
    /\ Add(ExtractInheritance(n, symbol.id))
    /\ UNCHANGED methodIndex

\* Without a body it is a forward declaration or the use of a type.
ExtractStruct(n) ==
    LET symbol == Symbol("struct", Name(n), n) IN
    \/ Type(n) = "structRef" /\ Skip
    \/ /\ Type(n) # "structRef"
       /\ OpenScope(symbol, Tasks("visit", Body(n)))
       /\ Add(ExtractInheritance(n, symbol.id))
       /\ UNCHANGED methodIndex

MemberTasks(s) ==
    [i \in DOMAIN s |->
        [do |-> IF Type(s[i]) \in language.enumMemberTypes THEN "member" ELSE "visit",
         on |-> s[i]]]

ExtractEnum(n) ==
    LET symbol == Symbol("enum", Name(n), n) IN
    \/ Type(n) = "enumRef" /\ Skip
    \/ /\ Type(n) # "enumRef"
       /\ OpenScope(symbol, MemberTasks(Body(n)))
       /\ Add(ExtractInheritance(n, symbol.id))
       /\ UNCHANGED methodIndex

ExtractEnumMembers ==
    /\ Doing("member")
    /\ Leaf(Symbol("enum_member", Name(This), This), <<>>)
    /\ UNCHANGED <<program, references, methodIndex>>

\* Its initial value or its accessors are not walked.
ExtractPropertyOrField(n, kind) ==
    LET symbol == Symbol(kind, Name(n), n) IN
    /\ Leaf(symbol, <<>>)
    /\ Add(ExtractDecoratorsFor(n, symbol.id) \o ExtractTypeAnnotations(n, symbol.id))
    /\ UNCHANGED methodIndex

\* The variable as it would be if its children were visited as well.
ExtractVariableAndDescend(n) ==
    /\ Leaf(Symbol("variable", Name(n), n),
            Tasks("body", InBody(n)) \o Tasks("visit", Children(n)))
    /\ UNCHANGED <<references, methodIndex>>

\* An arrow function makes a function of the variable; the functions in an
\* exported object become functions named by their keys.
ExtractVariable(n) ==
    LET value  == InBody(n)
        symbol == Symbol("variable", Name(n), n)
        type   == ReferencesTo(symbol.id, "references", TypesIn(Annotations(n)))
        walked == IF value = <<>> THEN <<>>
                  ELSE IF Type(value[1]) # "object" THEN Tasks("body", value)
                  ELSE IF program.exported THEN Tasks("named", ChildrenIn(value[1], {"arrow"}))
                  ELSE <<>>
    IN  \/ Type(n) = "destructuring" /\ Skip
        \/ /\ Type(n) # "destructuring" /\ ~language.walksValues
           /\ Leaf(symbol, <<>>)
           /\ UNCHANGED <<references, methodIndex>>
        \/ /\ Type(n) # "destructuring" /\ language.walksValues
           /\ value # <<>> /\ Type(value[1]) = "arrow"
           /\ ExtractFunction(value[1], NameOfArrow(value[1]))
        \/ /\ Type(n) # "destructuring" /\ language.walksValues
           /\ value # <<>> => Type(value[1]) # "arrow"
           /\ Leaf(symbol, walked)
           /\ Add(type)
           /\ UNCHANGED methodIndex

\* A function in an exported object.
ExtractNamed ==
    /\ Doing("named")
    /\ ExtractFunction(This, {Name(This)})
    /\ UNCHANGED program

\* The declaration that a `type X struct` or a `typedef enum` wraps.
Wrapped(n) == ChildrenIn(n, language.aliased)

ExtractWrapped(n) ==
    LET inner  == Wrapped(n)[1]
        kind   == Type(inner)
        symbol == Symbol(kind, Name(n), n)
        tasks  == IF kind = "enum" THEN MemberTasks(Body(inner))
                  ELSE Tasks("visit", Body(inner))
    IN  /\ \/ kind = "interface" /\ Leaf(symbol, <<>>)
           \/ kind # "interface" /\ OpenScope(symbol, tasks)
        /\ Add(ExtractInheritance(inner, symbol.id))
        /\ UNCHANGED methodIndex

\* The members of an object type become methods of the alias, which also
\* has the types they name; the children of an alias are visited, too.
ExtractTypeAlias(n) ==
    LET symbol  == Symbol("type_alias", Name(n), n)
        members == IF language.walksValues
                   THEN InOrder({c \in Tree \ {1} : /\ Type(c) = "signature"
                                                     /\ Type(Parent(c)) = "objtype"
                                                     /\ Parent(Parent(c)) = n})
                   ELSE <<>>
        contract == [i \in DOMAIN members |->
                        Symbol("method", Name(members[i]), members[i])]
        again == {m \in Tree : /\ Type(m) = "type"
                              /\ \E i \in DOMAIN members : members[i] \in Ancestors(m)}
    IN  /\ nodes' = Append(nodes, symbol) \o contract
        /\ edges' = Append(edges, <<Top, symbol.id>>)
                    \o [i \in DOMAIN contract |-> <<symbol.id, contract[i].id>>]
        /\ Add(IF language.annotated
               THEN ReferencesTo(symbol.id, "references",
                                 TypesIn(Annotations(n)) \o InOrder(again))
               ELSE <<>>)
        /\ Then(Tasks("visit", Children(n)))
        /\ UNCHANGED <<nodeStack, methodIndex>>

ExtractImport(n) ==
    /\ Leaf(Symbol("import", Name(n), n), Tasks("visit", Children(n)))
    /\ Add(<<Reference(Top, "imports", n)>>)
    /\ UNCHANGED methodIndex

\* do is the kind of walk that goes on inside the call.
ExtractCall(n, do) ==
    /\ Then(Tasks(do, Children(n)))
    /\ Add(<<Reference(Top, "calls", n)>>)
    /\ UNCHANGED <<nodeStack, nodes, edges, methodIndex>>

\* With a class body it is an anonymous class, and the arguments are not
\* walked.
ExtractInstantiation(n, do) ==
    LET body      == ChildrenIn(n, {"classbody"})
        symbol    == Symbol("class", 0, n)
        instantiates == Reference(Top, "instantiates", n)
    IN  \/ /\ body = <<>>
           /\ Then(Tasks(do, Children(n)))
           /\ Add(<<instantiates>>)
           /\ UNCHANGED <<nodeStack, nodes, edges, methodIndex>>
        \/ /\ body # <<>>
           /\ OpenScope(symbol, Tasks("visit", Children(body[1])))
           /\ Add(<<instantiates, Reference(symbol.id, "extends", n)>>)
           /\ UNCHANGED methodIndex

\* `impl Trait for Type`, if the type has been met.
ExtractRustImplItem(n) ==
    LET types == SymbolsOf({"struct", "enum", "class"}, {Name(n)}) IN
    /\ Then(Tasks("visit", Children(n)))
    /\ Add(IF types = <<>> THEN <<>>
           ELSE ReferencesTo(types[1].id, "implements", ChildrenIn(n, {"base"})))
    /\ UNCHANGED <<nodeStack, nodes, edges, methodIndex>>

\* A member of an interface names its types for the interface.
VisitSignature(n) ==
    /\ Then(Tasks("visit", Children(n)))
    /\ Add(ExtractTypeAnnotations(n, Top))
    /\ UNCHANGED <<nodeStack, nodes, edges, methodIndex>>

-------------------------------------------------------------------------------
(* visitNode: one alternative for each branch of the dispatch. *)

Visiting(types) == Doing("visit") /\ Type(This) \in types
SameProgram == UNCHANGED program

VisitFunction ==
    /\ Visiting(language.functionTypes)
    /\ IF IsInsideClassLikeNode /\ Type(This) \in language.methodTypes
       THEN ExtractMethod(This)
       ELSE ExtractFunction(This, IF IsAnonymous(This) THEN NameOfArrow(This) ELSE {Name(This)})
    /\ SameProgram

VisitMethod ==
    /\ Visiting(language.methodTypes \ language.functionTypes)
    /\ ExtractMethod(This)
    /\ SameProgram

VisitClass     == Visiting(language.classTypes) /\ ExtractClass(This, "class") /\ SameProgram
VisitInterface == Visiting(language.interfaceTypes) /\ ExtractInterface(This) /\ SameProgram
VisitStruct    == Visiting(language.structTypes) /\ ExtractStruct(This) /\ SameProgram
VisitEnum      == Visiting(language.enumTypes) /\ ExtractEnum(This) /\ SameProgram

VisitTypeAlias ==
    /\ Visiting(language.typeAliasTypes)
    /\ IF Wrapped(This) # <<>> THEN ExtractWrapped(This) ELSE ExtractTypeAlias(This)
    /\ SameProgram

\* Of fields and properties only those of classes are extracted, of
\* variables only the others.
Declares(n) ==
    \/ Type(n) \in language.propertyTypes \cup language.fieldTypes /\ IsInsideClassLikeNode
    \/ Type(n) \in language.variableTypes /\ ~IsInsideClassLikeNode

VisitMember ==
    /\ Visiting(language.propertyTypes \cup language.fieldTypes)
    /\ IsInsideClassLikeNode
    /\ ExtractPropertyOrField(This, Type(This))
    /\ SameProgram

VisitVariable ==
    /\ Visiting(language.variableTypes)
    /\ ~IsInsideClassLikeNode
    /\ ExtractVariable(This)
    /\ SameProgram

VisitImport == Visiting(language.importTypes) /\ ExtractImport(This) /\ SameProgram
VisitCall   == ~language.pascal /\ Visiting(language.callTypes) /\ ExtractCall(This, "visit") /\ SameProgram
VisitNew    == Visiting({"new"}) /\ ExtractInstantiation(This, "visit") /\ SameProgram
VisitImpl   == Visiting({"impl"}) /\ ExtractRustImplItem(This) /\ SameProgram

IsContract(n) == Type(n) = "signature" /\ IsInsideClassLikeNode /\ language.annotated

VisitContract == Visiting({"signature"}) /\ IsContract(This) /\ VisitSignature(This) /\ SameProgram

Declarations ==
    UNION {language.functionTypes, language.methodTypes, language.classTypes,
           language.interfaceTypes, language.structTypes, language.enumTypes,
           language.typeAliasTypes, language.importTypes, language.callTypes, {"new", "impl"}}

PascalTypes ==
    {"unit", "declType", "declUses", "declConst", "declVar", "defProc", "declProp",
     "declField", "exprCall", "block"}

VisitOther ==
    /\ Doing("visit")
    /\ Type(This) \notin Declarations \cup (IF language.pascal THEN PascalTypes ELSE {})
    /\ ~Declares(This) /\ ~IsContract(This)
    /\ VisitInstead("visit", Children(This))
    /\ SameProgram

VisitNode ==
    \/ VisitFunction \/ VisitMethod \/ VisitClass \/ VisitInterface \/ VisitStruct
    \/ VisitEnum \/ VisitTypeAlias \/ VisitMember \/ VisitVariable \/ VisitImport
    \/ VisitCall \/ VisitNew \/ VisitImpl \/ VisitContract \/ VisitOther

-------------------------------------------------------------------------------
(* visitFunctionBody: calls, and declarations in bodies. *)

InBodyOf(types) == Doing("body") /\ Type(This) \in types

StructureInBodies ==
    UNION {language.callTypes, {"new"}, language.functionTypes, language.classTypes,
           language.structTypes, language.enumTypes, language.interfaceTypes}

BodyCall == InBodyOf(language.callTypes) /\ ExtractCall(This, "body") /\ SameProgram
BodyNew  == InBodyOf({"new"}) /\ ExtractInstantiation(This, "body") /\ SameProgram

\* A named function; an anonymous one belongs to the body it is in.
BodyFunction ==
    /\ InBodyOf(language.functionTypes)
    /\ ~IsAnonymous(This)
    /\ ExtractFunction(This, {Name(This)})
    /\ SameProgram

BodyType ==
    /\ \/ InBodyOf(language.classTypes) /\ ExtractClass(This, "class")
       \/ InBodyOf(language.structTypes) /\ ExtractStruct(This)
       \/ InBodyOf(language.enumTypes) /\ ExtractEnum(This)
       \/ InBodyOf(language.interfaceTypes) /\ ExtractInterface(This)
    /\ SameProgram

\* The walk as it would be if it left out anonymous functions, as visitNode
\* does.
BodyOtherButFunctions ==
    /\ Doing("body")
    /\ Type(This) \in StructureInBodies => IsAnonymous(This)
    /\ VisitInstead("body", IF IsAnonymous(This) THEN <<>> ELSE Children(This))
    /\ SameProgram

BodyOther ==
    /\ Doing("body")
    /\ Type(This) \in StructureInBodies => IsAnonymous(This)
    /\ VisitInstead("body", Children(This))
    /\ SameProgram

VisitFunctionBody == BodyCall \/ BodyNew \/ BodyFunction \/ BodyType \/ BodyOther

-------------------------------------------------------------------------------
(* visitPascalNode, which comes before the dispatch of visitNode. *)

InPascal(types) == language.pascal /\ Visiting(types)

\* The module is no scope of what the unit declares.
PascalUnit ==
    /\ InPascal({"unit"})
    /\ Leaf(Symbol("module", Name(This), This), Tasks("visit", Children(This)))
    /\ UNCHANGED <<program, references, methodIndex>>

PascalDeclType ==
    LET inner  == ChildrenIn(This, {"declClass", "declIntf", "declEnum"})
        kind   == IF inner = <<>> THEN "type_alias"
                  ELSE CASE Type(inner[1]) = "declClass" -> "class"
                         [] Type(inner[1]) = "declIntf"  -> "interface"
                         [] Type(inner[1]) = "declEnum"  -> "enum"
        symbol == Symbol(kind, Name(This), This)
        values == ChildrenIn(inner[1], {"declEnumValue"})
    IN  /\ InPascal({"declType"})
        /\ \/ kind = "type_alias" /\ Leaf(symbol, <<>>)
           \/ kind = "enum" /\ OpenScope(symbol, Tasks("member", values))
           \/ /\ kind \in {"class", "interface"}
              /\ OpenScope(symbol, Tasks("visit", Children(inner[1])))
        /\ Add(IF kind = "class" THEN ExtractInheritance(inner[1], symbol.id) ELSE <<>>)
        /\ UNCHANGED <<program, methodIndex>>

\* One import for each unit that is named.
PascalUses ==
    LET units == Children(This) IN
    /\ InPascal({"declUses"})
    /\ CreateUnder(Top, [i \in DOMAIN units |-> Symbol("import", Name(units[i]), units[i])])
    /\ Add(ReferencesTo(Top, "imports", units))
    /\ Then(<<>>)
    /\ UNCHANGED <<program, nodeStack, methodIndex>>

PascalKind == [declConst |-> "constant", declVar |-> "variable",
               declProp |-> "property", declField |-> "field"]

PascalMember ==
    /\ InPascal(DOMAIN PascalKind)
    /\ Leaf(Symbol(PascalKind[Type(This)], Name(This), This), <<>>)
    /\ UNCHANGED <<program, references, methodIndex>>

\* The body of a procedure belongs to its declaration, which is looked up
\* in an index made when it is first needed.
PascalDefProc ==
    LET procedures == SelectSeq(nodes, LAMBDA d : d.kind \in {"method", "function"})
        index == IF methodIndex = <<>> THEN procedures ELSE methodIndex[1]
        found == SelectSeq(index, LAMBDA d : d.name = Name(This))
    IN  /\ InPascal({"defProc"})
        /\ methodIndex' = <<index>>
        /\ nodeStack' = Append(nodeStack, IF found = <<>> THEN Top ELSE found[1].id)
        /\ Then(Tasks("block", Children(This)) \o PopScope)
        /\ UNCHANGED <<program, nodes, edges, references>>

\* Of a call the arguments are walked, of a dotted expression its calls.
PascalCall ==
    /\ \/ InPascal({"exprCall"})
       \/ Doing("block") /\ Type(This) = "exprCall"
    /\ Add(<<Reference(Top, "calls", This)>>)
    /\ Then(Tasks("block", InOrder({c \in Tree : Parent(c) = This /\ Type(c) # "exprDot"})))
    /\ UNCHANGED <<program, nodeStack, nodes, edges, methodIndex>>

PascalBlock ==
    /\ \/ InPascal({"block"})
       \/ Doing("block") /\ Type(This) # "exprCall"
    /\ VisitInstead("block", IF Doing("block") /\ Type(This) = "exprDot"
                             THEN ChildrenIn(This, {"exprCall"}) ELSE Children(This))
    /\ SameProgram

VisitPascal ==
    \/ PascalUnit \/ PascalDeclType \/ PascalUses \/ PascalMember \/ PascalDefProc
    \/ PascalCall \/ PascalBlock

-------------------------------------------------------------------------------

\* The package of a file is a namespace around everything in it.
WalkInit ==
    /\ program \in Programs
    /\ LET packages  == ChildrenIn(1, language.packageTypes)
           file      == [id |-> FileId, kind |-> "file", name |-> 0, at |-> 1]
           namespace == Symbol("namespace", Name(packages[1]), packages[1])
           scopes    == IF packages = <<>> THEN <<file>> ELSE <<file, namespace>>
       IN  /\ nodes = scopes
           /\ edges = IF packages = <<>> THEN <<>> ELSE <<<<FileId, namespace.id>>>>
           /\ nodeStack = [i \in DOMAIN scopes |-> scopes[i].id]
           /\ agenda = Tasks("visit", <<1>>) \o
                       (IF packages = <<>> THEN PopScope ELSE PopScope \o PopScope)
    /\ references = <<>>
    /\ methodIndex = <<>>

Pop ==
    /\ Doing("pop")
    /\ nodeStack' = SubSeq(nodeStack, 1, Len(nodeStack) - 1)
    /\ Then(<<>>)
    /\ UNCHANGED <<program, nodes, edges, references, methodIndex>>

Done == agenda = <<>>

Finished == Done /\ UNCHANGED walkVars

WalkNext ==
    \/ VisitNode \/ VisitFunctionBody \/ VisitPascal
    \/ ExtractEnumMembers \/ ExtractNamed \/ Pop \/ Finished

WalkSpec == WalkInit /\ [][WalkNext]_walkVars

-------------------------------------------------------------------------------
(* Properties. *)

Scopes == {"namespace", "function", "method", "class", "interface", "struct", "trait", "enum"}

\* A member of the object type of a type alias, the one symbol a signature
\* makes.  Neither an alias nor its members open a scope: what a type query
\* in them calls is called from around the alias.
IsMember(n) == language.walksValues /\ Type(n) = "signature"
Encloses(d) == d.kind \in Scopes /\ ~IsMember(d.at)

\* The symbol of the innermost enclosing declaration; around all of them is
\* the namespace of the package, or the file.
Around(n) == {i \in DOMAIN nodes : Encloses(nodes[i]) /\ nodes[i].at \in Ancestors(n)}

ScopeOf(n) ==
    LET inner == {i \in Around(n) : \A j \in Around(n) : nodes[j].at <= nodes[i].at}
    IN  IF inner # {} THEN nodes[CHOOSE i \in inner : TRUE].id
        ELSE IF Len(nodes) > 1 /\ nodes[2].kind = "namespace" /\ nodes[2].at # n
             THEN nodes[2].id ELSE FileId

\* A member belongs to the alias its object type stands in.
ContainerOf(n) ==
    IF IsMember(n) THEN nodes[CHOOSE i \in DOMAIN nodes : nodes[i].at = Parent(Parent(n))].id
                   ELSE ScopeOf(n)

InDefProc(n) == \E a \in Ancestors(n) : Type(a) = "defProc"

(* Whatever the nesting, a symbol is contained in the innermost symbol     *)
(* around it, and calls, instantiations and imports come from there: what  *)
(* createNode and the references read off the top of nodeStack is right    *)
(* in every branch of the walk.                                            *)
AttributedToInnermost ==
    /\ \A i \in DOMAIN nodes : nodes[i].at # 1 =>
          \E j \in DOMAIN edges : edges[j] = <<ContainerOf(nodes[i].at), nodes[i].id>>
    /\ \A i \in DOMAIN references :
          LET r == references[i] IN
          r.kind \in {"calls", "instantiates", "imports"} /\ ~InDefProc(r.at) =>
              r.from = ScopeOf(r.at)

(* No branch of the dispatch extracts what another one has extracted: one  *)
(* declaration makes one symbol, one call one reference.  (The types named *)
(* in nested members are the exception: TypesAreNamedOnce.)                *)
NothingIsExtractedTwice ==
    /\ \A i, j \in DOMAIN nodes : nodes[i].at = nodes[j].at => i = j
    /\ \A i, j \in DOMAIN references :
          /\ references[i].kind # "references"
          /\ references[i].kind = references[j].kind
          /\ references[i].at = references[j].at
          => i = j

TypesAreNamedOnce ==
    \A i, j \in DOMAIN references :
        references[i].kind = "references" /\ references[i] = references[j] => i = j

Calls == language.callTypes \cup {"new"}

\* Nothing with a body of its own, and no `new` whose class body hides its
\* arguments.
IsTransparent(a) ==
    \/ Type(a) \notin StructureInBodies \/ Type(a) \in language.callTypes \cup {"arrow"}
    \/ Type(a) = "new" /\ ChildrenIn(a, {"classbody"}) = <<>>

InBodyItself(n, f) ==
    /\ \E i \in DOMAIN Body(f) : Body(f)[i] = n \/ Body(f)[i] \in Ancestors(n)
    /\ \A a \in Ancestors(n) : f \in Ancestors(a) => IsTransparent(a)

(* What the comment in visitFunctionBody calls "no lost edges": every call *)
(* in the body of a function that became a symbol is a reference, however  *)
(* deep in anonymous functions, objects and variables it stands.           *)
BodiesLoseNoCall ==
    Done => \A i \in DOMAIN nodes : \A n \in Tree :
        /\ nodes[i].kind \in {"function", "method"} /\ Type(nodes[i].at) \notin {"signature"}
        /\ Type(n) \in Calls /\ InBodyItself(n, nodes[i].at)
        => \E j \in DOMAIN references :
              /\ references[j].at = n /\ references[j].kind \in {"calls", "instantiates"}
              /\ references[j].from = nodes[i].id
===============================================================================
