----------------------------- MODULE MCSymbolWalk -----------------------------
(* All programs of a few nodes that the grammars of eight languages allow. *)
EXTENDS SymbolWalk, TLC

CONSTANTS MaxNodes, MaxDepth

\* Which nodes the next node of a tree in preorder may hang from: any on the
\* path to the last one, or in a chain the last one only.
Spine(tree) == {n \in DOMAIN tree : \A m \in n + 1 .. Len(tree) : tree[m].up >= n}
Tip(tree)   == {Len(tree)}

\* What may stand in what; a type that is not listed has no children.
Grammar == {
  [language |-> TypeScript, grammar |->
    "file" :> {"function", "class", "interface", "alias", "variable", "destructuring",
               "enum", "import", "call", "decorator"} @@
    "function" :> {"function", "call", "arrow", "variable", "class", "type"} @@
    "arrow" :> {"call", "new", "function"} @@ "method" :> {"call", "class"} @@
    "class" :> {"method", "field", "decorator", "base"} @@ "field" :> {"arrow", "call", "type"} @@
    "interface" :> {"signature"} @@ "alias" :> {"objtype", "type", "call"} @@
    "objtype" :> {"signature"} @@ "signature" :> {"type", "objtype"} @@
    "variable" :> {"arrow", "call", "object"} @@ "destructuring" :> {"call"} @@
    "object" :> {"arrow", "method", "call"} @@ "enum" :> {"member"} @@
    "call" :> {"arrow", "call", "new"} @@ "new" :> {"call"} @@ "decorator" :> {"call"}],
  [language |-> Python, grammar |->
    "file" :> {"function", "class", "variable", "import", "call", "decorator"} @@
    "function" :> {"function", "call", "variable", "class"} @@
    "class" :> {"function", "variable", "decorator", "base"} @@
    "variable" :> {"call"} @@ "call" :> {"call"} @@ "decorator" :> {"call"}],
  [language |-> Java, grammar |->
    "file" :> {"package", "class", "interface", "enum", "import"} @@
    "class" :> {"method", "field", "class", "base"} @@ "interface" :> {"method"} @@
    "enum" :> {"member", "method"} @@ "method" :> {"call", "new", "variable", "class", "type"} @@
    "field" :> {"new", "type", "annotation"} @@ "variable" :> {"call", "new"} @@
    "call" :> {"call", "new"} @@ "new" :> {"call", "classbody"} @@
    "classbody" :> {"method", "field"}],
  [language |-> CSharp, grammar |->
    "file" :> {"class", "struct", "interface", "enum", "import"} @@
    "class" :> {"method", "property", "field", "annotation", "base"} @@
    "struct" :> {"method", "field"} @@ "method" :> {"call", "variable"} @@
    "enum" :> {"member"} @@
    "property" :> {"type", "call"} @@ "field" :> {"new"} @@ "call" :> {"new"}],
  [language |-> Rust, grammar |->
    "file" :> {"function", "struct", "structRef", "interface", "impl", "alias", "variable", "enum"} @@
    "impl" :> {"function", "base"} @@ "interface" :> {"function", "base"} @@
    "function" :> {"call", "function", "struct", "variable", "type"} @@
    "struct" :> {"base"} @@ "variable" :> {"call"} @@ "call" :> {"call"} @@
    "enum" :> {"member"} @@ "alias" :> {"type"}],
  [language |-> Go, grammar |->
    "file" :> {"function", "method", "alias", "variable", "import"} @@
    "alias" :> {"struct", "interface", "type"} @@ "struct" :> {"base"} @@
    "interface" :> {"base"} @@ "function" :> {"call", "variable", "type"} @@
    "method" :> {"call", "type"} @@ "variable" :> {"call"} @@ "call" :> {"call"}],
  [language |-> Cpp, grammar |->
    "file" :> {"function", "qualified", "misparsed", "class", "structRef", "alias", "variable",
               "enum", "enumRef"} @@
    "class" :> {"function", "misparsed", "base", "enum"} @@ "misparsed" :> {"class", "call"} @@
    "function" :> {"call", "class"} @@ "qualified" :> {"call"} @@
    "alias" :> {"struct", "enum", "structRef"} @@ "struct" :> {"function"} @@
    "enum" :> {"member"} @@ "variable" :> {"call"}],
  [language |-> Pascal, grammar |->
    "file" :> {"unit"} @@
    "unit" :> {"declType", "declUses", "declConst", "declProc", "defProc", "block", "declVar"} @@
    "declType" :> {"declClass", "declIntf", "declEnum"} @@
    "declClass" :> {"declProc", "declField", "declProp", "base"} @@ "declIntf" :> {"declProc"} @@
    "declEnum" :> {"declEnumValue"} @@ "declUses" :> {"moduleName"} @@
    "defProc" :> {"exprCall", "exprDot"} @@ "block" :> {"exprCall"} @@
    "exprCall" :> {"exprDot", "exprCall"} @@ "exprDot" :> {"exprCall"}] }

Trees(grammar, From(_), size) ==
    LET types == UNION {grammar[type] : type \in DOMAIN grammar}
        Fits(t, n) == /\ n.up \in From(t)
                      /\ t[n.up].type \in DOMAIN grammar
                      /\ n.type \in grammar[t[n.up].type]
        grown[k \in 1 .. size] ==
            IF k = 1 THEN {<<[type |-> "file", up |-> 0]>>}
            ELSE {Append(x[1], x[2]) :
                     x \in {y \in grown[k - 1] \X [type : types, up : 1 .. k - 1] : Fits(y[1], y[2])}}
    IN  grown[size]

\* A receiver may or may not have the name of the type it is meant for.
AllPrograms ==
    UNION {[language : {g.language}, exported : {g.language.walksValues}, oneLine : {FALSE},
            oneName : IF g.language.receiver = "none" THEN {FALSE} ELSE BOOLEAN,
            tree : Trees(g.grammar, Spine, MaxNodes) \cup Trees(g.grammar, Tip, MaxDepth)]
           : g \in Grammar}
===============================================================================
