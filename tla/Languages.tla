------------------------------ MODULE Languages ------------------------------
(***************************************************************************)
(* The tables by which the extractor knows the declarations of a language  *)
(* (src/src/extraction/languages), for those of its languages that differ  *)
(* in how their programs are walked.  A syntax node is named for what it   *)
(* declares: the grammar's `function_item`, `function_definition` and      *)
(* `function_declaration` are all "function".  "structRef" and "enumRef"   *)
(* are declarations without a body; "field" is a field of a class,         *)
(* "destructuring" a variable declared by a pattern.                       *)
(***************************************************************************)

NoDeclarations ==
    [functionTypes |-> {}, methodTypes |-> {}, classTypes |-> {}, structTypes |-> {},
     interfaceTypes |-> {}, enumTypes |-> {}, enumMemberTypes |-> {},
     typeAliasTypes |-> {}, propertyTypes |-> {}, fieldTypes |-> {},
     variableTypes |-> {}, importTypes |-> {}, callTypes |-> {"call"},
     packageTypes |-> {},
     interfaceKind |-> "interface",
     receiver |-> "none",           \* where getReceiverType looks
     methodsAreTopLevel |-> FALSE,
     aliased |-> {},                \* what resolveTypeAliasKind tells apart
     walksValues |-> FALSE,         \* extractVariable visits the initial value
     annotated |-> TRUE,            \* one of TYPE_ANNOTATION_LANGUAGES
     pascal |-> FALSE]

(* A class field is a method to this table, whatever its value.            *)
TypeScript ==
    [NoDeclarations EXCEPT
        !.functionTypes = {"function", "arrow"}, !.methodTypes = {"method", "field"},
        !.classTypes = {"class"}, !.interfaceTypes = {"interface"},
        !.enumTypes = {"enum"}, !.enumMemberTypes = {"member"},
        !.typeAliasTypes = {"alias"}, !.variableTypes = {"variable", "destructuring"},
        !.importTypes = {"import"}, !.walksValues = TRUE]

Python ==
    [NoDeclarations EXCEPT
        !.functionTypes = {"function"}, !.methodTypes = {"function"},
        !.classTypes = {"class"}, !.variableTypes = {"variable"},
        !.importTypes = {"import"}, !.annotated = FALSE]

Java ==
    [NoDeclarations EXCEPT
        !.methodTypes = {"method"}, !.classTypes = {"class"},
        !.interfaceTypes = {"interface"}, !.enumTypes = {"enum"},
        !.enumMemberTypes = {"member"}, !.fieldTypes = {"field"},
        !.variableTypes = {"variable"}, !.importTypes = {"import"},
        !.packageTypes = {"package"}]

CSharp ==
    [NoDeclarations EXCEPT
        !.methodTypes = {"method"}, !.classTypes = {"class"},
        !.interfaceTypes = {"interface"}, !.structTypes = {"struct"},
        !.enumTypes = {"enum"}, !.enumMemberTypes = {"member"},
        !.fieldTypes = {"field"}, !.propertyTypes = {"property"},
        !.variableTypes = {"variable"}, !.importTypes = {"import"}]

(* A function inside an impl block has the type of the block as receiver.  *)
Rust ==
    [NoDeclarations EXCEPT
        !.functionTypes = {"function"}, !.methodTypes = {"function"},
        !.interfaceTypes = {"interface"}, !.structTypes = {"struct", "structRef"},
        !.enumTypes = {"enum"}, !.enumMemberTypes = {"member"},
        !.typeAliasTypes = {"alias"}, !.variableTypes = {"variable"},
        !.importTypes = {"import"}, !.interfaceKind = "trait", !.receiver = "impl"]

(* A method names its receiver; a type declaration wraps what it names.    *)
Go ==
    [NoDeclarations EXCEPT
        !.functionTypes = {"function"}, !.methodTypes = {"method"},
        !.typeAliasTypes = {"alias"}, !.aliased = {"struct", "interface"},
        !.variableTypes = {"variable"}, !.importTypes = {"import"},
        !.receiver = "method", !.methodsAreTopLevel = TRUE]

(* "qualified" is a function declared as Type::name outside of Type, and   *)
(* "misparsed" what isMisparsedFunction recognises.                        *)
Cpp ==
    [NoDeclarations EXCEPT
        !.functionTypes = {"function", "qualified", "misparsed"},
        !.methodTypes = {"function", "qualified", "misparsed"},
        !.classTypes = {"class"}, !.structTypes = {"struct", "structRef"},
        !.enumTypes = {"enum", "enumRef"}, !.enumMemberTypes = {"member"},
        !.typeAliasTypes = {"alias"}, !.aliased = {"struct", "enum"},
        !.variableTypes = {"variable"}, !.importTypes = {"import"},
        !.receiver = "qualified", !.annotated = FALSE]

(* visitPascalNode takes most declarations before these tables are asked.  *)
Pascal ==
    [NoDeclarations EXCEPT
        !.functionTypes = {"declProc"}, !.methodTypes = {"declProc"},
        !.callTypes = {"exprCall"}, !.annotated = FALSE, !.pascal = TRUE]

Known == {TypeScript, Python, Java, CSharp, Rust, Go, Cpp, Pascal}
==============================================================================
