--------------------------- MODULE ExtractionProofs ---------------------------
(***************************************************************************)
(* What TLAPS proves of the extraction of files.                           *)
(*                                                                         *)
(* Of SymbolWalk, for every program of the eight languages: a node of the  *)
(* syntax tree is handed over to an extract* method at most once, symbols  *)
(* and calls belong to the innermost symbol around them, and no call in a  *)
(* body is lost.  Of ExtractionStore, for any files, contents, edits,      *)
(* crashes and jobs: what the records and rows of a file say of each other *)
(* and of the disk, and what a sync leaves behind.                         *)
(***************************************************************************)
EXTENDS ExtractionStore, SymbolWalk, SequenceTheorems, FiniteSetTheorems, TLAPS

-----------------------------------------------------------------------------
(* SymbolWalk.                                                             *)

(* What the tables of the languages have in common: what is declared is no *)
(* file, package, decorator or part of a type, a call declares nothing,    *)
(* and an arrow function declares no type.                                 *)
Plain == {"file", "package", "decorator", "base", "annotation",
          "type", "objtype", "signature", "structRef", "enumRef"}

Declared(l) ==
    UNION {l.functionTypes, l.methodTypes, l.classTypes, l.structTypes \ {"structRef"},
           l.interfaceTypes, l.enumTypes \ {"enumRef"}, l.enumMemberTypes, l.typeAliasTypes,
           l.propertyTypes, l.fieldTypes, l.variableTypes, l.importTypes, l.callTypes, l.aliased}

TypeDeclarations(l) == UNION {l.classTypes, l.structTypes, l.enumTypes, l.interfaceTypes}

LEMMA LanguageFacts ==
    ASSUME NEW l \in Known
    PROVE  /\ Declared(l) \cap Plain = {}
           /\ l.packageTypes \subseteq {"package"}
           /\ l.pascal => ~l.walksValues /\ l.packageTypes = {} /\ l.typeAliasTypes = {}
           /\ (l.callTypes \cup {"new"}) \cap (l.functionTypes \cup TypeDeclarations(l)) = {}
           /\ "arrow" \notin l.callTypes \cup TypeDeclarations(l) /\ "new" \notin l.callTypes
           /\ l.interfaceKind \in {"interface", "trait"} /\ l.aliased \subseteq {"struct", "interface", "enum"}
           /\ l.propertyTypes \cup l.fieldTypes \subseteq {"property", "field"}
<1>1. CASE l = TypeScript
    BY <1>1 DEF TypeScript, NoDeclarations, Declared, Plain, TypeDeclarations
<1>2. CASE l = Python
    BY <1>2 DEF Python, NoDeclarations, Declared, Plain, TypeDeclarations
<1>3. CASE l = Java
    BY <1>3 DEF Java, NoDeclarations, Declared, Plain, TypeDeclarations
<1>4. CASE l = CSharp
    BY <1>4 DEF CSharp, NoDeclarations, Declared, Plain, TypeDeclarations
<1>5. CASE l = Rust
    BY <1>5 DEF Rust, NoDeclarations, Declared, Plain, TypeDeclarations
<1>6. CASE l = Go
    BY <1>6 DEF Go, NoDeclarations, Declared, Plain, TypeDeclarations
<1>7. CASE l = Cpp
    BY <1>7 DEF Cpp, NoDeclarations, Declared, Plain, TypeDeclarations
<1>8. CASE l = Pascal
    BY <1>8 DEF Pascal, NoDeclarations, Declared, Plain, TypeDeclarations
<1> QED
    BY <1>1, <1>2, <1>3, <1>4, <1>5, <1>6, <1>7, <1>8 DEF Known
-----------------------------------------------------------------------------
(* The tree of a program, and what is below a node of it. *)
LEMMA TreeFacts ==
    ASSUME program \in Programs
    PROVE  /\ language \in Known
           /\ Len(program.tree) \in Nat \ {0} /\ Tree = 1 .. Len(program.tree)
           /\ \A n \in Tree : Parent(n) \in Nat /\ Type(n) \in STRING
           /\ Parent(1) = 0 /\ Type(1) = "file"
           /\ \A n \in Tree \ {1} : Parent(n) \in Tree /\ Parent(n) < n
           /\ \A n \in Tree \ {1} : \A m \in 2 .. n - 1 : Parent(n) >= m \/ Parent(n) <= Parent(m)
<1>1. /\ program.language \in Known
      /\ program.tree \in Seq([type : STRING, up : Nat]) /\ program.tree # <<>>
      /\ program.tree[1] = [type |-> "file", up |-> 0]
      /\ \A n \in 2 .. Len(program.tree) :
            /\ program.tree[n].up \in 1 .. n - 1
            /\ \A m \in 2 .. n - 1 : program.tree[n].up >= m \/ program.tree[n].up <= program.tree[m].up
    BY SymbolWalkAssumption
<1>2. /\ Len(program.tree) \in Nat \ {0} /\ Tree = 1 .. Len(program.tree)
      /\ \A n \in Tree : program.tree[n] \in [type : STRING, up : Nat]
    BY <1>1, LenProperties, ElementOfSeq, EmptySeq DEF Tree
<1>3. \A n \in Tree : Parent(n) \in Nat /\ Type(n) \in STRING
    BY <1>2 DEF Parent, Type
<1>4. Parent(1) = 0 /\ Type(1) = "file"
    BY <1>1 DEF Parent, Type
<1>5. \A n \in Tree \ {1} : n \in 2 .. Len(program.tree)
    BY <1>2
<1>6. \A n \in Tree \ {1} : Parent(n) \in Tree /\ Parent(n) < n
    BY <1>1, <1>2, <1>5 DEF Parent
<1>7. \A n \in Tree \ {1} : \A m \in 2 .. n - 1 : Parent(n) >= m \/ Parent(n) <= Parent(m)
    BY <1>1, <1>5 DEF Parent
<1> QED
    BY <1>1, <1>2, <1>3, <1>4, <1>6, <1>7 DEF language

Below(a, n) == a \in Ancestors(n)
Apart(a, b) == a < b /\ ~Below(a, b)

LEMMA BelowFacts ==
    ASSUME program \in Programs
    PROVE  /\ \A n \in Tree \ {1} : Below(Parent(n), n)
           /\ \A a, b, n \in Tree : Below(a, b) /\ Below(b, n) => Below(a, n)
           /\ \A a, n \in Tree : Below(a, n) => a < n
           /\ \A a, b, n \in Tree : Below(a, n) /\ Apart(a, b) => n < b /\ Apart(n, b)
           /\ \A m, n \in Tree \ {1} : Parent(m) = Parent(n) /\ m < n => Apart(m, n)
           /\ \A a, b, n \in Tree : Below(a, n) /\ Below(b, n) /\ a < b => Below(a, b)
           /\ \A a, n \in Tree : Below(a, n) => a = Parent(n) \/ Below(a, Parent(n))
<1>0. /\ Len(program.tree) \in Nat \ {0} /\ Tree = 1 .. Len(program.tree)
      /\ \A n \in Tree : Parent(n) \in Nat
      /\ \A n \in Tree \ {1} : Parent(n) \in Tree /\ Parent(n) < n
      /\ \A n \in Tree \ {1} : \A m \in 2 .. n - 1 : Parent(n) >= m \/ Parent(n) <= Parent(m)
    BY TreeFacts
<1>1. ASSUME NEW a \in Tree, NEW n \in Tree
      PROVE  Below(a, n) <=> a < n /\ \A m \in Tree : a < m /\ m <= n => Parent(m) >= a
    BY <1>0 DEF Below, Ancestors
<1>2. ASSUME NEW n \in Tree \ {1} PROVE Below(Parent(n), n)
    <2>1. ASSUME NEW m \in Tree, Parent(n) < m, m <= n PROVE Parent(m) >= Parent(n)
        BY <1>0, <2>1
    <2> QED
        BY <1>0, <1>1, <2>1
<1>3. ASSUME NEW a \in Tree, NEW b \in Tree, NEW n \in Tree, Below(a, b), Below(b, n)
      PROVE  Below(a, n)
    <2>1. a < b /\ b < n
        BY <1>1, <1>3
    <2>2. ASSUME NEW m \in Tree, a < m, m <= n PROVE Parent(m) >= a
        BY <1>0, <1>1, <1>3, <2>1, <2>2
    <2> QED
        BY <1>0, <1>1, <2>1, <2>2
<1>4. ASSUME NEW a \in Tree, NEW b \in Tree, NEW n \in Tree, Below(a, n), Apart(a, b)
      PROVE  n < b /\ Apart(n, b)
    <2>1. a < n /\ \A m \in Tree : a < m /\ m <= n => Parent(m) >= a
        BY <1>1, <1>4
    <2>2. a < b /\ \E m \in Tree : a < m /\ m <= b /\ Parent(m) < a
        BY <1>0, <1>1, <1>4 DEF Apart
    <2>3. PICK m \in Tree : a < m /\ m <= b /\ Parent(m) < a
        BY <2>2
    <2>4. n < m
        BY <1>0, <2>1, <2>3
    <2> QED
        BY <1>0, <1>1, <2>1, <2>3, <2>4 DEF Apart
<1>5. ASSUME NEW m \in Tree \ {1}, NEW n \in Tree \ {1}, Parent(m) = Parent(n), m < n
      PROVE  Apart(m, n)
    BY <1>0, <1>1, <1>5 DEF Apart
<1>6. ASSUME NEW a \in Tree, NEW b \in Tree, NEW n \in Tree, Below(a, n), Below(b, n), a < b
      PROVE  Below(a, b)
    <2>1. a < n /\ b < n /\ \A m \in Tree : a < m /\ m <= n => Parent(m) >= a
        BY <1>1, <1>6
    <2>2. \A m \in Tree : m <= b => m <= n
        BY <1>0, <2>1
    <2> QED
        BY <1>1, <1>6, <2>1, <2>2
<1>7. ASSUME NEW a \in Tree, NEW n \in Tree, Below(a, n), a # Parent(n)
      PROVE  Below(a, Parent(n))
    <2>1. a < n /\ Parent(n) >= a /\ n # 1
        BY <1>0, <1>1, <1>7
    <2>2. Parent(n) \in Tree /\ a < Parent(n) /\ Below(Parent(n), n)
        BY <1>0, <1>2, <1>7, <2>1
    <2> QED
        BY <1>6, <1>7, <2>2
<1> QED
    BY <1>1, <1>2, <1>3, <1>4, <1>5, <1>6, <1>7
-----------------------------------------------------------------------------
(* InOrder lists a set, each of its nodes once and the smaller ones first. *)
LEMMA InOrderFacts ==
    ASSUME NEW S \in SUBSET Nat, IsFiniteSet(S)
    PROVE  /\ InOrder(S) \in Seq(S)
           /\ \A i, j \in DOMAIN InOrder(S) : i < j => InOrder(S)[i] < InOrder(S)[j]
           /\ \A n \in S : \E i \in DOMAIN InOrder(S) : InOrder(S)[i] = n
<1> DEFINE N == Cardinality(S)
           before(n) == {m \in S : m < n}
           rank == [n \in S |-> Cardinality(before(n)) + 1]
<1>1. N \in Nat
    BY FS_CardinalityType
<1>2. ASSUME NEW n \in S
      PROVE  IsFiniteSet(before(n)) /\ Cardinality(before(n)) \in 0 .. N - 1
    <2>1. IsFiniteSet(S \ {n}) /\ Cardinality(S \ {n}) = N - 1
        BY FS_RemoveElement
    <2>2. before(n) \in SUBSET (S \ {n})
        OBVIOUS
    <2>3. IsFiniteSet(before(n)) /\ Cardinality(before(n)) <= N - 1
        BY <2>1, <2>2, FS_Subset
    <2>4. Cardinality(before(n)) \in Nat
        BY <2>3, FS_CardinalityType
    <2> HIDE DEF before
    <2> QED
        BY <1>1, <2>3, <2>4
<1>3. ASSUME NEW m \in S, NEW n \in S, m < n
      PROVE  Cardinality(before(m)) < Cardinality(before(n))
    <2>1. IsFiniteSet(before(m)) /\ IsFiniteSet(before(n)) /\ m \notin before(m)
        BY <1>2
    <2>2. Cardinality(before(m) \cup {m}) = Cardinality(before(m)) + 1
        BY <2>1, FS_AddElement
    <2>3. \A k \in S : k < m => k < n
        BY <1>3
    <2>4. before(m) \cup {m} \in SUBSET before(n)
        BY <1>3, <2>3
    <2>5. Cardinality(before(m) \cup {m}) <= Cardinality(before(n))
        BY <2>1, <2>4, FS_Subset
    <2>6. Cardinality(before(m)) \in Nat /\ Cardinality(before(n)) \in Nat
        BY <1>2, <1>1
    <2> HIDE DEF before
    <2> QED
        BY <2>2, <2>5, <2>6
<1> HIDE DEF before
<1>4. rank \in [S -> 1 .. N]
    BY <1>1, <1>2
<1>5. \A m, n \in S : rank[m] = rank[n] => m = n
    <2>1. ASSUME NEW m \in S, NEW n \in S, m < n PROVE rank[m] # rank[n]
        BY <1>1, <1>2, <1>3, <2>1
    <2>2. \A m, n \in S : m < n \/ n < m \/ m = n
        OBVIOUS
    <2> QED
        BY <2>1, <2>2
<1>6. rank \in Injection(S, 1 .. N)
    BY <1>4, <1>5 DEF Injection, IsInjective
<1>7. IsFiniteSet(1 .. N) /\ Cardinality(1 .. N) = N
    BY <1>1, FS_Interval
<1>8. rank \in Surjection(S, 1 .. N)
    BY <1>6, <1>7, FS_Injection
<1>9. \A i \in 1 .. N : \E n \in S : Cardinality(before(n)) = i - 1
    <2>1. \A i \in 1 .. N : \E n \in S : rank[n] = i
        BY <1>8 DEF Surjection
    <2> QED
        BY <1>1, <1>2, <2>1
<1> DEFINE s == InOrder(S)
<1>10. s = [i \in 1 .. N |-> CHOOSE n \in S : Cardinality(before(n)) = i - 1]
    BY DEF InOrder, before
<1>11. \A i \in 1 .. N : s[i] \in S /\ Cardinality(before(s[i])) = i - 1
    BY <1>9, <1>10
<1>12. s \in Seq(S) /\ DOMAIN s = 1 .. N
    BY <1>1, <1>10, <1>11
<1>13. ASSUME NEW i \in 1 .. N, NEW j \in 1 .. N, i < j PROVE s[i] < s[j]
    <2>1. s[i] \in S /\ s[j] \in S
        BY <1>11
    <2>2. s[j] < s[i] => Cardinality(before(s[j])) < Cardinality(before(s[i]))
        BY <1>3, <2>1
    <2>3. Cardinality(before(s[i])) = i - 1 /\ Cardinality(before(s[j])) = j - 1
        BY <1>11
    <2>4. s[i] \in Nat /\ s[j] \in Nat
        BY <2>1
    <2> HIDE DEF s
    <2> QED
        BY <1>1, <1>13, <2>2, <2>3, <2>4
<1>14. ASSUME NEW n \in S PROVE \E i \in DOMAIN s : s[i] = n
    <2>1. rank[n] \in 1 .. N
        BY <1>4
    <2>2. s[rank[n]] \in S /\ Cardinality(before(s[rank[n]])) = rank[n] - 1
        BY <1>11, <2>1
    <2>3. rank[s[rank[n]]] = rank[n]
        <3> DEFINE r == rank[n]
                   m == s[r]
        <3>1. m \in S /\ Cardinality(before(m)) = r - 1 /\ r \in 1 .. N
            BY <2>1, <2>2
        <3>2. rank[m] = Cardinality(before(m)) + 1
            BY <3>1
        <3> HIDE DEF r, m
        <3>3. rank[m] = r
            BY <1>1, <3>1, <3>2
        <3> QED
            BY <3>3 DEF r, m
    <2>4. s[rank[n]] = n
        BY <1>5, <2>2, <2>3
    <2> QED
        BY <1>12, <2>1, <2>4
<1> QED
    BY <1>12, <1>13, <1>14
-----------------------------------------------------------------------------
Sequence(s) == \E S : s \in Seq(S)

\* Where the elements of a concatenation come from.
LEMMA ConcatFacts ==
    ASSUME NEW s, NEW t, Sequence(s), Sequence(t)
    PROVE  /\ Sequence(s \o t)
           /\ Len(s) \in Nat /\ DOMAIN s = 1 .. Len(s)
           /\ Len(t) \in Nat /\ DOMAIN t = 1 .. Len(t)
           /\ DOMAIN (s \o t) = 1 .. Len(s) + Len(t)
           /\ \A i \in DOMAIN (s \o t) :
                 \/ i \in DOMAIN s /\ (s \o t)[i] = s[i]
                 \/ i > Len(s) /\ i - Len(s) \in DOMAIN t /\ (s \o t)[i] = t[i - Len(s)]
<1>1. PICK S : s \in Seq(S)
    BY DEF Sequence
<1>2. PICK T : t \in Seq(T)
    BY DEF Sequence
<1>3. s \in Seq(S \cup T) /\ t \in Seq(S \cup T)
    BY <1>1, <1>2, SeqMonotonic
<1>4. /\ s \o t \in Seq(S \cup T)
      /\ Len(s \o t) = Len(s) + Len(t)
      /\ \A i \in 1 .. Len(s) + Len(t) : (s \o t)[i] = IF i <= Len(s) THEN s[i] ELSE t[i - Len(s)]
    BY <1>3, ConcatProperties
<1>5. /\ Len(s) \in Nat /\ DOMAIN s = 1 .. Len(s)
      /\ Len(t) \in Nat /\ DOMAIN t = 1 .. Len(t)
      /\ DOMAIN (s \o t) = 1 .. Len(s \o t)
    BY <1>1, <1>2, <1>4, LenProperties
<1>6. Sequence(s \o t)
    BY <1>4 DEF Sequence
<1> QED
    BY <1>4, <1>5, <1>6

LEMMA TailFacts ==
    ASSUME NEW s, Sequence(s), s # <<>>
    PROVE  /\ Sequence(Tail(s)) /\ Head(s) = s[1] /\ 1 \in DOMAIN s
           /\ \A i \in DOMAIN Tail(s) : i + 1 \in DOMAIN s /\ Tail(s)[i] = s[i + 1]
           /\ DOMAIN Tail(s) \subseteq Nat \ {0}
<1>1. PICK S : s \in Seq(S)
    BY DEF Sequence
<1>2. /\ Tail(s) \in Seq(S) /\ Len(Tail(s)) = Len(s) - 1
      /\ \A i \in 1 .. Len(Tail(s)) : Tail(s)[i] = s[i + 1]
      /\ Len(s) \in Nat \ {0}
    BY <1>1, HeadTailProperties, EmptySeq
<1>3. DOMAIN s = 1 .. Len(s) /\ DOMAIN Tail(s) = 1 .. Len(Tail(s))
    BY <1>1, <1>2, LenProperties
<1>4. Head(s) = s[1]
    BY <1>1
<1>5. Sequence(Tail(s))
    BY <1>2 DEF Sequence
<1> QED
    BY <1>2, <1>3, <1>4, <1>5
-----------------------------------------------------------------------------
(* What a task is put on the agenda for. *)
Meant(k) ==
    /\ k.do = "member" => Type(k.on) \in language.enumMemberTypes \cup {"declEnumValue"}
    /\ k.do = "named" => Type(k.on) = "arrow"

(* Tasks on different parts of the tree, in the order of the text. *)
InTextOrder(tasks) ==
    /\ Sequence(tasks)
    /\ \A i \in DOMAIN tasks : tasks[i].do # "pop" => tasks[i].on \in Tree /\ Meant(tasks[i])
    /\ \A i, j \in DOMAIN tasks :
          i < j /\ tasks[i].do # "pop" /\ tasks[j].do # "pop" => Apart(tasks[i].on, tasks[j].on)

(* The walk has come past a node. *)
Before(a, tasks) == \A i \in DOMAIN tasks : tasks[i].do # "pop" => a < tasks[i].on
Past(a) == a \in Tree /\ Before(a, agenda)

(* The node whose extraction makes the symbol at a: a member of an object  *)
(* type is extracted with the alias.                                       *)
Owner(a) ==
    IF IsMember(a) THEN Parent(Parent(a)) ELSE a

(* The node whose extraction makes a reference of this kind at d. *)
Claims(n, kind, d) ==
    \/ kind \in {"calls", "instantiates", "imports"} /\ n = d
    \/ kind \in {"extends", "implements"} /\ n = IF Type(d) = "base" THEN Parent(d) ELSE d
    \/ /\ kind = "decorates" /\ Type(n) # "decorator" /\ d # 1
       /\ \/ Type(d) = "annotation" /\ n = Parent(d)
          \/ /\ Type(d) = "decorator" /\ Parent(n) = Parent(d) /\ d < n
             /\ \A e \in Tree \ {1} : Parent(e) = Parent(d) /\ d <= e /\ e < n => Type(e) = "decorator"

SymbolsArePast ==
    \A i \in DOMAIN nodes :
       LET a == nodes[i].at IN a = 1 \/ Type(a) \in language.packageTypes \/ Past(Owner(a))

ReferencesArePast ==
    \A i \in DOMAIN references :
       references[i].kind # "references" =>
          \E n \in Tree : Claims(n, references[i].kind, references[i].at) /\ Past(n)

OnceInv ==
    /\ program \in Programs
    /\ InTextOrder(agenda)
    /\ Sequence(nodes) /\ Sequence(references)
    /\ SymbolsArePast /\ ReferencesArePast /\ NothingIsExtractedTwice

LEMMA ClaimantIsUnique ==
    ASSUME program \in Programs, NEW m \in Tree, NEW n \in Tree, NEW kind, NEW d \in Tree,
           Claims(m, kind, d), Claims(n, kind, d)
    PROVE  m = n
<1>0. /\ Len(program.tree) \in Nat \ {0} /\ Tree = 1 .. Len(program.tree)
      /\ Parent(1) = 0 /\ \A k \in Tree \ {1} : Parent(k) \in Tree
    BY TreeFacts
<1>1. CASE kind # "decorates" \/ Type(d) = "annotation"
    BY <1>1 DEF Claims
<1>2. CASE kind = "decorates" /\ Type(d) = "decorator"
    <2>1. Parent(m) = Parent(d) /\ Parent(n) = Parent(d) /\ d \in Tree \ {1} /\ d < m /\ d < n
        BY <1>2 DEF Claims
    <2>2. m \in Tree \ {1} /\ n \in Tree \ {1} /\ Type(m) # "decorator" /\ Type(n) # "decorator"
        BY <1>0, <1>2, <2>1 DEF Claims
    <2>3. ~(m < n) /\ ~(n < m)
        BY <1>0, <1>2, <2>1, <2>2 DEF Claims
    <2> QED
        BY <1>0, <2>2, <2>3
<1> QED
    BY <1>1, <1>2 DEF Claims

LEMMA TreeStays ==
    ASSUME program' = program
    PROVE  /\ Tree' = Tree /\ language' = language
           /\ \A a : Type(a)' = Type(a) /\ Owner(a)' = Owner(a)
           /\ \A a, b : Apart(a, b)' <=> Apart(a, b)
           /\ \A k : Meant(k)' <=> Meant(k)
           /\ \A n, kind, d : Claims(n, kind, d)' <=> Claims(n, kind, d)
<1>1. Tree' = Tree /\ language' = language
    BY DEF Tree, language
<1>2. \A a : Type(a)' = Type(a) /\ Parent(a)' = Parent(a)
    BY DEF Type, Parent
<1>3. \A a : Owner(a)' = Owner(a)
    BY <1>1, <1>2 DEF Owner, IsMember
<1>4. \A a, b : Apart(a, b)' <=> Apart(a, b)
    BY <1>2 DEF Apart, Below, Ancestors
<1>5. \A k : Meant(k)' <=> Meant(k)
    BY <1>1, <1>2 DEF Meant
<1>6. \A n, kind, d : Claims(n, kind, d)' <=> Claims(n, kind, d)
    BY <1>1, <1>2 DEF Claims
<1> QED
    BY <1>1, <1>2, <1>3, <1>4, <1>5, <1>6

(* A step of the walk at n: tasks for what is below n, and symbols and     *)
(* references that nodes make which the walk then has come past.           *)
Reached(a, n, tasks) == a \in Tree /\ (a = n \/ Below(n, a)) /\ Before(a, tasks)

Unfolds(n, tasks) ==
    InTextOrder(tasks) /\ \A i \in DOMAIN tasks : tasks[i].do # "pop" => Below(n, tasks[i].on)

NewSymbols(n, tasks, ns) ==
    /\ Sequence(ns)
    /\ \A i \in DOMAIN ns :
          LET a == ns[i].at
          IN  a # 1 /\ Type(a) \notin language.packageTypes /\ Reached(Owner(a), n, tasks)
    /\ \A i, j \in DOMAIN ns : ns[i].at = ns[j].at => i = j

\* The kinds of reference that come from the scope on top.
IsCalling(kind) == kind \in {"calls", "instantiates", "imports"}

FromTop(rs) ==
    \A i \in DOMAIN rs :
       IsCalling(rs[i].kind) =>
          rs[i].from = Top /\ Type(rs[i].at) \notin language.packageTypes

Silent(rs) == \A i \in DOMAIN rs : ~IsCalling(rs[i].kind)

NewReferences(n, tasks, rs) ==
    /\ Sequence(rs) /\ FromTop(rs)
    /\ \A i \in DOMAIN rs :
          rs[i].kind # "references" =>
             rs[i].at \in Tree /\ \E m \in Tree : Claims(m, rs[i].kind, rs[i].at) /\ Reached(m, n, tasks)
    /\ \A i, j \in DOMAIN rs :
          rs[i].kind # "references" /\ rs[i].kind = rs[j].kind /\ rs[i].at = rs[j].at => i = j

Extracts(n, tasks, ns, rs) ==
    /\ Unfolds(n, tasks) /\ NewSymbols(n, tasks, ns) /\ NewReferences(n, tasks, rs)
    /\ agenda' = tasks \o Tail(agenda) /\ nodes' = nodes \o ns /\ references' = references \o rs
    /\ program' = program

LEMMA HeadFacts ==
    ASSUME OnceInv, agenda # <<>>, Head(agenda).do # "pop"
    PROVE  /\ This \in Tree /\ Meant(Head(agenda)) /\ ~Past(This)
           /\ InTextOrder(Tail(agenda))
           /\ \A i \in DOMAIN Tail(agenda) :
                 Tail(agenda)[i].do # "pop" => Apart(This, Tail(agenda)[i].on)
<1>1. /\ Sequence(Tail(agenda)) /\ Head(agenda) = agenda[1] /\ 1 \in DOMAIN agenda
      /\ \A i \in DOMAIN Tail(agenda) : i + 1 \in DOMAIN agenda /\ Tail(agenda)[i] = agenda[i + 1]
      /\ DOMAIN Tail(agenda) \subseteq Nat \ {0}
    BY TailFacts DEF OnceInv, InTextOrder
<1>2. This \in Tree /\ Meant(Head(agenda))
    BY <1>1 DEF OnceInv, InTextOrder, This
<1>3. ~Past(This)
    <2>1. ~(agenda[1].on < agenda[1].on)
        BY <1>1, <1>2, TreeFacts DEF OnceInv, This
    <2> QED
        BY <1>1, <2>1 DEF Past, Before, This
<1>4. \A i \in DOMAIN Tail(agenda) : Tail(agenda)[i].do # "pop" => Apart(This, Tail(agenda)[i].on)
    BY <1>1 DEF OnceInv, InTextOrder, This
<1>5. \A i, j \in DOMAIN Tail(agenda) :
         i < j /\ Tail(agenda)[i].do # "pop" /\ Tail(agenda)[j].do # "pop"
            => Apart(Tail(agenda)[i].on, Tail(agenda)[j].on)
    <2>1. \A i, j \in DOMAIN Tail(agenda) : i < j => i + 1 < j + 1
        BY <1>1
    <2> QED
        BY <1>1, <2>1 DEF OnceInv, InTextOrder
<1>6. \A i \in DOMAIN Tail(agenda) :
         Tail(agenda)[i].do # "pop" => Tail(agenda)[i].on \in Tree /\ Meant(Tail(agenda)[i])
    BY <1>1 DEF OnceInv, InTextOrder
<1> QED
    BY <1>1, <1>2, <1>3, <1>4, <1>5, <1>6 DEF InTextOrder

(* A step that extracts something leaves all behind it as it was.          *)
LEMMA PastFacts ==
    ASSUME OnceInv, agenda # <<>>, Head(agenda).do # "pop", NEW tasks,
           Unfolds(This, tasks), agenda' = tasks \o Tail(agenda), program' = program
    PROVE  /\ InTextOrder(agenda)'
           /\ \A a \in Tree : Past(a) => Past(a)'
           /\ \A a : Reached(a, This, tasks) => ~Past(a) /\ Past(a)'
<1> DEFINE rest == Tail(agenda)
<1>1. /\ This \in Tree /\ InTextOrder(rest)
      /\ \A i \in DOMAIN rest : rest[i].do # "pop" => Apart(This, rest[i].on)
    BY HeadFacts
<1>2. /\ InTextOrder(tasks)
      /\ \A i \in DOMAIN tasks : tasks[i].do # "pop" => tasks[i].on \in Tree /\ Below(This, tasks[i].on)
    BY DEF Unfolds, InTextOrder
<1>3. /\ Sequence(agenda')
      /\ Len(tasks) \in Nat /\ DOMAIN tasks = 1 .. Len(tasks)
      /\ DOMAIN agenda' = 1 .. Len(tasks) + Len(rest) /\ Len(rest) \in Nat
      /\ \A i \in DOMAIN agenda' :
            \/ i \in DOMAIN tasks /\ agenda'[i] = tasks[i]
            \/ i > Len(tasks) /\ i - Len(tasks) \in DOMAIN rest /\ agenda'[i] = rest[i - Len(tasks)]
    BY <1>1, <1>2, ConcatFacts DEF InTextOrder
<1>4. program \in Programs /\ Tree \subseteq Nat
    BY TreeFacts DEF OnceInv
<1>5. /\ \A a, b, n \in Tree : Below(a, n) /\ Apart(a, b) => n < b /\ Apart(n, b)
      /\ \A a, n \in Tree : Below(a, n) => a < n
    BY <1>4, BelowFacts
<1> HIDE DEF rest
<1>6. \A i \in DOMAIN rest : rest[i].do # "pop" => rest[i].on \in Tree /\ Meant(rest[i])
    BY <1>1 DEF InTextOrder
<1>7. \A i \in DOMAIN tasks : tasks[i].do # "pop" => tasks[i].on \in Tree /\ Meant(tasks[i])
    BY <1>2 DEF InTextOrder
<1>8. \A i \in DOMAIN agenda' : agenda'[i].do # "pop" => agenda'[i].on \in Tree /\ Meant(agenda'[i])
    BY <1>3, <1>6, <1>7
<1>9. ASSUME NEW i \in DOMAIN agenda', NEW j \in DOMAIN agenda', i < j,
             agenda'[i].do # "pop", agenda'[j].do # "pop"
      PROVE  Apart(agenda'[i].on, agenda'[j].on)
    <2>1. CASE j \in DOMAIN tasks /\ agenda'[j] = tasks[j]
        <3>1. i \in DOMAIN tasks /\ agenda'[i] = tasks[i]
            BY <1>3, <1>9, <2>1
        <3> QED
            BY <1>2, <1>9, <2>1, <3>1 DEF InTextOrder
    <2>2. CASE i > Len(tasks) /\ i - Len(tasks) \in DOMAIN rest /\ agenda'[i] = rest[i - Len(tasks)]
        <3>1. j > Len(tasks) /\ j - Len(tasks) \in DOMAIN rest /\ agenda'[j] = rest[j - Len(tasks)]
            BY <1>3, <1>9, <2>2, SMTT(30)
        <3>2. i - Len(tasks) < j - Len(tasks)
            BY <1>3, <1>9
        <3> QED
            BY <1>1, <1>9, <2>2, <3>1, <3>2 DEF InTextOrder
    <2>3. CASE /\ i \in DOMAIN tasks /\ agenda'[i] = tasks[i]
               /\ j - Len(tasks) \in DOMAIN rest /\ agenda'[j] = rest[j - Len(tasks)]
        BY <1>1, <1>2, <1>5, <1>6, <1>9, <2>3
    <2> QED
        BY <1>3, <2>1, <2>2, <2>3
<1>10. InTextOrder(agenda)'
    BY <1>3, <1>8, <1>9, TreeStays DEF InTextOrder
<1>11. ASSUME NEW a \in Tree, Past(a) PROVE Past(a)'
    <2>1. \A i \in DOMAIN agenda : agenda[i].do # "pop" => a < agenda[i].on
        BY <1>11 DEF Past, Before
    <2>2. /\ Head(agenda) = agenda[1] /\ 1 \in DOMAIN agenda
          /\ \A i \in DOMAIN rest : i + 1 \in DOMAIN agenda /\ rest[i] = agenda[i + 1]
        BY TailFacts DEF OnceInv, InTextOrder, rest
    <2>3. a < This
        BY <2>1, <2>2 DEF This
    <2>4. \A i \in DOMAIN rest : rest[i].do # "pop" => a < rest[i].on
        BY <2>1, <2>2
    <2>5. \A i \in DOMAIN tasks : tasks[i].do # "pop" => a < tasks[i].on
        <3>1. \A k \in Tree : This < k => a < k
            BY <1>1, <1>4, <2>3
        <3> QED
            BY <1>1, <1>2, <1>5, <3>1
    <2>6. Before(a, agenda')
        BY <1>3, <2>4, <2>5 DEF Before
    <2> QED
        BY <2>6, TreeStays DEF Past, Before
<1>12. ASSUME NEW a, Reached(a, This, tasks) PROVE ~Past(a) /\ Past(a)'
    <2>1. a \in Tree /\ (a = This \/ Below(This, a)) /\ Before(a, tasks)
        BY <1>12 DEF Reached
    <2>2. \A i \in DOMAIN rest : rest[i].do # "pop" => a < rest[i].on
        BY <1>1, <1>5, <1>6, <2>1 DEF Apart
    <2>3. Before(a, agenda')
        BY <1>3, <2>1, <2>2 DEF Before
    <2>4. Past(a)'
        BY <2>1, <2>3, TreeStays DEF Past, Before
    <2>5. ~(a < This)
        BY <1>1, <1>4, <1>5, <2>1
    <2>6. Head(agenda) = agenda[1] /\ 1 \in DOMAIN agenda
        BY TailFacts DEF OnceInv, InTextOrder
    <2> QED
        BY <2>4, <2>5, <2>6 DEF Past, Before, This
<1> QED
    BY <1>10, <1>11, <1>12

LEMMA OnceStep ==
    ASSUME OnceInv, agenda # <<>>, Head(agenda).do # "pop", NEW tasks, NEW ns, NEW rs,
           Extracts(This, tasks, ns, rs)
    PROVE  OnceInv'
<1>1. /\ Unfolds(This, tasks) /\ NewSymbols(This, tasks, ns) /\ NewReferences(This, tasks, rs)
      /\ agenda' = tasks \o Tail(agenda) /\ nodes' = nodes \o ns
      /\ references' = references \o rs /\ program' = program
    BY DEF Extracts
<1>2. /\ InTextOrder(agenda)'
      /\ \A a \in Tree : Past(a) => Past(a)'
      /\ \A a : Reached(a, This, tasks) => ~Past(a) /\ Past(a)'
    BY <1>1, PastFacts
<1>3. /\ program \in Programs /\ Sequence(nodes) /\ Sequence(references)
      /\ SymbolsArePast /\ ReferencesArePast /\ NothingIsExtractedTwice
    BY DEF OnceInv
<1>4. /\ Sequence(nodes')
      /\ \A i \in DOMAIN nodes' :
            \/ i \in DOMAIN nodes /\ nodes'[i] = nodes[i]
            \/ /\ i > Len(nodes) /\ i - Len(nodes) \in DOMAIN ns /\ nodes'[i] = ns[i - Len(nodes)]
      /\ Len(nodes) \in Nat /\ DOMAIN nodes' \subseteq Nat
    BY <1>1, <1>3, ConcatFacts, SMTT(30) DEF NewSymbols
<1>5. /\ Sequence(references')
      /\ \A i \in DOMAIN references' :
            \/ i \in DOMAIN references /\ references'[i] = references[i]
            \/ /\ i > Len(references) /\ i - Len(references) \in DOMAIN rs
               /\ references'[i] = rs[i - Len(references)]
      /\ Len(references) \in Nat /\ DOMAIN references' \subseteq Nat
    BY <1>1, <1>3, ConcatFacts, SMTT(30) DEF NewReferences
<1>6. \A a : Past(a) => a \in Tree
    BY DEF Past
<1>7. \A i \in DOMAIN nodes :
         LET a == nodes[i].at IN a = 1 \/ Type(a) \in language.packageTypes \/ (Past(Owner(a)) /\ Past(Owner(a))')
    BY <1>2, <1>3, <1>6, <1>1, TreeStays DEF SymbolsArePast
<1>8. \A i \in DOMAIN ns :
         LET a == ns[i].at
         IN  a # 1 /\ Type(a) \notin language.packageTypes /\ ~Past(Owner(a)) /\ Past(Owner(a))'
    BY <1>1, <1>2, TreeStays DEF NewSymbols
<1>9. SymbolsArePast'
    BY <1>1, <1>4, <1>7, <1>8, TreeStays DEF SymbolsArePast
<1>10. \A i, j \in DOMAIN nodes' : nodes'[i].at = nodes'[j].at => i = j
    <2>1. \A i \in DOMAIN nodes, j \in DOMAIN ns : nodes[i].at # ns[j].at
        BY <1>7, <1>8
    <2> QED
        BY <1>1, <1>3, <1>4, <2>1, SMTT(30) DEF NothingIsExtractedTwice, NewSymbols
<1>11. \A i \in DOMAIN references : references[i].kind # "references" =>
          \E n \in Tree : Claims(n, references[i].kind, references[i].at) /\ Past(n) /\ Past(n)'
    BY <1>2, <1>3 DEF ReferencesArePast
<1>12. \A i \in DOMAIN rs : rs[i].kind # "references" =>
          /\ rs[i].at \in Tree
          /\ \E n \in Tree : Claims(n, rs[i].kind, rs[i].at) /\ ~Past(n) /\ Past(n)'
    BY <1>1, <1>2 DEF NewReferences
<1>13. ReferencesArePast'
    BY <1>1, <1>5, <1>11, <1>12, TreeStays, ZenonT(30) DEF ReferencesArePast
<1>14. ASSUME NEW i \in DOMAIN references, NEW j \in DOMAIN rs,
              references[i].kind # "references", references[i].kind = rs[j].kind
       PROVE  references[i].at # rs[j].at
    BY <1>3, <1>11, <1>12, <1>14, ClaimantIsUnique
<1>15. ASSUME NEW i \in DOMAIN references', NEW j \in DOMAIN references',
              references'[i].kind # "references", references'[i].kind = references'[j].kind,
              references'[i].at = references'[j].at
       PROVE  i = j
    <2>1. CASE /\ i \in DOMAIN references /\ references'[i] = references[i]
               /\ j \in DOMAIN references /\ references'[j] = references[j]
        BY <1>3, <1>15, <2>1 DEF NothingIsExtractedTwice
    <2>2. CASE /\ i - Len(references) \in DOMAIN rs /\ references'[i] = rs[i - Len(references)]
               /\ j - Len(references) \in DOMAIN rs /\ references'[j] = rs[j - Len(references)]
        <3>1. i - Len(references) = j - Len(references)
            BY <1>1, <1>15, <2>2 DEF NewReferences
        <3> QED
            BY <1>5, <3>1
    <2> QED
        BY <1>5, <1>14, <1>15, <2>1, <2>2
<1>16. NothingIsExtractedTwice'
    BY <1>10, <1>15 DEF NothingIsExtractedTwice
<1> QED
    BY <1>1, <1>2, <1>3, <1>4, <1>5, <1>9, <1>13, <1>16 DEF OnceInv

(* Nothing of what a step extracts.                                        *)
LEMMA NothingNew ==
    ASSUME NEW n, NEW tasks
    PROVE  /\ Sequence(<<>>) /\ DOMAIN <<>> = {}
           /\ NewSymbols(n, tasks, <<>>) /\ NewReferences(n, tasks, <<>>) /\ Unfolds(n, <<>>)
<1>1. Sequence(<<>>) /\ DOMAIN <<>> = {}
    BY EmptySeq DEF Sequence
<1> QED
    BY <1>1 DEF NewSymbols, NewReferences, FromTop, Unfolds, InTextOrder

(* The children of a node, or some of them, one after the other.           *)
LEMMA ChildrenFacts ==
    ASSUME program \in Programs, NEW p \in Tree, NEW S,
           S \subseteq {c \in Tree : Parent(c) = p}
    PROVE  /\ Sequence(InOrder(S))
           /\ \A i \in DOMAIN InOrder(S) :
                 /\ InOrder(S)[i] \in S /\ InOrder(S)[i] \in Tree \ {1}
                 /\ Parent(InOrder(S)[i]) = p /\ Below(p, InOrder(S)[i])
           /\ \A i, j \in DOMAIN InOrder(S) :
                 /\ i < j => Apart(InOrder(S)[i], InOrder(S)[j])
                 /\ InOrder(S)[i] = InOrder(S)[j] => i = j
<1>1. /\ Len(program.tree) \in Nat /\ Tree = 1 .. Len(program.tree)
      /\ Parent(1) = 0
    BY TreeFacts
<1>2. IsFiniteSet(Tree) /\ S \in SUBSET Tree
    BY <1>1, FS_Interval
<1>3. S \in SUBSET Nat /\ IsFiniteSet(S)
    <2>1. IsFiniteSet(S)
        BY <1>2, FS_Subset
    <2> QED
        BY <1>1, <1>2, <2>1
<1>4. InOrder(S) \in Seq(S) /\ \A i, j \in DOMAIN InOrder(S) : i < j => InOrder(S)[i] < InOrder(S)[j]
    BY <1>3, InOrderFacts
<1>5. Sequence(InOrder(S)) /\ DOMAIN InOrder(S) \subseteq Nat
    BY <1>4, LenProperties DEF Sequence
<1>6. \A i \in DOMAIN InOrder(S) : InOrder(S)[i] \in S
    BY <1>4, ElementOfSeq, LenProperties
<1>7. \A c \in S : c \in Tree \ {1} /\ Parent(c) = p /\ Below(p, c)
    BY <1>1, BelowFacts
<1>8. \A c, d \in S : c < d => Apart(c, d)
    BY <1>7, BelowFacts
<1>9. \A i, j \in DOMAIN InOrder(S) : i < j => Apart(InOrder(S)[i], InOrder(S)[j])
    BY <1>4, <1>6, <1>8
<1>10. ASSUME NEW i \in DOMAIN InOrder(S), NEW j \in DOMAIN InOrder(S), i < j
       PROVE  InOrder(S)[i] # InOrder(S)[j]
    <2> DEFINE a == InOrder(S)[i]
               b == InOrder(S)[j]
    <2>1. a \in Nat /\ b \in Nat /\ a < b
        BY <1>3, <1>4, <1>6, <1>10
    <2> HIDE DEF a, b
    <2>2. a # b
        BY <2>1
    <2> QED
        BY <2>2 DEF a, b
<1>11. \A i, j \in DOMAIN InOrder(S) : i < j \/ j < i \/ i = j
    BY <1>5
<1> QED
    BY <1>5, <1>6, <1>7, <1>9, <1>10, <1>11

(* Tasks on them.                                                          *)
AreTasks(tasks, s) ==
    /\ Sequence(tasks) /\ DOMAIN tasks = DOMAIN s
    /\ \A i \in DOMAIN s : tasks[i].on = s[i] /\ Meant(tasks[i]) /\ tasks[i].do # "pop"

Flat(tasks) == \A i \in DOMAIN tasks : tasks[i].do # "pop"

LEMMA TasksUnfold ==
    ASSUME program \in Programs, NEW n \in Tree, NEW p \in Tree, p = n \/ Below(n, p),
           NEW S, S \subseteq {c \in Tree : Parent(c) = p}, NEW tasks, AreTasks(tasks, InOrder(S))
    PROVE  /\ Unfolds(n, tasks) /\ Unfolds(p, tasks) /\ Flat(tasks)
           /\ Reached(n, n, tasks) /\ Reached(p, n, tasks)
<1>1. /\ \A i \in DOMAIN InOrder(S) : InOrder(S)[i] \in Tree /\ Below(p, InOrder(S)[i])
      /\ \A i, j \in DOMAIN InOrder(S) : i < j => Apart(InOrder(S)[i], InOrder(S)[j])
    BY ChildrenFacts
<1>2. /\ \A c \in Tree : Below(p, c) => Below(n, c) /\ n < c /\ p < c
    BY BelowFacts
<1>3. InTextOrder(tasks)
    BY <1>1 DEF InTextOrder, AreTasks
<1>4. Unfolds(n, tasks) /\ Unfolds(p, tasks) /\ Flat(tasks)
    BY <1>1, <1>2, <1>3 DEF Unfolds, AreTasks, Flat
<1>5. Before(n, tasks) /\ Before(p, tasks)
    BY <1>1, <1>2 DEF Before, AreTasks
<1> QED
    BY <1>4, <1>5 DEF Reached

LEMMA IsSequence ==
    ASSUME NEW t, NEW N \in Nat, t = [i \in 1 .. N |-> t[i]]
    PROVE  Sequence(t)
<1>1. t \in Seq({t[i] : i \in 1 .. N})
    OBVIOUS
<1> QED
    BY <1>1 DEF Sequence

LEMMA SequenceLength ==
    ASSUME NEW s, Sequence(s)
    PROVE  Len(s) \in Nat /\ DOMAIN s = 1 .. Len(s)
BY LenProperties DEF Sequence

LEMMA TasksAre ==
    ASSUME NEW s, Sequence(s), NEW do, do \in {"visit", "body", "block"}
    PROVE  AreTasks(Tasks(do, s), s)
<1>1. Len(s) \in Nat /\ DOMAIN s = 1 .. Len(s)
    BY SequenceLength
<1>2. Tasks(do, s) = [i \in 1 .. Len(s) |-> [do |-> do, on |-> s[i]]]
    BY <1>1 DEF Tasks
<1>3. Sequence(Tasks(do, s))
    BY <1>1, <1>2, IsSequence
<1> QED
    BY <1>1, <1>2, <1>3 DEF AreTasks, Meant

LEMMA MemberTasksAre ==
    ASSUME NEW s, Sequence(s)
    PROVE  AreTasks(MemberTasks(s), s)
<1>1. Len(s) \in Nat /\ DOMAIN s = 1 .. Len(s)
    BY SequenceLength
<1> DEFINE do(i) == IF Type(s[i]) \in language.enumMemberTypes THEN "member" ELSE "visit"
<1>2. MemberTasks(s) = [i \in 1 .. Len(s) |-> [do |-> do(i), on |-> s[i]]]
    BY <1>1 DEF MemberTasks
<1>3. Sequence(MemberTasks(s))
    BY <1>1, <1>2, IsSequence
<1>4. \A i \in DOMAIN s : Meant([do |-> do(i), on |-> s[i]])
    BY DEF Meant
<1> QED
    BY <1>1, <1>2, <1>3, <1>4 DEF AreTasks

LEMMA ScopedTasks ==
    ASSUME NEW n, NEW tasks, Unfolds(n, tasks)
    PROVE  /\ Unfolds(n, tasks \o PopScope)
           /\ \A a : Reached(a, n, tasks) => Reached(a, n, tasks \o PopScope)
<1>1. Sequence(tasks) /\ Sequence(PopScope) /\ DOMAIN PopScope = 1 .. 1 /\ PopScope[1].do = "pop"
    <2>1. PopScope \in Seq({[do |-> "pop", on |-> 1]}) /\ Len(PopScope) = 1 /\ PopScope[1].do = "pop"
        BY DEF PopScope
    <2>2. DOMAIN PopScope = 1 .. 1
        BY <2>1, LenProperties
    <2> QED
        BY <2>1, <2>2 DEF Unfolds, InTextOrder, Sequence
<1>2. /\ Sequence(tasks \o PopScope) /\ Len(tasks) \in Nat /\ DOMAIN (tasks \o PopScope) \subseteq Nat
      /\ \A i \in DOMAIN (tasks \o PopScope) :
            \/ i \in DOMAIN tasks /\ (tasks \o PopScope)[i] = tasks[i]
            \/ (tasks \o PopScope)[i].do = "pop"
    <2>1. /\ Sequence(tasks \o PopScope) /\ Len(tasks) \in Nat /\ Len(PopScope) \in Nat
          /\ DOMAIN (tasks \o PopScope) = 1 .. Len(tasks) + Len(PopScope)
          /\ \A i \in DOMAIN (tasks \o PopScope) :
                \/ i \in DOMAIN tasks /\ (tasks \o PopScope)[i] = tasks[i]
                \/ i - Len(tasks) \in DOMAIN PopScope /\ (tasks \o PopScope)[i] = PopScope[i - Len(tasks)]
        BY <1>1, ConcatFacts
    <2>2. \A i \in DOMAIN PopScope : PopScope[i].do = "pop"
        BY <1>1
    <2> QED
        BY <2>1, <2>2
<1>3. InTextOrder(tasks \o PopScope)
    BY <1>2 DEF Unfolds, InTextOrder
<1> QED
    BY <1>2, <1>3 DEF Unfolds, Reached, Before

LEMMA GivenTasksAre ==
    ASSUME NEW s, Sequence(s), NEW do, do \in {"member", "named"},
           \A i \in DOMAIN s : Meant([do |-> do, on |-> s[i]])
    PROVE  AreTasks(Tasks(do, s), s)
<1>1. Len(s) \in Nat /\ DOMAIN s = 1 .. Len(s)
    BY SequenceLength
<1>2. Tasks(do, s) = [i \in 1 .. Len(s) |-> [do |-> do, on |-> s[i]]]
    BY <1>1 DEF Tasks
<1>3. Sequence(Tasks(do, s))
    BY <1>1, <1>2, IsSequence
<1> QED
    BY <1>1, <1>2, <1>3 DEF AreTasks

(* What is extracted: one symbol, and references of one kind to nodes that *)
(* are each claimed by a node the walk comes past.                         *)
LEMMA OneSymbol ==
    ASSUME program \in Programs, NEW n, NEW tasks, NEW e, Reached(e, n, tasks),
           Type(e) \notin Plain, NEW kind, NEW name
    PROVE  NewSymbols(n, tasks, <<Symbol(kind, name, e)>>)
<1> DEFINE ns == <<Symbol(kind, name, e)>>
<1>1. ns \in Seq({Symbol(kind, name, e)}) /\ Len(ns) = 1 /\ ns[1].at = e
    BY DEF Symbol
<1>2. Sequence(ns) /\ DOMAIN ns = 1 .. 1
    BY <1>1, LenProperties DEF Sequence
<1>3. Type(e) \notin language.packageTypes
    BY TreeFacts, LanguageFacts DEF Plain
<1>4. e # 1 /\ Owner(e) = e
    BY <1>3, TreeFacts DEF Owner, Plain, IsMember
<1> QED
    BY <1>1, <1>2, <1>3, <1>4 DEF NewSymbols

LEMMA OtherKinds ==
    /\ ~IsCalling("references") /\ ~IsCalling("decorates")
    /\ ~IsCalling("extends") /\ ~IsCalling("implements")
BY DEF IsCalling

AllOf(kind, rs) == \A i \in DOMAIN rs : rs[i].kind = kind

LEMMA SomeReferences ==
    ASSUME NEW n, NEW tasks, NEW from, NEW kind, NEW s, Sequence(s),
           IsCalling(kind) =>
              /\ from = Top
              /\ \A i \in DOMAIN s : Type(s[i]) \notin language.packageTypes,
           kind # "references" =>
              /\ \A i \in DOMAIN s :
                    s[i] \in Tree /\ \E m \in Tree : Claims(m, kind, s[i]) /\ Reached(m, n, tasks)
              /\ \A i, j \in DOMAIN s : s[i] = s[j] => i = j
    PROVE  /\ NewReferences(n, tasks, ReferencesTo(from, kind, s))
           /\ AllOf(kind, ReferencesTo(from, kind, s))
<1>1. Len(s) \in Nat /\ DOMAIN s = 1 .. Len(s)
    BY SequenceLength
<1>2. ReferencesTo(from, kind, s) = [i \in 1 .. Len(s) |-> Reference(from, kind, s[i])]
    BY <1>1 DEF ReferencesTo
<1>3. Sequence(ReferencesTo(from, kind, s))
    BY <1>1, <1>2, IsSequence
<1>4. /\ DOMAIN ReferencesTo(from, kind, s) = DOMAIN s
      /\ \A i \in DOMAIN s : /\ ReferencesTo(from, kind, s)[i].kind = kind
                             /\ ReferencesTo(from, kind, s)[i].at = s[i]
                             /\ ReferencesTo(from, kind, s)[i].from = from
    BY <1>1, <1>2 DEF Reference
<1>5. FromTop(ReferencesTo(from, kind, s))
    BY <1>4 DEF FromTop
<1> QED
    BY <1>3, <1>4, <1>5 DEF NewReferences, AllOf

LEMMA BothReferences ==
    ASSUME NEW n, NEW tasks, NEW r, NEW s, NewReferences(n, tasks, r), NewReferences(n, tasks, s),
           NEW k, NEW l, k # l,
           AllOf(k, r), AllOf(l, s)
    PROVE  /\ NewReferences(n, tasks, r \o s)
           /\ ~IsCalling(k) /\ ~IsCalling(l) => Silent(r \o s)
<1>1. /\ Sequence(r \o s) /\ Len(r) \in Nat /\ DOMAIN (r \o s) \subseteq Nat
      /\ \A i \in DOMAIN (r \o s) :
            \/ i \in DOMAIN r /\ (r \o s)[i] = r[i]
            \/ i - Len(r) \in DOMAIN s /\ (r \o s)[i] = s[i - Len(r)]
    <2>1. Sequence(r) /\ Sequence(s)
        BY DEF NewReferences
    <2>2. /\ Sequence(r \o s) /\ Len(r) \in Nat /\ Len(s) \in Nat
          /\ DOMAIN (r \o s) = 1 .. Len(r) + Len(s)
          /\ \A i \in DOMAIN (r \o s) :
                \/ i \in DOMAIN r /\ (r \o s)[i] = r[i]
                \/ i > Len(r) /\ i - Len(r) \in DOMAIN s /\ (r \o s)[i] = s[i - Len(r)]
        BY <2>1, ConcatFacts
    <2> QED
        BY <2>2
<1>2. ASSUME NEW i \in DOMAIN (r \o s), NEW j \in DOMAIN (r \o s),
             (r \o s)[i].kind # "references", (r \o s)[i].kind = (r \o s)[j].kind,
             (r \o s)[i].at = (r \o s)[j].at
      PROVE  i = j
    <2>1. CASE i \in DOMAIN r /\ (r \o s)[i] = r[i] /\ j \in DOMAIN r /\ (r \o s)[j] = r[j]
        BY <1>2, <2>1 DEF NewReferences
    <2>2. CASE /\ i - Len(r) \in DOMAIN s /\ (r \o s)[i] = s[i - Len(r)]
               /\ j - Len(r) \in DOMAIN s /\ (r \o s)[j] = s[j - Len(r)]
        <3>1. i - Len(r) = j - Len(r)
            BY <1>2, <2>2 DEF NewReferences
        <3> QED
            BY <1>1, <3>1
    <2> QED
        BY <1>1, <1>2, <2>1, <2>2 DEF AllOf
<1>3. FromTop(r \o s)
    BY <1>1 DEF NewReferences, FromTop
<1>4. ~IsCalling(k) /\ ~IsCalling(l) => Silent(r \o s)
    BY <1>1 DEF Silent, AllOf
<1> QED
    BY <1>1, <1>2, <1>3, <1>4 DEF NewReferences

(* The decorators and annotations of a declaration are its own.            *)
LEMMA DecoratorFacts ==
    ASSUME program \in Programs, NEW n, NEW tasks, NEW e \in Tree, Reached(e, n, tasks),
           Type(e) # "decorator", NEW id
    PROVE  /\ NewReferences(n, tasks, ExtractDecoratorsFor(e, id))
           /\ AllOf("decorates", ExtractDecoratorsFor(e, id))
<1> DEFINE siblings == {c \in Tree \ {1} : Parent(c) = Parent(e)}
           own == {c \in Tree : Parent(c) = e /\ Type(c) \in {"annotation"}}
           before == {c \in siblings : c < e /\ \A d \in siblings : c <= d /\ d < e => Type(d) = "decorator"}
           r == InOrder(own)
           s == InOrder(before)
<1>1. /\ Parent(1) = 0 /\ \A k \in Tree \ {1} : Parent(k) \in Tree
      /\ Len(program.tree) \in Nat /\ Tree = 1 .. Len(program.tree)
    BY TreeFacts
<1>2. DecoratorsOf(e) = r \o s
    BY DEF DecoratorsOf, ChildrenIn
<1>3. /\ Sequence(r)
      /\ \A i \in DOMAIN r : r[i] \in own /\ r[i] \in Tree \ {1}
      /\ \A i, j \in DOMAIN r : r[i] = r[j] => i = j
    <2>1. own \subseteq {c \in Tree : Parent(c) = e}
        OBVIOUS
    <2> HIDE DEF own
    <2> QED
        BY <2>1, ChildrenFacts
<1>4. /\ Sequence(s)
      /\ \A i \in DOMAIN s : s[i] \in before /\ s[i] \in Tree \ {1}
      /\ \A i, j \in DOMAIN s : s[i] = s[j] => i = j
    <2>1. CASE e = 1
        <3>1. siblings = {}
            BY <1>1, <2>1
        <3>2. before = {} /\ before \subseteq {c \in Tree : Parent(c) = e}
            BY <3>1
        <3> HIDE DEF before
        <3> QED
            BY <3>2, ChildrenFacts
    <2>2. CASE e # 1
        <3>1. Parent(e) \in Tree /\ before \subseteq {c \in Tree : Parent(c) = Parent(e)}
            BY <1>1, <2>2
        <3> HIDE DEF before
        <3> QED
            BY <3>1, ChildrenFacts
    <2> QED
        BY <2>1, <2>2
<1>5. \A d \in own : d # 1 => d \in Tree /\ Type(d) = "annotation" /\ Claims(e, "decorates", d)
    BY DEF Claims
<1>6. \A d \in before : d \in Tree /\ Type(d) = "decorator" /\ Claims(e, "decorates", d)
    BY <1>1 DEF Claims
<1> HIDE DEF own, before
<1>7. /\ Sequence(r \o s) /\ Len(r) \in Nat /\ Len(s) \in Nat /\ DOMAIN (r \o s) = 1 .. Len(r) + Len(s)
      /\ \A i \in DOMAIN (r \o s) :
            \/ i \in DOMAIN r /\ (r \o s)[i] = r[i]
            \/ i > Len(r) /\ i - Len(r) \in DOMAIN s /\ (r \o s)[i] = s[i - Len(r)]
    BY <1>3, <1>4, ConcatFacts
<1> HIDE DEF r, s
<1>8. \A i \in DOMAIN (r \o s) :
         (r \o s)[i] \in Tree /\ Claims(e, "decorates", (r \o s)[i])
    BY <1>3, <1>4, <1>5, <1>6, <1>7
<1>9. ASSUME NEW i \in DOMAIN (r \o s), NEW j \in DOMAIN (r \o s), (r \o s)[i] = (r \o s)[j]
      PROVE  i = j
    <2>1. CASE i \in DOMAIN r /\ (r \o s)[i] = r[i] /\ j \in DOMAIN r /\ (r \o s)[j] = r[j]
        BY <1>3, <1>9, <2>1
    <2>2. CASE /\ i - Len(r) \in DOMAIN s /\ (r \o s)[i] = s[i - Len(r)]
               /\ j - Len(r) \in DOMAIN s /\ (r \o s)[j] = s[j - Len(r)]
        <3>1. i - Len(r) = j - Len(r)
            BY <1>4, <1>9, <2>2
        <3> QED
            BY <1>7, <3>1
    <2>3. \A a \in DOMAIN r, b \in DOMAIN s : r[a] # s[b]
        BY <1>3, <1>4, <1>5, <1>6
    <2> QED
        BY <1>7, <1>9, <2>1, <2>2, <2>3
<1> QED
    <2> DEFINE t == r \o s
    <2>1. /\ Sequence(t)
          /\ \A i \in DOMAIN t :
                t[i] \in Tree /\ \E m \in Tree : Claims(m, "decorates", t[i]) /\ Reached(m, n, tasks)
          /\ \A i, j \in DOMAIN t : t[i] = t[j] => i = j
        BY <1>7, <1>8, <1>9
    <2>2. ExtractDecoratorsFor(e, id) = ReferencesTo(id, "decorates", t)
        BY <1>2 DEF ExtractDecoratorsFor
    <2> HIDE DEF t
    <2> QED
        BY <2>1, <2>2, OtherKinds, SomeReferences

(* The base types of a declaration.                                        *)
LEMMA InheritanceFacts ==
    ASSUME program \in Programs, NEW n, NEW tasks, NEW e \in Tree, Reached(e, n, tasks), NEW id
    PROVE  /\ NewReferences(n, tasks, ExtractInheritance(e, id))
           /\ AllOf("extends", ExtractInheritance(e, id)) /\ Silent(ExtractInheritance(e, id))
           /\ NewReferences(n, tasks, ReferencesTo(id, "implements", ChildrenIn(e, {"base"})))
<1> DEFINE bases == {c \in Tree : Parent(c) = e /\ Type(c) \in {"base"}}
           list == InOrder(bases)
<1>1. bases \subseteq {c \in Tree : Parent(c) = e}
    OBVIOUS
<1>2. \A d \in bases : d \in Tree /\ Claims(e, "extends", d) /\ Claims(e, "implements", d)
    BY DEF Claims
<1> HIDE DEF bases
<1>3. /\ Sequence(list)
      /\ \A i \in DOMAIN list : list[i] \in bases
      /\ \A i, j \in DOMAIN list : list[i] = list[j] => i = j
    BY <1>1, ChildrenFacts
<1>4. \A i \in DOMAIN list :
         /\ list[i] \in Tree
         /\ \E m \in Tree : Claims(m, "extends", list[i]) /\ Reached(m, n, tasks)
         /\ \E m \in Tree : Claims(m, "implements", list[i]) /\ Reached(m, n, tasks)
    BY <1>2, <1>3
<1>5. Sequence(list) /\ \A i, j \in DOMAIN list : list[i] = list[j] => i = j
    BY <1>3
<1>6. ChildrenIn(e, {"base"}) = list
    BY DEF ChildrenIn, bases
<1> HIDE DEF list
<1>7. NewReferences(n, tasks, ReferencesTo(id, "extends", list))
    BY <1>4, <1>5, OtherKinds, SomeReferences
<1>9. AllOf("extends", ReferencesTo(id, "extends", list))
    BY <1>4, <1>5, OtherKinds, SomeReferences
<1>8. NewReferences(n, tasks, ReferencesTo(id, "implements", list))
    BY <1>4, <1>5, OtherKinds, SomeReferences
<1> QED
    BY <1>6, <1>7, <1>8, <1>9, OtherKinds DEF ExtractInheritance, AllOf, Silent

(* The types a declaration names.                                          *)
LEMMA TypesInIsSequence ==
    ASSUME program \in Programs, NEW S \in SUBSET Tree
    PROVE  Sequence(InOrder(S))
<1>1. Len(program.tree) \in Nat /\ Tree = 1 .. Len(program.tree)
    BY TreeFacts
<1>2. IsFiniteSet(Tree) /\ S \in SUBSET Nat
    BY <1>1, FS_Interval
<1>3. IsFiniteSet(S)
    BY <1>2, FS_Subset
<1> QED
    BY <1>2, <1>3, InOrderFacts DEF Sequence

LEMMA TypeReferences ==
    ASSUME program \in Programs, NEW n, NEW tasks, NEW S \in SUBSET Tree, NEW T \in SUBSET Tree, NEW from
    PROVE  /\ NewReferences(n, tasks, ReferencesTo(from, "references", InOrder(S)))
           /\ NewReferences(n, tasks, ReferencesTo(from, "references", InOrder(S) \o InOrder(T)))
           /\ AllOf("references", ReferencesTo(from, "references", InOrder(S)))
<1>1. Sequence(InOrder(S)) /\ Sequence(InOrder(T))
    BY TypesInIsSequence
<1>2. Sequence(InOrder(S) \o InOrder(T))
    BY <1>1, ConcatFacts
<1> QED
    BY <1>1, <1>2, OtherKinds, SomeReferences

LEMMA AnnotationFacts ==
    ASSUME program \in Programs, NEW n, NEW tasks, NEW e, NEW from
    PROVE  /\ NewReferences(n, tasks, ExtractTypeAnnotations(e, from))
           /\ AllOf("references", ExtractTypeAnnotations(e, from))
           /\ NewReferences(n, tasks, ReferencesTo(from, "references", TypesIn(Annotations(e))))
<1> DEFINE roots == Annotations(e)
           S == {m \in Tree : Type(m) = "type" /\ (m \in roots \/ Ancestors(m) \cap roots # {})}
<1>1. S \in SUBSET Tree /\ TypesIn(roots) = InOrder(S)
    BY DEF TypesIn
<1> HIDE DEF S, roots
<1>2. /\ NewReferences(n, tasks, ReferencesTo(from, "references", TypesIn(roots)))
      /\ AllOf("references", ReferencesTo(from, "references", TypesIn(roots)))
    BY <1>1, TypeReferences
<1>3. CASE language.annotated
    BY <1>2, <1>3 DEF ExtractTypeAnnotations, roots
<1>4. CASE ~language.annotated
    BY <1>2, <1>4, NothingNew DEF ExtractTypeAnnotations, roots, AllOf
<1> QED
    BY <1>3, <1>4
LEMMA MarkedReferences ==
    ASSUME program \in Programs, NEW n, NEW tasks, NEW e, Reached(e, n, tasks), Type(e) \notin Plain, NEW id
    PROVE  /\ NewReferences(n, tasks, ExtractTypeAnnotations(e, id) \o ExtractDecoratorsFor(e, id))
           /\ NewReferences(n, tasks, ExtractDecoratorsFor(e, id) \o ExtractTypeAnnotations(e, id))
           /\ NewReferences(n, tasks, ExtractInheritance(e, id) \o ExtractDecoratorsFor(e, id))
           /\ Silent(ExtractTypeAnnotations(e, id) \o ExtractDecoratorsFor(e, id))
           /\ Silent(ExtractInheritance(e, id) \o ExtractDecoratorsFor(e, id))
<1>1. e \in Tree /\ Type(e) # "decorator"
    BY DEF Reached, Plain
<1>2. /\ NewReferences(n, tasks, ExtractTypeAnnotations(e, id))
      /\ AllOf("references", ExtractTypeAnnotations(e, id))
    BY AnnotationFacts
<1>3. /\ NewReferences(n, tasks, ExtractDecoratorsFor(e, id))
      /\ AllOf("decorates", ExtractDecoratorsFor(e, id))
    BY <1>1, DecoratorFacts
<1>4. /\ NewReferences(n, tasks, ExtractInheritance(e, id))
      /\ AllOf("extends", ExtractInheritance(e, id))
    BY <1>1, InheritanceFacts
<1>5. "references" # "decorates" /\ "extends" # "decorates"
    OBVIOUS
<1> QED
    BY <1>2, <1>3, <1>4, <1>5, OtherKinds, BothReferences
-----------------------------------------------------------------------------
(* The scope a task runs in: the one on top of nodeStack when each `pop`   *)
(* before it on the agenda has closed one.                                 *)
Layers(level, tasks, stack) ==
    /\ level \in [DOMAIN tasks -> DOMAIN stack]
    /\ 1 \in DOMAIN tasks => level[1] = Len(stack)
    /\ \A j, k \in DOMAIN tasks : j < k =>
          level[k] <= level[j] /\ (tasks[j].do = "pop" => level[k] < level[j])
    /\ \A k \in DOMAIN tasks : k + 1 \in DOMAIN tasks =>
          level[k + 1] = IF tasks[k].do = "pop" THEN level[k] - 1 ELSE level[k]

(* The first task is replaced by new ones, which run in the scope on top   *)
(* of the new stack; the others run in the scopes they had.                *)
Carries(level, tasks, stack, new, after, agendaAfter, stackAfter) ==
    /\ \A j \in DOMAIN new :
          /\ j \in DOMAIN agendaAfter /\ agendaAfter[j] = new[j]
          /\ stackAfter[after[j]] = stackAfter[Len(stackAfter)]
    /\ \A i \in DOMAIN tasks : i # 1 =>
          \E j \in DOMAIN agendaAfter :
             agendaAfter[j] = tasks[i] /\ stackAfter[after[j]] = stack[level[i]]
    /\ \A j \in DOMAIN agendaAfter :
          \/ j \in DOMAIN new
          \/ \E i \in DOMAIN tasks : /\ i # 1 /\ agendaAfter[j] = tasks[i]
                                     /\ stackAfter[after[j]] = stack[level[i]]

(* A scope is opened, or none, and the last of the new tasks closes it.    *)
Schedules(new, stack, stackAfter) ==
    /\ Sequence(new) /\ Sequence(stackAfter)
    /\ \A l \in DOMAIN stack : l \in DOMAIN stackAfter /\ stackAfter[l] = stack[l]
    /\ \/ /\ Len(stackAfter) = Len(stack)
          /\ \A j \in DOMAIN new : new[j].do # "pop"
       \/ /\ Len(stackAfter) = Len(stack) + 1 /\ new # <<>>
          /\ \A j \in DOMAIN new : new[j].do = "pop" <=> j = Len(new)

LEMMA LayersStep ==
    ASSUME NEW level, NEW tasks, NEW stack, NEW new, NEW stackAfter,
           Sequence(tasks), tasks # <<>>, Sequence(stack), tasks[1].do # "pop",
           Layers(level, tasks, stack), Schedules(new, stack, stackAfter)
    PROVE  \E after : /\ Layers(after, new \o Tail(tasks), stackAfter)
                      /\ Carries(level, tasks, stack, new, after, new \o Tail(tasks), stackAfter)
<1> DEFINE b == new \o Tail(tasks)
           M == Len(new)
           R == Len(Tail(tasks))
           N == Len(stackAfter)
           after == [j \in 1 .. M + R |-> IF j <= M THEN N ELSE level[j - M + 1]]
<1>1. /\ Sequence(Tail(tasks)) /\ Sequence(new) /\ Sequence(stackAfter)
      /\ 1 \in DOMAIN tasks
      /\ \A i \in DOMAIN Tail(tasks) : i + 1 \in DOMAIN tasks /\ Tail(tasks)[i] = tasks[i + 1]
    BY TailFacts DEF Schedules
<1>2. /\ M \in Nat /\ DOMAIN new = 1 .. M /\ R \in Nat /\ DOMAIN Tail(tasks) = 1 .. R
      /\ DOMAIN b = 1 .. M + R
      /\ \A j \in DOMAIN b : \/ j \in 1 .. M /\ b[j] = new[j]
                             \/ j > M /\ j - M \in 1 .. R /\ b[j] = Tail(tasks)[j - M]
    BY <1>1, ConcatFacts
<1>3. DOMAIN tasks = 1 .. R + 1
    <2>1. PICK S : tasks \in Seq(S)
        BY DEF Sequence
    <2>2. Len(Tail(tasks)) = Len(tasks) - 1 /\ Len(tasks) \in Nat
        BY <2>1, HeadTailProperties, EmptySeq
    <2> QED
        BY <1>2, <2>1, <2>2, LenProperties
<1>4. /\ N \in Nat /\ DOMAIN stackAfter = 1 .. N
      /\ Len(stack) \in Nat /\ DOMAIN stack = 1 .. Len(stack)
      /\ \A l \in DOMAIN stack : l \in DOMAIN stackAfter /\ stackAfter[l] = stack[l]
    BY <1>1, SequenceLength DEF Schedules
<1>5. \A j \in DOMAIN b : \/ j \in 1 .. M /\ b[j] = new[j] /\ after[j] = N
                          \/ /\ j > M /\ j - M + 1 \in DOMAIN tasks /\ j - M + 1 # 1
                             /\ b[j] = tasks[j - M + 1] /\ after[j] = level[j - M + 1]
    <2>1. ASSUME NEW j \in DOMAIN b, j \in 1 .. M, b[j] = new[j]
          PROVE  after[j] = N
        BY <1>2, <2>1
    <2>2. ASSUME NEW j \in DOMAIN b, j > M, j - M \in 1 .. R, b[j] = Tail(tasks)[j - M]
          PROVE  /\ j - M + 1 \in DOMAIN tasks /\ j - M + 1 # 1
                 /\ b[j] = tasks[j - M + 1] /\ after[j] = level[j - M + 1]
        BY <1>1, <1>2, <1>3, <2>2
    <2> HIDE DEF b, after, M, R, N
    <2> QED
        BY <1>2, <2>1, <2>2
<1>6. \A i \in DOMAIN tasks : level[i] \in DOMAIN stack /\ level[i] \in Nat
    BY <1>4 DEF Layers
<1>7. /\ level[1] = Len(stack)
      /\ \A j, k \in DOMAIN tasks : j < k =>
            level[k] <= level[j] /\ (tasks[j].do = "pop" => level[k] < level[j])
      /\ \A k \in DOMAIN tasks : k + 1 \in DOMAIN tasks =>
            level[k + 1] = IF tasks[k].do = "pop" THEN level[k] - 1 ELSE level[k]
    BY <1>1 DEF Layers
<1>8. \A k \in DOMAIN tasks : k # 1 => level[k] <= Len(stack)
    BY <1>3, <1>4, <1>6
<1>9. \/ N = Len(stack) /\ \A j \in 1 .. M : new[j].do # "pop"
      \/ N = Len(stack) + 1 /\ M > 0 /\ \A j \in 1 .. M : new[j].do = "pop" <=> j = M
    <2>1. new # <<>> => M > 0
        BY <1>1, <1>2, EmptySeq DEF Sequence
    <2> QED
        BY <1>2, <2>1 DEF Schedules
<1>10. DOMAIN after = DOMAIN b
    BY <1>2
<1>11. after \in [DOMAIN b -> DOMAIN stackAfter]
    <2>1. N \in DOMAIN stackAfter \/ DOMAIN b = {} \/ M = 0
        <3>1. Len(stack) > 0
            BY <1>1, <1>4, <1>6
        <3>2. N > 0
            <4>1. Len(stack) \in Nat /\ (N = Len(stack) \/ N = Len(stack) + 1)
                BY <1>4, <1>9
            <4> HIDE DEF N
            <4> QED
                BY <3>1, <4>1
        <3> QED
            BY <1>4, <3>2
    <2>2. \A j \in DOMAIN b : after[j] \in DOMAIN stackAfter
        BY <1>2, <1>4, <1>5, <1>6, <2>1
    <2>3. after = [j \in DOMAIN b |-> after[j]]
        BY <1>2
    <2> HIDE DEF after, b
    <2> QED
        BY <2>2, <2>3
<1> HIDE DEF after, b, M, R, N
<1>12. 1 \in DOMAIN b => after[1] = N
    <2>1. CASE M > 0
        BY <1>2, <1>5, <2>1
    <2>2. CASE M = 0
        <3>1. N = Len(stack) /\ tasks[1].do # "pop"
            BY <1>9, <2>2
        <3>2. 1 \in DOMAIN b => after[1] = level[2] /\ 2 \in DOMAIN tasks
            BY <1>2, <1>5, <2>2
        <3>3. 2 \in DOMAIN tasks => level[2] = level[1]
            BY <1>1, <1>7, <3>1
        <3> QED
            BY <1>7, <3>1, <3>2, <3>3
    <2> QED
        BY <1>2, <2>1, <2>2
<1>13. ASSUME NEW j \in DOMAIN b, NEW k \in DOMAIN b, j < k
       PROVE  after[k] <= after[j] /\ (b[j].do = "pop" => after[k] < after[j])
    <2>1. CASE j \in 1 .. M /\ b[j] = new[j] /\ after[j] = N
        <3>1. CASE k \in 1 .. M /\ b[k] = new[k] /\ after[k] = N
            <4>1. j # M
                BY <1>2, <1>13, <3>1
            <4>2. new[j].do # "pop"
                BY <1>9, <2>1, <4>1
            <4> QED
                BY <1>4, <2>1, <3>1, <4>2
        <3>2. CASE /\ k > M /\ k - M + 1 \in DOMAIN tasks /\ k - M + 1 # 1
                   /\ b[k] = tasks[k - M + 1] /\ after[k] = level[k - M + 1]
            <4>1. after[k] <= Len(stack) /\ after[k] \in Nat
                BY <1>6, <1>8, <3>2
            <4>2. CASE N = Len(stack) /\ \A l \in 1 .. M : new[l].do # "pop"
                BY <1>4, <2>1, <4>1, <4>2
            <4>3. CASE N = Len(stack) + 1
                BY <1>4, <2>1, <4>1, <4>3
            <4> QED
                BY <1>9, <4>2, <4>3
        <3> QED
            BY <1>5, <3>1, <3>2
    <2>2. CASE /\ j > M /\ j - M + 1 \in DOMAIN tasks
               /\ b[j] = tasks[j - M + 1] /\ after[j] = level[j - M + 1]
        <3>1. /\ k > M /\ k - M + 1 \in DOMAIN tasks
              /\ b[k] = tasks[k - M + 1] /\ after[k] = level[k - M + 1]
            BY <1>2, <1>5, <1>13, <2>2
        <3>2. j - M + 1 < k - M + 1
            BY <1>2, <1>13
        <3> QED
            BY <1>7, <2>2, <3>1, <3>2
    <2> QED
        BY <1>5, <2>1, <2>2
<1>14. ASSUME NEW k \in DOMAIN b, k + 1 \in DOMAIN b
       PROVE  after[k + 1] = IF b[k].do = "pop" THEN after[k] - 1 ELSE after[k]
    <2>1. CASE k > M
        <3>1. /\ k - M + 1 \in DOMAIN tasks /\ b[k] = tasks[k - M + 1] /\ after[k] = level[k - M + 1]
              /\ k - M + 2 \in DOMAIN tasks /\ after[k + 1] = level[k - M + 2]
            BY <1>2, <1>5, <1>14, <2>1
        <3>2. k - M + 2 = (k - M + 1) + 1
            BY <1>2
        <3> QED
            BY <1>7, <3>1, <3>2
    <2>2. CASE k + 1 <= M
        <3>1. b[k] = new[k] /\ after[k] = N /\ after[k + 1] = N /\ k \in 1 .. M /\ k # M
            BY <1>2, <1>5, <1>14, <2>2
        <3> QED
            BY <1>9, <3>1
    <2>3. CASE k = M
        <3>1. /\ b[k] = new[k] /\ after[k] = N /\ k \in 1 .. M
              /\ 2 \in DOMAIN tasks /\ after[k + 1] = level[2]
            BY <1>2, <1>5, <1>14, <2>3
        <3>2. level[2] = Len(stack)
            BY <1>1, <1>7, <3>1
        <3>3. \/ N = Len(stack) /\ b[k].do # "pop"
              \/ N = Len(stack) + 1 /\ b[k].do = "pop"
            BY <1>9, <2>3, <3>1
        <3>4. after[k] = N /\ after[k + 1] = Len(stack) /\ Len(stack) \in Nat
            BY <1>4, <3>1, <3>2
        <3>5. CASE N = Len(stack) /\ b[k].do # "pop"
            BY <3>4, <3>5
        <3>6. CASE N = Len(stack) + 1 /\ b[k].do = "pop"
            <4>1. after[k] - 1 = Len(stack)
                BY <3>4, <3>6
            <4> QED
                BY <3>4, <3>6, <4>1
        <3> QED
            BY <3>3, <3>5, <3>6
    <2> QED
        BY <1>2, <2>1, <2>2, <2>3
<1>15. Layers(after, b, stackAfter)
    BY <1>11, <1>12, <1>13, <1>14 DEF Layers, N
<1>16. Carries(level, tasks, stack, new, after, b, stackAfter)
    <2>1. \A i \in DOMAIN tasks : stackAfter[level[i]] = stack[level[i]]
        BY <1>4, <1>6
    <2>2. \A j \in DOMAIN new : j \in DOMAIN b /\ b[j] = new[j] /\ after[j] = N
        BY <1>2, <1>5
    <2>3. ASSUME NEW i \in DOMAIN tasks, i # 1
          PROVE  \E j \in DOMAIN b : b[j] = tasks[i] /\ stackAfter[after[j]] = stack[level[i]]
        <3>1. M + i - 1 \in DOMAIN b /\ (M + i - 1) - M + 1 = i /\ M + i - 1 > M
            BY <1>2, <1>3, <2>3
        <3>2. PICK x \in DOMAIN b : x - M + 1 = i /\ x > M
            BY <3>1
        <3>3. x \notin 1 .. M
            BY <1>2, <3>2
        <3>4. b[x] = tasks[x - M + 1] /\ after[x] = level[x - M + 1]
            BY <1>5, <3>3
        <3> QED
            BY <2>1, <3>2, <3>4
    <2>4. \A j \in DOMAIN b :
             \/ j \in DOMAIN new
             \/ \E i \in DOMAIN tasks : i # 1 /\ b[j] = tasks[i] /\ stackAfter[after[j]] = stack[level[i]]
        BY <1>2, <1>5, <2>1
    <2> QED
        BY <2>2, <2>3, <2>4 DEF Carries, N
<1> QED
    BY <1>15, <1>16 DEF b

(* A `pop`: the others are as they were.                                   *)
Popped(level, tasks, stack, after, rest, left) ==
    /\ Layers(after, rest, left)
    /\ \A j \in DOMAIN rest : /\ j + 1 \in DOMAIN tasks /\ rest[j] = tasks[j + 1]
                              /\ left[after[j]] = stack[level[j + 1]]

LEMMA LayersPop ==
    ASSUME NEW level, NEW tasks, NEW stack, Sequence(tasks), tasks # <<>>, Sequence(stack),
           tasks[1].do = "pop", Layers(level, tasks, stack)
    PROVE  /\ Sequence(SubSeq(stack, 1, Len(stack) - 1))
           /\ \E after : Popped(level, tasks, stack, after,
                                Tail(tasks), SubSeq(stack, 1, Len(stack) - 1))
<1> DEFINE b == Tail(tasks)
           N == Len(stack) - 1
           s == SubSeq(stack, 1, N)
           after == [j \in DOMAIN b |-> level[j + 1]]
<1>1. /\ Sequence(b) /\ 1 \in DOMAIN tasks
      /\ \A i \in DOMAIN b : i + 1 \in DOMAIN tasks /\ b[i] = tasks[i + 1]
      /\ DOMAIN b \subseteq Nat \ {0}
    BY TailFacts
<1>2. Len(stack) \in Nat /\ DOMAIN stack = 1 .. Len(stack) /\ level[1] \in DOMAIN stack
    BY <1>1, SequenceLength DEF Layers
<1>3. /\ N \in Nat /\ s \in Seq({stack[l] : l \in DOMAIN stack}) /\ Len(s) = N
      /\ \A l \in 1 .. N : s[l] = stack[l]
    <2>1. N \in Nat
        BY <1>2
    <2>2. stack \in Seq({stack[l] : l \in DOMAIN stack})
        BY LenProperties DEF Sequence
    <2>3. \A l \in 1 .. N : l \in 1 .. Len(stack)
        BY <1>2
    <2> QED
        BY <1>2, <2>1, <2>2, <2>3, SubSeqProperties
<1>4. Sequence(s) /\ DOMAIN s = 1 .. N
    BY <1>3, LenProperties DEF Sequence
<1> HIDE DEF b, s
<1>5. \A j \in DOMAIN b : level[j + 1] \in 1 .. N
    <2>1. \A j \in DOMAIN b : j + 1 > 1
        BY <1>1
    <2>2. \A j \in DOMAIN b : level[j + 1] < level[1] /\ level[j + 1] \in DOMAIN stack
        BY <1>1, <2>1 DEF Layers
    <2> QED
        BY <1>2, <2>2
<1>6. Layers(after, b, s)
    <2>1. after \in [DOMAIN b -> DOMAIN s]
        BY <1>4, <1>5
    <2>2. 1 \in DOMAIN b => after[1] = Len(s)
        BY <1>1, <1>3 DEF Layers
    <2>3. ASSUME NEW j \in DOMAIN b, NEW k \in DOMAIN b, j < k
          PROVE  after[k] <= after[j] /\ (b[j].do = "pop" => after[k] < after[j])
        <3>1. j + 1 < k + 1 /\ j + 1 \in DOMAIN tasks /\ k + 1 \in DOMAIN tasks /\ b[j] = tasks[j + 1]
            BY <1>1, <2>3
        <3> QED
            BY <3>1 DEF Layers
    <2>4. ASSUME NEW k \in DOMAIN b, k + 1 \in DOMAIN b
          PROVE  after[k + 1] = IF b[k].do = "pop" THEN after[k] - 1 ELSE after[k]
        <3>1. k + 1 \in DOMAIN tasks /\ (k + 1) + 1 \in DOMAIN tasks /\ b[k] = tasks[k + 1]
            BY <1>1, <2>4
        <3> QED
            BY <2>4, <3>1 DEF Layers
    <2> HIDE DEF after
    <2> QED
        BY <2>1, <2>2, <2>3, <2>4 DEF Layers
<1>7. \A j \in DOMAIN b : s[after[j]] = stack[level[j + 1]]
    BY <1>3, <1>5
<1>8. Popped(level, tasks, stack, after, b, s)
    <2> HIDE DEF after
    <2> QED
        BY <1>1, <1>6, <1>7 DEF Popped
<1> QED
    BY <1>4, <1>8 DEF b, s
-----------------------------------------------------------------------------
(* Which symbol is the scope of a node: the innermost one around it, or    *)
(* the namespace of the file, or the file.  ns are the symbols there are.  *)
Above(ns, n) ==
    {i \in DOMAIN ns : Encloses(ns[i]) /\ ns[i].kind # "namespace" /\ Below(ns[i].at, n)}

Outermost(ns) == IF Len(ns) > 1 /\ ns[2].kind = "namespace" THEN ns[2].id ELSE FileId

IsScope(ns, id, n) ==
    \/ Above(ns, n) = {} /\ id = Outermost(ns)
    \/ \E i \in Above(ns, n) : ns[i].id = id /\ \A j \in Above(ns, n) : ns[j].at <= ns[i].at

(* A member of the object type of an alias.                                *)
Contract(a) ==
    /\ a \in Tree \ {1} /\ IsMember(a)
    /\ Parent(a) \in Tree \ {1} /\ Type(Parent(a)) = "objtype"

(* A task runs in the scope of its node; the body of a Pascal procedure in *)
(* that of its declaration.                                                *)
Held(ns, k, id) ==
    \/ k.do = "pop" \/ (k.do = "block" /\ InDefProc(k.on))
    \/ IsScope(ns, id, k.on)

RootsAreFirst ==
    /\ 1 \in DOMAIN nodes
    /\ \A i \in DOMAIN nodes : nodes[i].at = 1 => nodes[i].kind = "file"
    /\ \A i \in DOMAIN nodes :
          nodes[i].kind = "namespace" \/ Type(nodes[i].at) \in language.packageTypes =>
             /\ i = 2 /\ nodes[i].kind = "namespace" /\ Type(nodes[i].at) \in language.packageTypes
             /\ nodes[i].at \in Tree \ {1} /\ Parent(nodes[i].at) = 1

MembersAreInAliases ==
    \A i \in DOMAIN nodes : Owner(nodes[i].at) # nodes[i].at => Contract(nodes[i].at)

HasEdge(es, from, to) == \E j \in DOMAIN es : es[j] = <<from, to>>

(* A member belongs to its alias, the namespace to the file.               *)
BelongsTo(ns, from, s) ==
    \/ s.kind = "namespace" /\ from = FileId
    \/ IsMember(s.at) /\ \E i \in DOMAIN ns : ns[i].at = Parent(Parent(s.at)) /\ ns[i].id = from
    \/ s.kind # "namespace" /\ ~IsMember(s.at) /\ IsScope(ns, from, s.at)

Placed(ns, es, s) == \E from : HasEdge(es, from, s.id) /\ BelongsTo(ns, from, s)

SymbolsAreScoped == \A i \in DOMAIN nodes : nodes[i].at # 1 => Placed(nodes, edges, nodes[i])

Sent(ns, r) ==
    IsCalling(r.kind) =>
       /\ Type(r.at) \notin language.packageTypes
       /\ InDefProc(r.at) \/ IsScope(ns, r.from, r.at)

ReferencesAreScoped == \A i \in DOMAIN references : Sent(nodes, references[i])

TasksAreHeld(level) == \A k \in DOMAIN agenda : Held(nodes, agenda[k], nodeStack[level[k]])

(* What the body of a function is owed: a reference for each of its calls. *)
OwnCall(s, n) ==
    /\ s.kind \in {"function", "method"} /\ Type(s.at) # "signature"
    /\ n \in Tree /\ Type(n) \in Calls /\ InBodyItself(n, s.at)

Made(rs, id, n) ==
    \E j \in DOMAIN rs : rs[j].at = n /\ rs[j].kind \in {"calls", "instantiates"} /\ rs[j].from = id

Owes(k, id, s, n) ==
    /\ k.do = "body" /\ id = s.id /\ k.on \in Tree
    /\ k.on = n \/ Below(k.on, n)
    /\ Below(s.at, k.on)

CallsAreOwed(level) ==
    \A i \in DOMAIN nodes : \A n : OwnCall(nodes[i], n) =>
       \/ Made(references, nodes[i].id, n)
       \/ \E k \in DOMAIN agenda : Owes(agenda[k], nodeStack[level[k]], nodes[i], n)

ScopeInv ==
    /\ Sequence(nodeStack) /\ Sequence(edges)
    /\ RootsAreFirst /\ MembersAreInAliases /\ SymbolsAreScoped /\ ReferencesAreScoped
    /\ \E level : Layers(level, agenda, nodeStack) /\ TasksAreHeld(level) /\ CallsAreOwed(level)

WalkInv == OnceInv /\ ScopeInv

LEMMA ScopesStay ==
    ASSUME program' = program
    PROVE  /\ FileId' = FileId
           /\ \A a : Parent(a)' = Parent(a)
           /\ \A a, b : Below(a, b)' <=> Below(a, b)
           /\ \A n : InDefProc(n)' <=> InDefProc(n)
           /\ \A a : Contract(a)' <=> Contract(a)
           /\ \A ns, n : Above(ns, n)' = Above(ns, n)
           /\ \A ns, id, n : IsScope(ns, id, n)' <=> IsScope(ns, id, n)
           /\ \A ns, k, id : Held(ns, k, id)' <=> Held(ns, k, id)
           /\ \A ns, es, s : Placed(ns, es, s)' <=> Placed(ns, es, s)
           /\ \A ns, r : Sent(ns, r)' <=> Sent(ns, r)
           /\ \A s, n : OwnCall(s, n)' <=> OwnCall(s, n)
           /\ \A k, id, s, n : Owes(k, id, s, n)' <=> Owes(k, id, s, n)
<1>1. /\ Tree' = Tree /\ language' = language /\ \A a : Type(a)' = Type(a)
      /\ \A a : Owner(a)' = Owner(a)
    BY TreeStays
<1>2. \A a : Parent(a)' = Parent(a)
    BY DEF Parent
<1>3. FileId' = FileId
    BY DEF FileId, Id, Line
<1>4. \A n : Ancestors(n)' = Ancestors(n)
    BY <1>2 DEF Ancestors
<1>5. \A a, b : Below(a, b)' <=> Below(a, b)
    BY <1>4 DEF Below
<1>6. \A n : InDefProc(n)' <=> InDefProc(n)
    BY <1>1, <1>4 DEF InDefProc
<1>7. \A n : Children(n)' = Children(n) /\ InBody(n)' = InBody(n)
    BY <1>1, <1>2 DEF Children, InBody
<1>8. \A n, types : ChildrenIn(n, types)' = ChildrenIn(n, types)
    BY <1>1, <1>2 DEF ChildrenIn
<1>9. \A n : Body(n)' = Body(n)
    BY <1>1, <1>2, <1>7 DEF Body, BodyOfField
<1>10. \A a : IsMember(a)' <=> IsMember(a)
    BY <1>1 DEF IsMember
<1>11. \A d : Encloses(d)' <=> Encloses(d)
    BY <1>10 DEF Encloses
<1>12. \A a : Contract(a)' <=> Contract(a)
    BY <1>1, <1>2, <1>10 DEF Contract
<1>13. \A ns, n : Above(ns, n)' = Above(ns, n)
    BY <1>5, <1>11 DEF Above
<1>14. \A ns : Outermost(ns)' = Outermost(ns)
    BY <1>3 DEF Outermost
<1>15. \A ns, id, n : IsScope(ns, id, n)' <=> IsScope(ns, id, n)
    BY <1>13, <1>14 DEF IsScope
<1>16. \A ns, k, id : Held(ns, k, id)' <=> Held(ns, k, id)
    BY <1>6, <1>15 DEF Held
<1>17. \A ns, es, s : Placed(ns, es, s)' <=> Placed(ns, es, s)
    <2>1. \A ns, from, s : BelongsTo(ns, from, s)' <=> BelongsTo(ns, from, s)
        BY <1>2, <1>3, <1>10, <1>15 DEF BelongsTo
    <2> QED
        BY <2>1 DEF Placed, HasEdge
<1>18. \A ns, r : Sent(ns, r)' <=> Sent(ns, r)
    BY <1>1, <1>6, <1>15 DEF Sent
<1>19. \A a : IsTransparent(a)' <=> IsTransparent(a)
    BY <1>1, <1>8 DEF IsTransparent, StructureInBodies
<1>20. \A n, f : InBodyItself(n, f)' <=> InBodyItself(n, f)
    BY <1>4, <1>9, <1>19 DEF InBodyItself
<1>21. \A s, n : OwnCall(s, n)' <=> OwnCall(s, n)
    BY <1>1, <1>20 DEF OwnCall, Calls
<1>22. \A k, id, s, n : Owes(k, id, s, n)' <=> Owes(k, id, s, n)
    BY <1>1, <1>5 DEF Owes
<1> QED
    BY <1>2, <1>3, <1>5, <1>6, <1>12, <1>13, <1>15, <1>16, <1>17, <1>18, <1>21, <1>22
-----------------------------------------------------------------------------
LEMMA MoreBelow ==
    ASSUME program \in Programs
    PROVE  /\ \A a : \A n \in Tree : Below(a, n) => a \in Tree
           /\ \A p, n \in Tree : Below(p, n) =>
                 \E c \in Tree \ {1} : Parent(c) = p /\ (c = n \/ Below(c, n))
<1>0. /\ Len(program.tree) \in Nat /\ Tree = 1 .. Len(program.tree)
      /\ \A n \in Tree \ {1} : Parent(n) \in Tree /\ Parent(n) < n
    BY TreeFacts
<1>1. ASSUME NEW n \in Tree, NEW a, Below(a, n) PROVE a \in Tree
    <2>1. a \in 1 .. n - 1
        BY <1>1 DEF Below, Ancestors
    <2> QED
        BY <1>0, <2>1
<1>2. ASSUME NEW p \in Tree, NEW n \in Tree, Below(p, n)
      PROVE  \E c \in Tree \ {1} : Parent(c) = p /\ (c = n \/ Below(c, n))
    <2> DEFINE S == {c \in Tree : p < c /\ (c = n \/ Below(c, n))}
    <2>1. p < n /\ n \in S /\ S \in SUBSET Nat
        BY <1>0, <1>2, BelowFacts
    <2>2. PICK c \in S : \A d \in S : c <= d
        <3> DEFINE s == InOrder(S)
        <3>1. IsFiniteSet(Tree) /\ S \in SUBSET Tree
            BY <1>0, FS_Interval
        <3> HIDE DEF S
        <3>2. IsFiniteSet(S)
            BY <3>1, FS_Subset
        <3>3. /\ s \in Seq(S) /\ \A i, j \in DOMAIN s : i < j => s[i] < s[j]
              /\ \A d \in S : \E i \in DOMAIN s : s[i] = d
            BY <2>1, <3>2, InOrderFacts
        <3> HIDE DEF s
        <3>4. DOMAIN s = 1 .. Len(s) /\ Len(s) \in Nat /\ \A i \in DOMAIN s : s[i] \in S /\ s[i] \in Nat
            BY <2>1, <3>3, LenProperties, ElementOfSeq
        <3>5. 1 \in DOMAIN s
            BY <2>1, <3>3, <3>4
        <3>6. \A i \in DOMAIN s : s[1] <= s[i]
            BY <3>3, <3>4, <3>5
        <3> QED
            BY <3>3, <3>4, <3>5, <3>6
    <2>3. c \in Tree /\ c # 1 /\ (c = n \/ Below(c, n)) /\ p < c
        BY <1>0, <2>2
    <2>4. Parent(c) \in Tree /\ Parent(c) < c /\ Below(Parent(c), c)
        BY <1>0, <2>3, BelowFacts
    <2>5. Below(Parent(c), n)
        BY <2>3, <2>4, BelowFacts
    <2>6. ~(p < Parent(c))
        BY <1>0, <2>2, <2>3, <2>4, <2>5
    <2>7. Below(p, c)
        BY <1>2, <2>3, BelowFacts
    <2>8. p = Parent(c) \/ p < Parent(c)
        BY <2>3, <2>4, <2>7, BelowFacts
    <2> QED
        BY <2>3, <2>6, <2>8
<1> QED
    BY <1>1, <1>2

LEMMA DefProcGoesDown ==
    ASSUME program \in Programs, NEW m \in Tree, NEW n \in Tree, Below(m, n), InDefProc(m)
    PROVE  InDefProc(n)
<1>1. PICK a : Below(a, m) /\ Type(a) = "defProc"
    BY DEF InDefProc, Below
<1>2. Below(a, n)
    BY <1>1, MoreBelow, BelowFacts
<1> QED
    BY <1>1, <1>2 DEF InDefProc, Below

(* New symbols do not change the scope of what is not below them.          *)
LEMMA Unmoved ==
    ASSUME NEW old, NEW ns, Sequence(old), Sequence(ns), 1 \in DOMAIN old,
           \A i \in DOMAIN ns : ns[i].kind # "namespace", NEW b,
           \A i \in DOMAIN ns : Encloses(ns[i]) => ~Below(ns[i].at, b),
           NEW id, IsScope(old, id, b)
    PROVE  IsScope(old \o ns, id, b)
<1> DEFINE all == old \o ns
<1>1. /\ Len(old) \in Nat \ {0} /\ DOMAIN old = 1 .. Len(old)
      /\ Len(ns) \in Nat /\ DOMAIN ns = 1 .. Len(ns)
      /\ Sequence(all) /\ DOMAIN all = 1 .. Len(old) + Len(ns)
      /\ \A i \in DOMAIN all : \/ i \in DOMAIN old /\ all[i] = old[i]
                               \/ i > Len(old) /\ i - Len(old) \in DOMAIN ns /\ all[i] = ns[i - Len(old)]
    BY ConcatFacts
<1> HIDE DEF all
<1>2. \A i \in DOMAIN old : i \in DOMAIN all /\ all[i] = old[i]
    BY <1>1
<1>3. Above(all, b) = Above(old, b)
    BY <1>1, <1>2 DEF Above
<1>4. Outermost(all) = Outermost(old)
    <2>1. Len(all) \in Nat /\ DOMAIN all = 1 .. Len(all)
        BY <1>1, SequenceLength
    <2>2. Len(all) > 1 <=> 2 \in DOMAIN all
        BY <2>1
    <2>3. Len(old) > 1 <=> 2 \in DOMAIN old
        BY <1>1
    <2>4. 2 \in DOMAIN all /\ 2 \notin DOMAIN old => all[2].kind # "namespace"
        BY <1>1
    <2> QED
        BY <1>2, <2>2, <2>3, <2>4 DEF Outermost
<1>5. \A i \in Above(old, b) : all[i] = old[i]
    BY <1>2 DEF Above
<1> QED
    BY <1>3, <1>4, <1>5 DEF IsScope, all
-----------------------------------------------------------------------------
(* Where the symbols and references are that there are already.            *)
Walking ==
    /\ WalkInv /\ agenda # <<>> /\ Head(agenda).do # "pop"
    /\ program' = program

At(e) == e \in Tree /\ (e = This \/ Below(This, e))

LEMMA OldSymbols ==
    ASSUME Walking, NEW i \in DOMAIN nodes
    PROVE  LET a == nodes[i].at
           IN  \/ a = 1
               \/ a \in Tree \ {1} /\ Parent(a) = 1 /\ nodes[i].kind = "namespace"
               \/ a \in Tree /\ a < This /\ Owner(a) = a
               \/ Contract(a) /\ Parent(Parent(a)) \in Tree /\ Parent(Parent(a)) < This
<1> DEFINE a == nodes[i].at
<1>1. a = 1 \/ Type(a) \in language.packageTypes \/ Past(Owner(a))
    BY DEF Walking, WalkInv, OnceInv, SymbolsArePast
<1>2. agenda[1].do # "pop" /\ This = agenda[1].on /\ 1 \in DOMAIN agenda
    BY TailFacts DEF Walking, WalkInv, OnceInv, InTextOrder, This
<1>3. \A b : Past(b) => b \in Tree /\ b < This
    BY <1>2 DEF Past, Before
<1>4. Type(a) \in language.packageTypes => a \in Tree \ {1} /\ Parent(a) = 1 /\ nodes[i].kind = "namespace"
    BY DEF Walking, WalkInv, ScopeInv, RootsAreFirst
<1>5. Owner(a) # a => Contract(a) /\ Owner(a) = Parent(Parent(a))
    BY DEF Walking, WalkInv, ScopeInv, MembersAreInAliases, Owner, IsMember
<1> HIDE DEF a
<1>6. Past(Owner(a)) => \/ a \in Tree /\ a < This /\ Owner(a) = a
                        \/ Contract(a) /\ Parent(Parent(a)) \in Tree /\ Parent(Parent(a)) < This
    BY <1>3, <1>5
<1> QED
    BY <1>1, <1>4, <1>6 DEF a

LEMMA NotAbove ==
    ASSUME Walking, NEW x, At(x), x # 1, Type(x) # "objtype"
    PROVE  /\ \A i \in DOMAIN nodes : ~Below(x, nodes[i].at)
           /\ \A i \in DOMAIN references :
                 IsCalling(references[i].kind) => ~Below(x, references[i].at)
           /\ \A b \in Tree : Apart(This, b) => ~Below(x, b)
<1>0. /\ program \in Programs /\ This \in Tree /\ x \in Tree /\ Tree \subseteq Nat
      /\ (x = This \/ Below(This, x))
    BY HeadFacts, TreeFacts DEF Walking, WalkInv, OnceInv, At
<1>1. /\ This <= x
      /\ \A n \in Tree : Below(x, n) => x < n
      /\ \A n \in Tree : Below(x, n) => x = Parent(n) \/ Below(x, Parent(n))
    BY <1>0, BelowFacts
<1>2. 1 \in Tree /\ ~Below(x, 1)
    <2>1. 1 \in Tree /\ x >= 1
        BY <1>0, TreeFacts
    <2> QED
        BY <1>0, <1>1, <2>1
<1>3. \A b \in Tree : b < This => ~Below(x, b)
    BY <1>0, <1>1
<1>4. ASSUME NEW i \in DOMAIN nodes PROVE ~Below(x, nodes[i].at)
    <2> DEFINE a == nodes[i].at
    <2>1. \/ a = 1
          \/ a \in Tree \ {1} /\ Parent(a) = 1 /\ nodes[i].kind = "namespace"
          \/ a \in Tree /\ a < This /\ Owner(a) = a
          \/ Contract(a) /\ Parent(Parent(a)) \in Tree /\ Parent(Parent(a)) < This
        BY OldSymbols
    <2> HIDE DEF a
    <2>2. CASE a \in Tree \ {1} /\ Parent(a) = 1
        BY <1>1, <1>2, <2>2 DEF a
    <2>3. CASE Contract(a) /\ Parent(Parent(a)) \in Tree /\ Parent(Parent(a)) < This
        <3>1. a \in Tree /\ Parent(a) \in Tree /\ x # Parent(a) /\ x # Parent(Parent(a))
            BY <1>0, <1>1, <2>3 DEF Contract
        <3> QED
            BY <1>1, <1>3, <2>3, <3>1 DEF a
    <2> QED
        BY <1>2, <1>3, <2>1, <2>2, <2>3 DEF a
<1>5. ASSUME NEW i \in DOMAIN references, IsCalling(references[i].kind)
      PROVE  ~Below(x, references[i].at)
    <2>1. PICK n \in Tree : Claims(n, references[i].kind, references[i].at) /\ Past(n)
        BY <1>5 DEF Walking, WalkInv, OnceInv, ReferencesArePast, IsCalling
    <2>2. n = references[i].at
        BY <1>5, <2>1 DEF Claims, IsCalling
    <2>3. agenda[1].do # "pop" /\ This = agenda[1].on /\ 1 \in DOMAIN agenda
        BY TailFacts DEF Walking, WalkInv, OnceInv, InTextOrder, This
    <2>4. n < This
        BY <2>1, <2>3 DEF Past, Before
    <2> QED
        BY <1>3, <2>2, <2>4
<1>6. ASSUME NEW b \in Tree, Apart(This, b) PROVE ~Below(x, b)
    <2>1. ~Below(This, b)
        BY <1>6 DEF Apart
    <2> QED
        BY <1>0, <2>1, BelowFacts
<1> QED
    BY <1>4, <1>5, <1>6

(* Going down from this node, no scope there is comes in between.          *)
LEMMA Descend ==
    ASSUME Walking, NEW t, At(t)
    PROVE  /\ \A i \in Above(nodes, t) : nodes[i].at < This
           /\ \A id : IsScope(nodes, id, This) => IsScope(nodes, id, t)
<1>0. /\ program \in Programs /\ This \in Tree /\ t \in Tree /\ Tree \subseteq Nat
      /\ (t = This \/ Below(This, t))
    BY HeadFacts, TreeFacts DEF Walking, WalkInv, OnceInv, At
<1>1. ASSUME NEW i \in Above(nodes, t) PROVE nodes[i].at \in Tree /\ nodes[i].at < This
    <2> DEFINE a == nodes[i].at
    <2>1. i \in DOMAIN nodes /\ nodes[i].kind \in Scopes \ {"namespace"} /\ Below(a, t) /\ ~IsMember(a)
        BY DEF Above, Encloses
    <2>2. \/ a = 1
          \/ a \in Tree \ {1} /\ Parent(a) = 1 /\ nodes[i].kind = "namespace"
          \/ a \in Tree /\ a < This /\ Owner(a) = a
          \/ Contract(a) /\ Parent(Parent(a)) \in Tree /\ Parent(Parent(a)) < This
        BY <2>1, OldSymbols
    <2>3. a # 1
        BY <2>1 DEF Walking, WalkInv, ScopeInv, RootsAreFirst, Scopes
    <2> HIDE DEF a
    <2>4. ~Contract(a)
        BY <2>1 DEF Contract, a
    <2> QED
        BY <2>1, <2>2, <2>3, <2>4 DEF a
<1>2. CASE t = This
    BY <1>1, <1>2
<1>3. CASE Below(This, t)
    <2>1. \A a \in Tree : a < This => (Below(a, t) <=> Below(a, This))
        BY <1>0, <1>3, BelowFacts
    <2>2. \A i \in DOMAIN nodes : Below(nodes[i].at, This) => nodes[i].at \in Tree /\ nodes[i].at < This
        BY <1>0, MoreBelow, BelowFacts
    <2>3. Above(nodes, t) = Above(nodes, This)
        <3>1. \A i \in Above(nodes, t) : i \in Above(nodes, This)
            BY <1>1, <2>1 DEF Above
        <3>2. \A i \in Above(nodes, This) : i \in Above(nodes, t)
            BY <2>1, <2>2 DEF Above
        <3> QED
            BY <3>1, <3>2
    <2> QED
        BY <1>1, <2>3 DEF IsScope
<1> QED
    BY <1>0, <1>2, <1>3
-----------------------------------------------------------------------------
(* A step of the walk, by the scopes it leaves: what each new symbol and   *)
(* reference belongs to, which scope is open for the new tasks, and that   *)
(* what the body of a function is owed is paid or still to be done.        *)
TopAfter == nodeStack'[Len(nodeStack')]

Fits(s) ==
    /\ s.kind # "namespace" /\ At(s.at) /\ s.at # 1
    /\ Owner(s.at) # s.at => Contract(s.at)
    /\ s.kind \in Scopes => Type(s.at) # "objtype"
    /\ Placed(nodes', edges', s)

Begins(s, tasks) ==
    s.kind \in {"function", "method"} /\ Type(s.at) # "signature" =>
       /\ TopAfter = s.id
       /\ \A m \in DOMAIN Body(s.at) :
             /\ Body(s.at)[m] \in Tree /\ Below(s.at, Body(s.at)[m])
             /\ \E j \in DOMAIN tasks : tasks[j].do = "body" /\ tasks[j].on = Body(s.at)[m]

Pays(tasks, rs) ==
    Head(agenda).do = "body" =>
       /\ Type(This) \in Calls => Made(rs, Top, This)
       /\ IsTransparent(This) =>
             /\ TopAfter = Top
             /\ \A c \in Tree : Parent(c) = This =>
                   \E j \in DOMAIN tasks : tasks[j].do = "body" /\ tasks[j].on = c

Attributes(tasks, ns, rs) ==
    /\ Schedules(tasks, nodeStack, nodeStack')
    /\ Sequence(edges') /\ \A j \in DOMAIN edges : j \in DOMAIN edges' /\ edges'[j] = edges[j]
    /\ \A j \in DOMAIN tasks : Held(nodes', tasks[j], TopAfter)
    /\ \A i \in DOMAIN ns : Fits(ns[i]) /\ Begins(ns[i], tasks)
    /\ \A i \in DOMAIN rs : Sent(nodes', rs[i])
    /\ Pays(tasks, rs)

(* What the new lists hold.                                                *)
Grows(old, ns, all) ==
    /\ \A i \in DOMAIN old : i \in DOMAIN all /\ all[i] = old[i]
    /\ \A i \in DOMAIN ns : \E j \in DOMAIN all : all[j] = ns[i]
    /\ \A i \in DOMAIN all : \/ i \in DOMAIN old /\ all[i] = old[i]
                             \/ \E j \in DOMAIN ns : all[i] = ns[j]

LEMMA Concatenation ==
    ASSUME NEW s, NEW t, Sequence(s), Sequence(t)
    PROVE  Grows(s, t, s \o t)
<1>1. PICK S : s \in Seq(S)
    BY DEF Sequence
<1>2. PICK T : t \in Seq(T)
    BY DEF Sequence
<1>3. s \in Seq(S \cup T) /\ t \in Seq(S \cup T)
    BY <1>1, <1>2, SeqMonotonic
<1>4. /\ Len(s \o t) = Len(s) + Len(t) /\ DOMAIN (s \o t) = 1 .. Len(s) + Len(t)
      /\ \A i \in 1 .. Len(s) + Len(t) : (s \o t)[i] = IF i <= Len(s) THEN s[i] ELSE t[i - Len(s)]
    BY <1>3, ConcatProperties, LenProperties
<1>5. Len(s) \in Nat /\ DOMAIN s = 1 .. Len(s) /\ Len(t) \in Nat /\ DOMAIN t = 1 .. Len(t)
    BY <1>3, LenProperties
<1> DEFINE all == s \o t
<1> HIDE DEF all
<1>6. \A i \in DOMAIN s : i \in DOMAIN all /\ all[i] = s[i]
    BY <1>4, <1>5 DEF all
<1>7. ASSUME NEW i \in DOMAIN t PROVE \E j \in DOMAIN all : all[j] = t[i]
    <2>1. Len(s) + i \in DOMAIN all /\ all[Len(s) + i] = t[i]
        BY <1>4, <1>5 DEF all
    <2> QED
        BY <2>1
<1>8. ASSUME NEW i \in DOMAIN all, i \notin DOMAIN s PROVE \E j \in DOMAIN t : all[i] = t[j]
    <2>1. i - Len(s) \in DOMAIN t /\ all[i] = t[i - Len(s)]
        BY <1>4, <1>5, <1>8 DEF all
    <2> QED
        BY <2>1
<1> QED
    BY <1>6, <1>7, <1>8 DEF Grows, all

(* What is not below a new scope has the scope it had.                     *)
LEMMA StillScope ==
    ASSUME Walking, NEW ns, Sequence(ns), nodes' = nodes \o ns, \A i \in DOMAIN ns : Fits(ns[i]),
           NEW b,
           \/ \E i \in DOMAIN nodes : b = nodes[i].at
           \/ \E i \in DOMAIN references : b = references[i].at /\ IsCalling(references[i].kind)
           \/ b \in Tree /\ Apart(This, b),
           NEW id, IsScope(nodes, id, b)
    PROVE  IsScope(nodes', id, b)
<1>1. Sequence(nodes) /\ 1 \in DOMAIN nodes
    BY DEF Walking, WalkInv, OnceInv, ScopeInv, RootsAreFirst
<1>2. \A i \in DOMAIN ns : ns[i].kind # "namespace"
    BY DEF Fits
<1>3. \A i \in DOMAIN ns : Encloses(ns[i]) => ~Below(ns[i].at, b)
    <2>1. ASSUME NEW i \in DOMAIN ns, Encloses(ns[i]) PROVE ~Below(ns[i].at, b)
        <3>1. At(ns[i].at) /\ ns[i].at # 1 /\ Type(ns[i].at) # "objtype"
            BY <2>1 DEF Fits, Encloses
        <3> QED
            BY <3>1, NotAbove
    <2> QED
        BY <2>1
<1>4. IsScope(nodes \o ns, id, b)
    BY <1>1, <1>2, <1>3, Unmoved
<1> QED
    BY <1>4

LEMMA SymbolsStep ==
    ASSUME Walking, NEW tasks, NEW ns, NEW rs, Extracts(This, tasks, ns, rs), Attributes(tasks, ns, rs)
    PROVE  RootsAreFirst' /\ MembersAreInAliases' /\ SymbolsAreScoped'
<1>1. /\ program' = program /\ nodes' = nodes \o ns /\ Sequence(ns) /\ Sequence(nodes)
      /\ \A i \in DOMAIN ns : ns[i].at # 1 /\ Type(ns[i].at) \notin language.packageTypes
    BY DEF Extracts, NewSymbols, Walking, WalkInv, OnceInv
<1>2. /\ \A i \in DOMAIN ns : Fits(ns[i])
      /\ \A j \in DOMAIN edges : j \in DOMAIN edges' /\ edges'[j] = edges[j]
    BY DEF Attributes
<1>3. Grows(nodes, ns, nodes')
    BY <1>1, Concatenation
<1>4. \A i \in DOMAIN nodes' : \/ i \in DOMAIN nodes /\ nodes'[i] = nodes[i]
                               \/ \E j \in DOMAIN ns : nodes'[i] = ns[j]
    BY <1>3 DEF Grows
<1>5. RootsAreFirst'
    <2>1. 1 \in DOMAIN nodes'
        BY <1>3 DEF Grows, Walking, WalkInv, ScopeInv, RootsAreFirst
    <2>2. \A j \in DOMAIN ns : ns[j].kind # "namespace"
        BY <1>2 DEF Fits
    <2>3. /\ \A i \in DOMAIN nodes : nodes[i].at = 1 => nodes[i].kind = "file"
          /\ \A i \in DOMAIN nodes :
                nodes[i].kind = "namespace" \/ Type(nodes[i].at) \in language.packageTypes =>
                   /\ i = 2 /\ nodes[i].kind = "namespace" /\ Type(nodes[i].at) \in language.packageTypes
                   /\ nodes[i].at \in Tree \ {1} /\ Parent(nodes[i].at) = 1
        BY DEF Walking, WalkInv, ScopeInv, RootsAreFirst
    <2>4. \A i \in DOMAIN nodes' : nodes'[i].at = 1 => nodes'[i].kind = "file"
        BY <1>1, <1>4, <2>3
    <2>5. \A i \in DOMAIN nodes' :
             nodes'[i].kind = "namespace" \/ Type(nodes'[i].at) \in language.packageTypes =>
                /\ i = 2 /\ nodes'[i].kind = "namespace" /\ Type(nodes'[i].at) \in language.packageTypes
                /\ nodes'[i].at \in Tree \ {1} /\ Parent(nodes'[i].at) = 1
        BY <1>1, <1>4, <2>2, <2>3
    <2> QED
        BY <1>1, <2>1, <2>4, <2>5, TreeStays, ScopesStay DEF RootsAreFirst
<1>6. MembersAreInAliases'
    <2>1. \A i \in DOMAIN nodes : Owner(nodes[i].at) # nodes[i].at => Contract(nodes[i].at)
        BY DEF Walking, WalkInv, ScopeInv, MembersAreInAliases
    <2>2. \A i \in DOMAIN ns : Owner(ns[i].at) # ns[i].at => Contract(ns[i].at)
        BY <1>2 DEF Fits
    <2>3. \A i \in DOMAIN nodes' : Owner(nodes'[i].at) # nodes'[i].at => Contract(nodes'[i].at)
        BY <1>4, <2>1, <2>2
    <2> QED
        BY <1>1, <2>3, TreeStays, ScopesStay DEF MembersAreInAliases
<1>7. SymbolsAreScoped'
    <2>1. ASSUME NEW i \in DOMAIN nodes, nodes[i].at # 1 PROVE Placed(nodes', edges', nodes[i])
        <3>1. Placed(nodes, edges, nodes[i])
            BY <2>1 DEF Walking, WalkInv, ScopeInv, SymbolsAreScoped
        <3>2. PICK from : HasEdge(edges, from, nodes[i].id) /\ BelongsTo(nodes, from, nodes[i])
            BY <3>1 DEF Placed
        <3>3. HasEdge(edges', from, nodes[i].id)
            BY <1>2, <3>2 DEF HasEdge
        <3>4. IsScope(nodes, from, nodes[i].at) => IsScope(nodes', from, nodes[i].at)
            BY <1>1, <1>2, StillScope
        <3>5. \A j \in DOMAIN nodes : j \in DOMAIN nodes' /\ nodes'[j] = nodes[j]
            BY <1>3 DEF Grows
        <3>6. BelongsTo(nodes', from, nodes[i])
            BY <3>2, <3>4, <3>5 DEF BelongsTo
        <3> QED
            BY <3>3, <3>6 DEF Placed
    <2>2. \A j \in DOMAIN ns : Placed(nodes', edges', ns[j])
        BY <1>2 DEF Fits
    <2>3. \A i \in DOMAIN nodes' : nodes'[i].at # 1 => Placed(nodes', edges', nodes'[i])
        BY <1>4, <2>1, <2>2
    <2> QED
        BY <1>1, <2>3, ScopesStay DEF SymbolsAreScoped
<1> QED
    BY <1>5, <1>6, <1>7

LEMMA ReferencesStep ==
    ASSUME Walking, NEW tasks, NEW ns, NEW rs, Extracts(This, tasks, ns, rs), Attributes(tasks, ns, rs)
    PROVE  ReferencesAreScoped'
<1>1. /\ program' = program /\ nodes' = nodes \o ns /\ Sequence(ns)
      /\ references' = references \o rs /\ Sequence(references) /\ Sequence(rs)
    BY DEF Extracts, NewSymbols, NewReferences, Walking, WalkInv, OnceInv
<1>2. \A i \in DOMAIN ns : Fits(ns[i])
    BY DEF Attributes
<1>3. Grows(references, rs, references')
    BY <1>1, Concatenation
<1>4. ASSUME NEW i \in DOMAIN references PROVE Sent(nodes', references[i])
    <2>1. Sent(nodes, references[i])
        BY DEF Walking, WalkInv, ScopeInv, ReferencesAreScoped
    <2> QED
        BY <1>1, <1>2, <2>1, StillScope DEF Sent
<1>5. \A i \in DOMAIN rs : Sent(nodes', rs[i])
    BY DEF Attributes
<1>6. \A i \in DOMAIN references' : Sent(nodes', references'[i])
    BY <1>3, <1>4, <1>5 DEF Grows
<1> QED
    BY <1>1, <1>6, ScopesStay DEF ReferencesAreScoped

LEMMA TasksStep ==
    ASSUME Walking, NEW tasks, NEW ns, NEW rs, Extracts(This, tasks, ns, rs), Attributes(tasks, ns, rs),
           NEW level, TasksAreHeld(level), NEW after,
           Carries(level, agenda, nodeStack, tasks, after, agenda', nodeStack')
    PROVE  TasksAreHeld(after)'
<1>1. /\ program' = program /\ nodes' = nodes \o ns /\ Sequence(ns) /\ \A i \in DOMAIN ns : Fits(ns[i])
    BY DEF Extracts, NewSymbols, Attributes
<1>2. ASSUME NEW j \in DOMAIN agenda' PROVE Held(nodes', agenda'[j], nodeStack'[after[j]])
    <2>1. CASE j \in DOMAIN tasks
        <3>1. agenda'[j] = tasks[j] /\ nodeStack'[after[j]] = TopAfter
            BY <2>1 DEF Carries, TopAfter
        <3> QED
            BY <2>1, <3>1 DEF Attributes
    <2>2. CASE j \notin DOMAIN tasks
        <3>1. PICK i \in DOMAIN agenda : /\ i # 1 /\ agenda'[j] = agenda[i]
                                         /\ nodeStack'[after[j]] = nodeStack[level[i]]
            BY <2>2 DEF Carries
        <3>2. Held(nodes, agenda[i], nodeStack[level[i]])
            BY DEF TasksAreHeld
        <3>3. agenda[i].do # "pop" => agenda[i].on \in Tree /\ Apart(This, agenda[i].on)
            <4>1. /\ Sequence(agenda) /\ Head(agenda) = agenda[1] /\ 1 \in DOMAIN agenda
                BY TailFacts DEF Walking, WalkInv, OnceInv, InTextOrder
            <4>2. DOMAIN agenda \subseteq Nat \ {0}
                BY <4>1, SequenceLength
            <4>3. 1 < i
                BY <3>1, <4>2
            <4> QED
                BY <4>1, <4>3 DEF Walking, WalkInv, OnceInv, InTextOrder, This
        <3>4. Held(nodes', agenda[i], nodeStack[level[i]])
            BY <1>1, <3>2, <3>3, StillScope DEF Held
        <3> QED
            BY <3>1, <3>4
    <2> QED
        BY <2>1, <2>2
<1>3. \A j \in DOMAIN agenda' : Held(nodes', agenda'[j], nodeStack'[after[j]])
    BY <1>2
<1> QED
    BY <1>1, <1>3, ScopesStay DEF TasksAreHeld

LEMMA CallsStep ==
    ASSUME Walking, NEW tasks, NEW ns, NEW rs, Extracts(This, tasks, ns, rs), Attributes(tasks, ns, rs),
           NEW level, CallsAreOwed(level), nodeStack[level[1]] = Top, NEW after,
           Carries(level, agenda, nodeStack, tasks, after, agenda', nodeStack')
    PROVE  CallsAreOwed(after)'
<1> DEFINE Owed(s, n) == \E k \in DOMAIN agenda' : Owes(agenda'[k], nodeStack'[after[k]], s, n)
<1>1. /\ program' = program /\ nodes' = nodes \o ns /\ Sequence(ns) /\ Sequence(nodes)
      /\ references' = references \o rs /\ Sequence(references) /\ Sequence(rs)
      /\ program \in Programs /\ This \in Tree
    BY HeadFacts DEF Extracts, NewSymbols, NewReferences, Walking, WalkInv, OnceInv
<1>2. /\ \A i \in DOMAIN ns : Begins(ns[i], tasks)
      /\ Pays(tasks, rs)
    BY DEF Attributes
<1>3. Grows(references, rs, references') /\ Grows(nodes, ns, nodes')
    BY <1>1, Concatenation
<1>4. \A j \in DOMAIN tasks :
         j \in DOMAIN agenda' /\ agenda'[j] = tasks[j] /\ nodeStack'[after[j]] = TopAfter
    BY DEF Carries, TopAfter
<1>5. ASSUME NEW i \in DOMAIN nodes, NEW n, OwnCall(nodes[i], n)
      PROVE  Made(references', nodes[i].id, n) \/ Owed(nodes[i], n)
    <2> DEFINE s == nodes[i]
    <2>1. CASE Made(references, s.id, n)
        BY <1>3, <2>1 DEF Made, Grows
    <2>2. CASE \E k \in DOMAIN agenda : k # 1 /\ Owes(agenda[k], nodeStack[level[k]], s, n)
        <3>1. PICK k \in DOMAIN agenda : k # 1 /\ Owes(agenda[k], nodeStack[level[k]], s, n)
            BY <2>2
        <3>2. PICK j \in DOMAIN agenda' : agenda'[j] = agenda[k] /\ nodeStack'[after[j]] = nodeStack[level[k]]
            BY <3>1 DEF Carries
        <3> QED
            BY <3>1, <3>2
    <2>3. CASE 1 \in DOMAIN agenda /\ Owes(agenda[1], nodeStack[level[1]], s, n)
        <3>1. Head(agenda) = agenda[1]
            BY TailFacts DEF Walking, WalkInv, OnceInv, InTextOrder
        <3>2. /\ Head(agenda).do = "body" /\ Top = s.id /\ (This = n \/ Below(This, n))
              /\ Below(s.at, This)
            BY <2>3, <3>1 DEF Owes, This
        <3>3. n \in Tree /\ Type(n) \in Calls /\ InBodyItself(n, s.at)
            BY <1>5 DEF OwnCall
        <3> HIDE DEF s
        <3>4. CASE This = n
            <4>1. Made(rs, Top, n)
                BY <1>2, <3>2, <3>3, <3>4 DEF Pays
            <4>2. Made(references', s.id, n)
                BY <1>3, <3>2, <4>1 DEF Made, Grows
            <4> QED
                BY <4>2 DEF s
        <3>5. CASE Below(This, n)
            <4>1. IsTransparent(This)
                BY <3>2, <3>3, <3>5 DEF InBodyItself, Below
            <4>2. PICK c \in Tree \ {1} : Parent(c) = This /\ (c = n \/ Below(c, n))
                BY <1>1, <3>3, <3>5, MoreBelow
            <4>3. PICK j \in DOMAIN tasks : tasks[j].do = "body" /\ tasks[j].on = c
                BY <1>2, <3>2, <4>1, <4>2 DEF Pays
            <4>4. TopAfter = s.id
                BY <1>2, <3>2, <4>1 DEF Pays
            <4>5. Below(s.at, c)
                BY <1>1, <3>2, <4>2, MoreBelow, BelowFacts
            <4>6. Owes(agenda'[j], nodeStack'[after[j]], s, n) /\ j \in DOMAIN agenda'
                BY <1>4, <4>2, <4>3, <4>4, <4>5 DEF Owes
            <4> QED
                BY <4>6 DEF s
        <3> QED
            BY <3>2, <3>4, <3>5
    <2> QED
        BY <1>5, <2>1, <2>2, <2>3 DEF CallsAreOwed
<1>6. ASSUME NEW i \in DOMAIN ns, NEW n, OwnCall(ns[i], n)
      PROVE  Owed(ns[i], n)
    <2> DEFINE s == ns[i]
    <2>1. s.kind \in {"function", "method"} /\ Type(s.at) # "signature" /\ n \in Tree /\ InBodyItself(n, s.at)
        BY <1>6 DEF OwnCall
    <2>2. /\ TopAfter = s.id
          /\ \A m \in DOMAIN Body(s.at) :
                /\ Body(s.at)[m] \in Tree /\ Below(s.at, Body(s.at)[m])
                /\ \E j \in DOMAIN tasks : tasks[j].do = "body" /\ tasks[j].on = Body(s.at)[m]
        BY <1>2, <2>1 DEF Begins
    <2> HIDE DEF s
    <2>3. PICK m \in DOMAIN Body(s.at) : Body(s.at)[m] = n \/ Below(Body(s.at)[m], n)
        BY <2>1 DEF InBodyItself, Below
    <2>4. PICK j \in DOMAIN tasks : tasks[j].do = "body" /\ tasks[j].on = Body(s.at)[m]
        BY <2>2, <2>3
    <2>5. Owes(agenda'[j], nodeStack'[after[j]], s, n) /\ j \in DOMAIN agenda'
        BY <1>4, <2>2, <2>3, <2>4 DEF Owes
    <2> QED
        BY <2>5 DEF s
<1>7. \A i \in DOMAIN nodes' : \A n : OwnCall(nodes'[i], n) =>
         Made(references', nodes'[i].id, n) \/ Owed(nodes'[i], n)
    <2> HIDE DEF Owed
    <2> QED
        BY <1>3, <1>5, <1>6 DEF Grows
<1> QED
    BY <1>1, <1>7, ScopesStay DEF CallsAreOwed, Made

LEMMA WalkStep ==
    ASSUME Walking, NEW tasks, NEW ns, NEW rs, Extracts(This, tasks, ns, rs), Attributes(tasks, ns, rs)
    PROVE  WalkInv'
<1>1. OnceInv'
    BY OnceStep DEF Walking, WalkInv
<1>2. PICK level : Layers(level, agenda, nodeStack) /\ TasksAreHeld(level) /\ CallsAreOwed(level)
    BY DEF Walking, WalkInv, ScopeInv
<1>3. /\ Sequence(agenda) /\ agenda # <<>> /\ Sequence(nodeStack) /\ agenda[1].do # "pop" /\ 1 \in DOMAIN agenda
      /\ agenda' = tasks \o Tail(agenda) /\ Schedules(tasks, nodeStack, nodeStack')
    BY TailFacts DEF Walking, WalkInv, OnceInv, InTextOrder, ScopeInv, Extracts, Attributes
<1>4. PICK after : /\ Layers(after, agenda', nodeStack')
                   /\ Carries(level, agenda, nodeStack, tasks, after, agenda', nodeStack')
    BY <1>2, <1>3, LayersStep
<1>5. nodeStack[level[1]] = Top
    BY <1>2, <1>3 DEF Layers, Top
<1>6. TasksAreHeld(after)'
    BY <1>2, <1>4, TasksStep
<1>7. CallsAreOwed(after)'
    BY <1>2, <1>4, <1>5, CallsStep
<1>8. Layers(after, agenda, nodeStack)'
    BY <1>4 DEF Layers
<1>9. Sequence(nodeStack') /\ Sequence(edges')
    BY DEF Attributes, Schedules
<1>10. RootsAreFirst' /\ MembersAreInAliases' /\ SymbolsAreScoped' /\ ReferencesAreScoped'
    BY SymbolsStep, ReferencesStep
<1>11. ScopeInv'
    BY <1>6, <1>7, <1>8, <1>9, <1>10 DEF ScopeInv, Sequence
<1> QED
    BY <1>1, <1>11 DEF WalkInv
-----------------------------------------------------------------------------
(* The steps of the walk, by what they do to the agenda.                   *)
LEMMA Walks ==
    ASSUME Walking
    PROVE  /\ program \in Programs /\ At(This) /\ This \in Tree /\ Meant(Head(agenda))
           /\ nodes = nodes \o <<>> /\ references = references \o <<>>
           /\ Sequence(nodes) /\ Sequence(nodeStack) /\ Sequence(edges) /\ 1 \in DOMAIN nodes
<1>1. \A s : Sequence(s) => s = s \o <<>>
    BY DEF Sequence
<1> QED
    BY <1>1, HeadFacts DEF Walking, WalkInv, OnceInv, ScopeInv, RootsAreFirst, At

(* The scope on top is that of this node and of what is below it.          *)
LEMMA TopIs ==
    ASSUME Walking, NEW t, At(t)
    PROVE  \/ Head(agenda).do = "block" /\ InDefProc(t)
           \/ IsScope(nodes, Top, t)
<1>1. PICK level : Layers(level, agenda, nodeStack) /\ TasksAreHeld(level)
    BY DEF Walking, WalkInv, ScopeInv
<1>2. Head(agenda) = agenda[1] /\ 1 \in DOMAIN agenda
    BY TailFacts DEF Walking, WalkInv, OnceInv, InTextOrder
<1>3. level[1] = Len(nodeStack)
    BY <1>1, <1>2 DEF Layers
<1>4. Held(nodes, Head(agenda), Top)
    BY <1>1, <1>2, <1>3 DEF TasksAreHeld, Top
<1>5. \/ Head(agenda).do = "block" /\ InDefProc(This)
      \/ IsScope(nodes, Top, This)
    BY <1>4 DEF Held, Walking, This
<1>6. program \in Programs /\ This \in Tree
    BY Walks
<1>8. InDefProc(This) => InDefProc(t)
    BY <1>6, DefProcGoesDown DEF At
<1>9. IsScope(nodes, Top, This) => IsScope(nodes, Top, t)
    BY Descend
<1> QED
    BY <1>5, <1>8, <1>9

(* What the walk of a Pascal block meets is walked the same way.           *)
Blocks(tasks) == Head(agenda).do = "block" => \A i \in DOMAIN tasks : tasks[i].do = "block"

LEMMA HeldBelow ==
    ASSUME Walking, NEW tasks, Unfolds(This, tasks), Blocks(tasks),
           NEW ns, Sequence(ns), nodes' = nodes \o ns, \A i \in DOMAIN ns : ns[i].kind # "namespace" /\ ~Encloses(ns[i])
    PROVE  \A j \in DOMAIN tasks : Held(nodes', tasks[j], Top)
<1> SUFFICES ASSUME NEW j \in DOMAIN tasks, tasks[j].do # "pop"
             PROVE  Held(nodes', tasks[j], Top)
    BY DEF Held
<1>1. At(tasks[j].on)
    BY DEF Unfolds, InTextOrder, At
<1>2. CASE Head(agenda).do = "block" /\ InDefProc(tasks[j].on)
    BY <1>2 DEF Blocks, Held
<1>3. CASE IsScope(nodes, Top, tasks[j].on)
    <2>1. IsScope(nodes \o ns, Top, tasks[j].on)
        BY <1>3, Walks, Unmoved
    <2> QED
        BY <2>1 DEF Held
<1> QED
    BY <1>1, <1>2, <1>3, TopIs

(* What is made right under the scope on top.                              *)
LEMMA SentFromTop ==
    ASSUME Walking, NEW tasks, NEW rs, NewReferences(This, tasks, rs),
           NEW ns, Sequence(ns), nodes' = nodes \o ns, \A i \in DOMAIN ns : ns[i].kind # "namespace",
           \A i \in DOMAIN ns : \A k \in DOMAIN rs :
              Encloses(ns[i]) /\ IsCalling(rs[k].kind) => ~Below(ns[i].at, rs[k].at)
    PROVE  \A k \in DOMAIN rs : Sent(nodes', rs[k])
<1> SUFFICES ASSUME NEW k \in DOMAIN rs, IsCalling(rs[k].kind)
             PROVE  Sent(nodes', rs[k])
    BY DEF Sent
<1>1. rs[k].from = Top /\ Type(rs[k].at) \notin language.packageTypes
    BY DEF NewReferences, FromTop
<1>2. At(rs[k].at)
    <2>1. PICK m \in Tree : Claims(m, rs[k].kind, rs[k].at) /\ Reached(m, This, tasks)
        BY DEF NewReferences, IsCalling
    <2>2. m = rs[k].at
        BY <2>1 DEF Claims, IsCalling
    <2> QED
        BY <2>1, <2>2 DEF Reached, At
<1>3. InDefProc(rs[k].at) \/ IsScope(nodes, Top, rs[k].at)
    BY <1>1, <1>2, TopIs
<1>4. IsScope(nodes, Top, rs[k].at) => IsScope(nodes \o ns, Top, rs[k].at)
    BY Walks, Unmoved
<1> QED
    BY <1>1, <1>3, <1>4 DEF Sent

LEMMA PlacedUnderTop ==
    ASSUME Walking, Head(agenda).do # "block",
           NEW ns, Sequence(ns), nodes' = nodes \o ns, \A i \in DOMAIN ns : ns[i].kind # "namespace",
           NEW s, At(s.at), ~IsMember(s.at), HasEdge(edges', Top, s.id), s.kind # "namespace",
           \A i \in DOMAIN ns : Encloses(ns[i]) => ~Below(ns[i].at, s.at)
    PROVE  Placed(nodes', edges', s)
<1>1. IsScope(nodes, Top, s.at)
    BY TopIs
<1>2. IsScope(nodes \o ns, Top, s.at)
    BY <1>1, Walks, Unmoved
<1> QED
    BY <1>2 DEF Placed, BelongsTo

(* The stack as it was, or with one scope more that the last task closes.  *)
LEMMA SchedulesFlat ==
    ASSUME Walking, NEW tasks, Sequence(tasks), Flat(tasks), nodeStack' = nodeStack
    PROVE  Schedules(tasks, nodeStack, nodeStack') /\ TopAfter = Top
BY Walks DEF Schedules, Flat, TopAfter, Top

LEMMA SchedulesScope ==
    ASSUME Walking, NEW tasks, Sequence(tasks), Flat(tasks), NEW id,
           nodeStack' = Append(nodeStack, id)
    PROVE  /\ Schedules(tasks \o PopScope, nodeStack, nodeStack') /\ TopAfter = id
           /\ Grows(tasks, PopScope, tasks \o PopScope)
           /\ \A j \in DOMAIN PopScope : PopScope[j].do = "pop"
<1>1. PICK S : nodeStack \in Seq(S)
    BY Walks DEF Sequence
<1>2. nodeStack \in Seq(S \cup {id})
    BY <1>1, SeqMonotonic
<1>3. /\ nodeStack' \in Seq(S \cup {id})
      /\ Len(nodeStack') = Len(nodeStack) + 1
      /\ \A i \in 1 .. Len(nodeStack) : nodeStack'[i] = nodeStack[i]
      /\ nodeStack'[Len(nodeStack) + 1] = id
    BY <1>2, AppendProperties
<1>4. /\ Sequence(nodeStack') /\ DOMAIN nodeStack' = 1 .. Len(nodeStack')
      /\ DOMAIN nodeStack = 1 .. Len(nodeStack) /\ Len(nodeStack) \in Nat
    BY <1>1, <1>3, LenProperties DEF Sequence
<1>5. TopAfter = id
    BY <1>3 DEF TopAfter
<1>6. \A l \in DOMAIN nodeStack : l \in DOMAIN nodeStack' /\ nodeStack'[l] = nodeStack[l]
    BY <1>3, <1>4
<1>7. PopScope \in Seq({[do |-> "pop", on |-> 1]}) /\ Len(PopScope) = 1 /\ PopScope[1].do = "pop"
    BY DEF PopScope
<1>8. Sequence(PopScope) /\ DOMAIN PopScope = 1 .. 1
    BY <1>7, LenProperties DEF Sequence
<1> DEFINE all == tasks \o PopScope
<1>9. /\ Sequence(all) /\ Len(tasks) \in Nat /\ DOMAIN tasks = 1 .. Len(tasks)
      /\ DOMAIN all = 1 .. Len(tasks) + 1
      /\ \A i \in DOMAIN all : \/ i \in DOMAIN tasks /\ all[i] = tasks[i]
                               \/ i > Len(tasks) /\ i - Len(tasks) \in DOMAIN PopScope /\ all[i] = PopScope[i - Len(tasks)]
    <2>1. /\ Sequence(all) /\ Len(tasks) \in Nat /\ DOMAIN tasks = 1 .. Len(tasks)
          /\ DOMAIN all = 1 .. Len(tasks) + Len(PopScope)
          /\ \A i \in DOMAIN all :
                \/ i \in DOMAIN tasks /\ all[i] = tasks[i]
                \/ i > Len(tasks) /\ i - Len(tasks) \in DOMAIN PopScope /\ all[i] = PopScope[i - Len(tasks)]
        BY <1>8, ConcatFacts
    <2> HIDE DEF all
    <2> QED
        BY <1>7, <2>1
<1>10. Grows(tasks, PopScope, all)
    BY <1>8, Concatenation
<1>11. \A j \in DOMAIN PopScope : PopScope[j].do = "pop"
    BY <1>7, <1>8
<1> HIDE DEF all
<1>12. Len(all) = Len(tasks) + 1 /\ all # <<>>
    <2>1. Len(all) \in Nat /\ DOMAIN all = 1 .. Len(all)
        BY <1>9, SequenceLength
    <2>2. 1 \in DOMAIN all
        BY <1>9
    <2>3. Len(all) = Len(tasks) + 1
        BY <1>9, <2>1
    <2> QED
        BY <2>2, <2>3, NothingNew
<1>13. \A j \in DOMAIN all : all[j].do = "pop" <=> j = Len(all)
    <2>1. \A j \in DOMAIN all : j \in DOMAIN tasks => j # Len(all)
        BY <1>9, <1>12
    <2>2. \A j \in DOMAIN all : j > Len(tasks) => j = Len(all)
        BY <1>9, <1>12
    <2> QED
        BY <1>9, <1>11, <2>1, <2>2 DEF Flat
<1>14. Schedules(all, nodeStack, nodeStack')
    BY <1>3, <1>4, <1>6, <1>9, <1>12, <1>13 DEF Schedules
<1> QED
    BY <1>5, <1>10, <1>11, <1>14 DEF all

(* An edge from one symbol to a new one.                                   *)
Linked(from, to) ==
    /\ Sequence(edges') /\ \A j \in DOMAIN edges : j \in DOMAIN edges' /\ edges'[j] = edges[j]
    /\ HasEdge(edges', from, to)

LEMMA LinkedUnder ==
    ASSUME Walking, NEW s, CreateUnder(Top, <<s>>)
    PROVE  nodes' = nodes \o <<s>> /\ Linked(Top, s.id)
<1> DEFINE new == [i \in DOMAIN <<s>> |-> <<Top, <<s>>[i].id>>]
<1>1. nodes' = nodes \o <<s>> /\ edges' = edges \o new
    BY DEF CreateUnder
<1>2. DOMAIN <<s>> = 1 .. 1 /\ <<s>>[1] = s
    OBVIOUS
<1>3. DOMAIN new = 1 .. 1 /\ new[1] = <<Top, s.id>>
    BY <1>2
<1>4. new = [i \in 1 .. 1 |-> new[i]]
    BY <1>3
<1> HIDE DEF new
<1>5. Sequence(new)
    BY <1>4, IsSequence
<1>6. Grows(edges, new, edges') /\ Sequence(edges')
    BY <1>1, <1>5, Walks, Concatenation, ConcatFacts
<1>7. \A j \in DOMAIN edges : j \in DOMAIN edges' /\ edges'[j] = edges[j]
    BY <1>6 DEF Grows
<1>8. \E j \in DOMAIN edges' : edges'[j] = new[1]
    BY <1>3, <1>6 DEF Grows
<1>9. HasEdge(edges', Top, s.id)
    BY <1>3, <1>8 DEF HasEdge
<1> QED
    BY <1>1, <1>6, <1>7, <1>9 DEF Linked

LEMMA OneOf ==
    ASSUME NEW s
    PROVE  /\ Sequence(<<s>>) /\ DOMAIN <<s>> = {1} /\ <<s>>[1] = s
           /\ \A i \in DOMAIN <<s>> : <<s>>[i] = s
<1>1. <<s>> \in Seq({s}) /\ Len(<<s>>) = 1 /\ <<s>>[1] = s
    OBVIOUS
<1>2. DOMAIN <<s>> = {1}
    BY <1>1, LenProperties
<1> QED
    BY <1>1, <1>2 DEF Sequence

(* What is declared in a body is nothing that body is owed the calls of.   *)
Declaring ==
    /\ Head(agenda).do # "block"
    /\ Head(agenda).do = "body" => ~IsTransparent(This) /\ Type(This) \notin Calls

LEMMA DeclaringPays ==
    ASSUME Declaring
    PROVE  \A tasks, rs : Pays(tasks, rs) /\ Blocks(tasks)
BY DEF Declaring, Pays, Blocks

LEMMA Moves ==
    ASSUME Walking, NEW tasks, NEW rs, Unfolds(This, tasks), Flat(tasks), Blocks(tasks),
           NewReferences(This, tasks, rs), Pays(tasks, rs),
           Then(tasks), Add(rs), UNCHANGED <<nodeStack, nodes, edges>>
    PROVE  WalkInv'
<1>1. Extracts(This, tasks, <<>>, rs)
    BY Walks, NothingNew DEF Extracts, Then, Add, Walking
<1>2. Sequence(<<>>) /\ DOMAIN <<>> = {} /\ nodes' = nodes \o <<>> /\ Sequence(tasks)
    BY Walks, NothingNew DEF Unfolds, InTextOrder
<1>3. Schedules(tasks, nodeStack, nodeStack') /\ TopAfter = Top
    BY <1>2, SchedulesFlat
<1>4. \A j \in DOMAIN tasks : Held(nodes', tasks[j], Top)
    BY <1>2, HeldBelow
<1>5. \A k \in DOMAIN rs : Sent(nodes', rs[k])
    BY <1>2, SentFromTop
<1>6. Attributes(tasks, <<>>, rs)
    BY <1>2, <1>3, <1>4, <1>5, Walks DEF Attributes
<1> QED
    BY <1>1, <1>6, WalkStep

LEMMA MovesOnly ==
    ASSUME Walking, NEW tasks, Unfolds(This, tasks), Flat(tasks), Blocks(tasks), Pays(tasks, <<>>),
           Then(tasks), Keep
    PROVE  WalkInv'
<1>1. Add(<<>>) /\ UNCHANGED <<nodeStack, nodes, edges>>
    BY Walks DEF Add, Keep
<1> QED
    BY <1>1, Moves, NothingNew

(* A symbol that is no scope, or that nothing is walked in.                *)
IsLeaf(kind, tasks, rs) ==
    /\ kind \notin {"namespace", "function", "method"}
    /\ kind \in Scopes => tasks = <<>> /\ Silent(rs)

LEMMA Leaves ==
    ASSUME Walking, Declaring, NEW tasks, NEW rs, NEW e, NEW kind, NEW name, Type(e) \notin Plain,
           Unfolds(This, tasks), Flat(tasks), Reached(e, This, tasks), NewReferences(This, tasks, rs),
           IsLeaf(kind, tasks, rs), Leaf(Symbol(kind, name, e), tasks), Add(rs)
    PROVE  WalkInv'
<1> DEFINE s == Symbol(kind, name, e)
           ns == <<s>>
<1>0. program \in Programs /\ At(e) /\ e \in Tree /\ s.at = e /\ s.kind = kind
    BY Walks DEF Reached, At, Symbol
<1>1. NewSymbols(This, tasks, ns)
    BY <1>0, OneSymbol
<1>2. Sequence(ns) /\ \A i \in DOMAIN ns : ns[i] = s
    BY OneOf
<1>3. /\ nodes' = nodes \o ns /\ Linked(Top, s.id) /\ nodeStack' = nodeStack /\ Then(tasks)
      /\ Sequence(tasks)
    BY LinkedUnder DEF Leaf, Unfolds, InTextOrder
<1> HIDE DEF s, ns
<1>4. Extracts(This, tasks, ns, rs)
    BY <1>1, <1>3 DEF Extracts, Then, Add, Walking
<1>5. Schedules(tasks, nodeStack, nodeStack') /\ TopAfter = Top
    BY <1>3, SchedulesFlat
<1>6. \A i \in DOMAIN ns : ns[i].kind # "namespace"
    BY <1>0, <1>2 DEF IsLeaf
<1>7. \A j \in DOMAIN tasks : Held(nodes', tasks[j], Top)
    <2>1. CASE kind \in Scopes
        BY <2>1, NothingNew DEF IsLeaf
    <2>2. CASE kind \notin Scopes
        <3>1. \A i \in DOMAIN ns : ns[i].kind # "namespace" /\ ~Encloses(ns[i])
            BY <1>0, <1>2, <1>6, <2>2 DEF Encloses
        <3> QED
            BY <1>2, <1>3, <3>1, DeclaringPays, HeldBelow
    <2> QED
        BY <2>1, <2>2
<1>8. \A k \in DOMAIN rs : Sent(nodes', rs[k])
    <2>1. \A i \in DOMAIN ns : \A k \in DOMAIN rs :
             Encloses(ns[i]) /\ IsCalling(rs[k].kind) => ~Below(ns[i].at, rs[k].at)
        BY <1>0, <1>2 DEF IsLeaf, Silent, Encloses
    <2> QED
        BY <1>2, <1>3, <1>6, <2>1, SentFromTop
<1>9. Owner(e) = e /\ e # 1 /\ ~IsMember(e) /\ Type(e) # "objtype" /\ ~Below(e, e)
    BY <1>0, TreeFacts, BelowFacts DEF Plain, Owner, IsMember
<1>10. Placed(nodes', edges', s)
    <2>1. \A i \in DOMAIN ns : Encloses(ns[i]) => ~Below(ns[i].at, s.at)
        BY <1>0, <1>2, <1>9
    <2>2. HasEdge(edges', Top, s.id) /\ Head(agenda).do # "block" /\ s.kind # "namespace"
        BY <1>0, <1>3 DEF Linked, Declaring, IsLeaf
    <2> QED
        BY <1>0, <1>2, <1>3, <1>6, <1>9, <2>1, <2>2, PlacedUnderTop
<1>11. Fits(s) /\ Begins(s, tasks)
    BY <1>0, <1>9, <1>10 DEF Fits, Begins, IsLeaf
<1>12. Attributes(tasks, ns, rs)
    BY <1>2, <1>3, <1>5, <1>7, <1>8, <1>11, DeclaringPays DEF Attributes, Linked
<1> QED
    BY <1>4, <1>12, WalkStep

(* A symbol that is the scope of the tasks, all of them below it.          *)
IsOpened(kind, e, tasks, rs) ==
    /\ kind \in Scopes \ {"namespace"}
    /\ kind \in {"function", "method"} => tasks = Tasks("body", Body(e)) /\ Sequence(Body(e))
    /\ Unfolds(e, tasks) /\ Flat(tasks)
    /\ \A k \in DOMAIN rs : IsCalling(rs[k].kind) => rs[k].at = e

LEMMA Opens ==
    ASSUME Walking, Head(agenda).do # "block",
           NEW tasks, NEW rs, NEW e, NEW kind, NEW name, Type(e) \notin Plain,
           Unfolds(This, tasks), Reached(e, This, tasks), NewReferences(This, tasks \o PopScope, rs),
           IsOpened(kind, e, tasks, rs), Pays(tasks \o PopScope, rs),
           NEW symbol, symbol = Symbol(kind, name, e),
           nodes' = nodes \o <<symbol>>, Linked(Top, symbol.id),
           nodeStack' = Append(nodeStack, symbol.id), Then(tasks \o PopScope), Add(rs)
    PROVE  WalkInv'
<1> DEFINE ns == <<symbol>>
           all == tasks \o PopScope
<1>0. program \in Programs /\ At(e) /\ e \in Tree /\ symbol.at = e /\ symbol.kind = kind
    BY Walks DEF Reached, At, Symbol
<1>1. Unfolds(This, all) /\ Reached(e, This, all) /\ Sequence(tasks)
    BY ScopedTasks DEF Unfolds, InTextOrder
<1>2. NewSymbols(This, all, ns)
    BY <1>0, <1>1, OneSymbol
<1>3. Sequence(ns) /\ (\A i \in DOMAIN ns : ns[i] = symbol) /\ nodes' = nodes \o ns
      /\ 1 \in DOMAIN ns
    BY OneOf
<1>4. /\ Schedules(all, nodeStack, nodeStack') /\ TopAfter = symbol.id
      /\ Grows(tasks, PopScope, all) /\ \A j \in DOMAIN PopScope : PopScope[j].do = "pop"
    BY <1>1, SchedulesScope DEF IsOpened
<1>5. agenda' = all \o Tail(agenda) /\ NewReferences(This, all, rs) /\ Pays(all, rs)
    BY DEF Then
<1> HIDE DEF ns, all
<1>6. Extracts(This, all, ns, rs)
    BY <1>1, <1>2, <1>3, <1>5 DEF Extracts, Add, Walking
<1>7. \A i \in DOMAIN ns : ns[i].kind # "namespace"
    BY <1>0, <1>3 DEF IsOpened
<1>8. Owner(e) = e /\ e # 1 /\ ~IsMember(e) /\ Type(e) # "objtype" /\ ~Below(e, e) /\ This <= e
    <2>1. Tree \subseteq Nat /\ This \in Tree
        BY <1>0, TreeFacts, Walks
    <2>2. ~Below(e, e) /\ This <= e
        BY <1>0, <2>1, BelowFacts DEF At
    <2>3. ~IsMember(e)
        BY DEF Plain, IsMember
    <2>4. e # 1
        BY <1>0, TreeFacts DEF Plain
    <2> QED
        BY <2>2, <2>3, <2>4 DEF Plain, Owner, IsMember
<1>9. \A k \in DOMAIN rs : Sent(nodes', rs[k])
    <2>1. \A i \in DOMAIN ns : \A k \in DOMAIN rs :
             Encloses(ns[i]) /\ IsCalling(rs[k].kind) => ~Below(ns[i].at, rs[k].at)
        BY <1>0, <1>3, <1>8 DEF IsOpened
    <2> QED
        BY <1>3, <1>5, <1>7, <2>1, SentFromTop
<1>10. Placed(nodes', edges', symbol)
    <2>1. \A i \in DOMAIN ns : Encloses(ns[i]) => ~Below(ns[i].at, symbol.at)
        BY <1>0, <1>3, <1>8
    <2>2. HasEdge(edges', Top, symbol.id) /\ symbol.kind # "namespace"
        BY <1>0 DEF Linked, IsOpened
    <2> QED
        BY <1>0, <1>3, <1>7, <1>8, <2>1, <2>2, PlacedUnderTop
<1>11. Fits(symbol)
    BY <1>0, <1>8, <1>10 DEF Fits, IsOpened
<1>12. Begins(symbol, all)
    <2> SUFFICES ASSUME kind \in {"function", "method"}
                 PROVE  /\ TopAfter = symbol.id
                        /\ \A m \in DOMAIN Body(e) :
                              /\ Body(e)[m] \in Tree /\ Below(e, Body(e)[m])
                              /\ \E j \in DOMAIN all : all[j].do = "body" /\ all[j].on = Body(e)[m]
        BY <1>0 DEF Begins
    <2>1. tasks = Tasks("body", Body(e)) /\ Sequence(Body(e)) /\ Unfolds(e, tasks)
        BY DEF IsOpened
    <2>2. /\ DOMAIN tasks = DOMAIN Body(e)
          /\ \A m \in DOMAIN Body(e) : tasks[m].on = Body(e)[m] /\ tasks[m].do = "body"
        BY <2>1 DEF Tasks
    <2>3. \A m \in DOMAIN Body(e) : Body(e)[m] \in Tree /\ Below(e, Body(e)[m])
        BY <2>1, <2>2 DEF Unfolds, InTextOrder
    <2>4. \A m \in DOMAIN Body(e) : \E j \in DOMAIN all : all[j].do = "body" /\ all[j].on = Body(e)[m]
        <3>1. \A m \in DOMAIN tasks : m \in DOMAIN all /\ all[m] = tasks[m]
            BY <1>4 DEF Grows
        <3> QED
            BY <2>2, <3>1
    <2> QED
        BY <1>4, <2>3, <2>4
<1>13. \A j \in DOMAIN all : Held(nodes', all[j], TopAfter)
    <2>1. ASSUME NEW j \in DOMAIN tasks, tasks[j].do # "pop"
          PROVE  IsScope(nodes', symbol.id, tasks[j].on)
        <3> DEFINE t == tasks[j].on
        <3>1. t \in Tree /\ Below(e, t) /\ At(t)
            BY <2>1 DEF IsOpened, Unfolds, InTextOrder, At
        <3>2. /\ \A i \in Above(nodes, t) : nodes[i].at < This
            BY <2>1, <3>1, Descend
        <3>3. Grows(nodes, ns, nodes')
            BY <1>3, Walks, Concatenation
        <3>4. PICK i \in DOMAIN nodes' : nodes'[i] = symbol
            BY <1>3, <3>3 DEF Grows
        <3>5. i \in Above(nodes', t)
            BY <1>0, <1>8, <3>1, <3>4 DEF Above, IsOpened, Encloses
        <3>6. \A k \in Above(nodes', t) : nodes'[k].at <= e
            <4> SUFFICES ASSUME NEW k \in Above(nodes', t) PROVE nodes'[k].at <= e
                OBVIOUS
            <4>1. k \in DOMAIN nodes' /\ Encloses(nodes'[k]) /\ nodes'[k].kind # "namespace"
                  /\ Below(nodes'[k].at, t)
                BY DEF Above
            <4>2. CASE k \in DOMAIN nodes /\ nodes'[k] = nodes[k]
                <5>1. k \in Above(nodes, t) /\ nodes[k].at \in Tree
                    BY <1>0, <3>1, <4>1, <4>2, MoreBelow DEF Above
                <5>2. nodes[k].at < This /\ This \in Tree /\ Tree \subseteq Nat
                    BY <1>0, <3>2, <5>1, Walks, TreeFacts
                <5>3. \A a \in Tree : a < This => a <= e
                    BY <1>0, <1>8, <5>2
                <5> QED
                    BY <4>2, <5>1, <5>2, <5>3
            <4>3. CASE nodes'[k] = symbol
                <5>1. e <= e
                    BY <1>0, TreeFacts
                <5> QED
                    BY <1>0, <4>3, <5>1
            <4> QED
                BY <1>3, <3>3, <4>1, <4>2, <4>3 DEF Grows
        <3> HIDE DEF t
        <3> QED
            BY <1>0, <3>4, <3>5, <3>6 DEF IsScope, t
    <2>2. \A j \in DOMAIN tasks : Held(nodes', tasks[j], TopAfter)
        BY <1>4, <2>1 DEF Held
    <2>3. \A j \in DOMAIN PopScope : Held(nodes', PopScope[j], TopAfter)
        BY <1>4 DEF Held
    <2> QED
        BY <1>4, <2>2, <2>3 DEF Grows
<1>14. Attributes(all, ns, rs)
    BY <1>3, <1>4, <1>5, <1>9, <1>11, <1>12, <1>13 DEF Attributes, Linked
<1> QED
    BY <1>6, <1>14, WalkStep

LEMMA OpensScope ==
    ASSUME Walking, Declaring, NEW tasks, NEW rs, NEW e, NEW kind, NEW name, Type(e) \notin Plain,
           Unfolds(This, tasks), Reached(e, This, tasks), NewReferences(This, tasks \o PopScope, rs),
           IsOpened(kind, e, tasks, rs), OpenScope(Symbol(kind, name, e), tasks), Add(rs)
    PROVE  WalkInv'
<1> DEFINE symbol == Symbol(kind, name, e)
<1>1. /\ nodes' = nodes \o <<symbol>> /\ Linked(Top, symbol.id)
      /\ nodeStack' = Append(nodeStack, symbol.id) /\ Then(tasks \o PopScope)
    BY LinkedUnder DEF OpenScope
<1>2. Head(agenda).do # "block" /\ Pays(tasks \o PopScope, rs)
    BY DeclaringPays DEF Declaring
<1> HIDE DEF symbol
<1> QED
    BY <1>1, <1>2, Opens DEF symbol

(* Where the tasks come from: the children of a node, those in its body.   *)
Covers(e, tasks) ==
    /\ Unfolds(This, tasks) /\ Unfolds(e, tasks) /\ Flat(tasks)
    /\ Reached(This, This, tasks) /\ Reached(e, This, tasks)

LEMMA ChildTasks ==
    ASSUME Walking, NEW p, At(p), NEW S, S \subseteq {c \in Tree : Parent(c) = p},
           NEW tasks, AreTasks(tasks, InOrder(S))
    PROVE  Covers(p, tasks)
BY Walks, TasksUnfold DEF At, Covers

LEMMA NoTasks ==
    ASSUME Walking, NEW e, At(e), NEW tasks, AreTasks(tasks, <<>>)
    PROVE  Covers(e, tasks)
<1>1. DOMAIN tasks = {} /\ Sequence(tasks)
    BY NothingNew DEF AreTasks
<1> QED
    BY <1>1, Walks DEF Covers, Unfolds, InTextOrder, Reached, Before, At, Flat

LEMMA BelowIsAt ==
    ASSUME Walking, NEW p, At(p), NEW e \in Tree \ {1}, Parent(e) = p
    PROVE  At(e)
BY Walks, BelowFacts DEF At

LEMMA BodyTasks ==
    ASSUME Walking, NEW e, At(e), NEW tasks, AreTasks(tasks, Body(e))
    PROVE  Covers(e, tasks)
<1>0. program \in Programs /\ At(This) /\ This \in Tree /\ e \in Tree
    BY Walks DEF At
<1>1. CASE Type(e) # "field"
    <2> DEFINE S == {c \in Tree : Parent(c) = e /\ Type(c) \notin Heads}
    <2>1. AreTasks(tasks, InOrder(S)) /\ S \subseteq {c \in Tree : Parent(c) = e}
        BY <1>1 DEF Body, InBody
    <2> HIDE DEF S
    <2> QED
        BY <2>1, ChildTasks
<1>2. CASE Type(e) = "field"
    <2> DEFINE T == {c \in Tree \ {1} :
                       /\ Type(c) = "arrow"
                       /\ \/ Parent(c) = e
                          \/ Type(Parent(c)) = "call" /\ Parent(Parent(c)) = e}
               functions == InOrder(T)
    <2>1. Body(e) = IF functions = <<>> THEN <<>> ELSE InBody(functions[1])
        BY <1>2 DEF Body, BodyOfField
    <2>2. ASSUME NEW c \in T PROVE Below(e, c)
        <3>1. Parent(c) = e \/ (Parent(c) \in Tree \ {1} /\ Parent(Parent(c)) = e)
            BY <1>0, TreeFacts
        <3> QED
            BY <1>0, <3>1, BelowFacts
    <2>3. T \in SUBSET Tree
        OBVIOUS
    <2> HIDE DEF T
    <2>4. functions = <<>> \/ functions[1] \in T
        <3>0. Len(program.tree) \in Nat /\ Tree = 1 .. Len(program.tree)
            BY <1>0, TreeFacts
        <3>1. IsFiniteSet(Tree) /\ T \in SUBSET Nat
            BY <2>3, <3>0, FS_Interval
        <3>2. IsFiniteSet(T)
            BY <2>3, <3>1, FS_Subset
        <3>3. functions \in Seq(T)
            BY <3>1, <3>2, InOrderFacts
        <3> HIDE DEF functions
        <3> QED
            BY <3>3, EmptySeq, LenProperties
    <2> HIDE DEF functions
    <2>5. CASE functions = <<>>
        BY <1>0, <2>1, <2>5, NoTasks
    <2>6. CASE functions # <<>>
        <3> DEFINE f == functions[1]
                   S == {c \in Tree : Parent(c) = f /\ Type(c) \notin Heads}
        <3>1. f \in Tree /\ Below(e, f)
            BY <2>2, <2>3, <2>4, <2>6
        <3>2. Below(This, f)
            BY <1>0, <3>1, BelowFacts DEF At
        <3>3. AreTasks(tasks, InOrder(S)) /\ S \subseteq {c \in Tree : Parent(c) = f} /\ At(f)
            BY <2>1, <2>6, <3>1, <3>2 DEF InBody, At
        <3> HIDE DEF S, f
        <3>4. Covers(f, tasks)
            BY <3>3, ChildTasks
        <3>5. \A c \in Tree : Below(f, c) => e < c /\ Below(e, c)
            BY <1>0, <3>1, BelowFacts, TreeFacts
        <3>6. \A i \in DOMAIN tasks : tasks[i].do # "pop" => e < tasks[i].on /\ Below(e, tasks[i].on)
            BY <3>4, <3>5 DEF Covers, Unfolds, InTextOrder
        <3> QED
            BY <1>0, <3>4, <3>6 DEF Covers, Reached, Before, At, Unfolds
    <2> QED
        BY <2>5, <2>6
<1> QED
    BY <1>1, <1>2

(* What a visit extracts, and what in a body is extracted as visits do.    *)
LEMMA VisitsDeclare ==
    ASSUME Head(agenda).do # "block", Head(agenda).do # "body"
    PROVE  Declaring
BY DEF Declaring

LEMMA BodiesDeclare ==
    ASSUME Walking, Head(agenda).do = "body", Type(This) # "arrow",
           Type(This) \in language.functionTypes \cup TypeDeclarations(language)
    PROVE  Declaring
<1>1. /\ (language.callTypes \cup {"new"}) \cap (language.functionTypes \cup TypeDeclarations(language)) = {}
    BY Walks, TreeFacts, LanguageFacts
<1>2. Type(This) \in StructureInBodies
    BY DEF StructureInBodies, TypeDeclarations
<1> QED
    BY <1>1, <1>2 DEF Declaring, IsTransparent, Calls
-----------------------------------------------------------------------------
(* One lemma for each method that extracts a declaration.                  *)
LEMMA Alone ==
    ASSUME Walking
    PROVE  /\ Unfolds(This, <<>>) /\ Flat(<<>>)
           /\ \A e : At(e) => Reached(e, This, <<>>) /\ Covers(e, <<>>)
<1>1. DOMAIN <<>> = {} /\ Sequence(<<>>)
    BY NothingNew
<1> QED
    BY <1>1, Walks DEF Covers, Unfolds, InTextOrder, Reached, Before, At, Flat

LEMMA Skips ==
    ASSUME Walking, Declaring, Skip PROVE WalkInv'
BY Alone, DeclaringPays, MovesOnly DEF Skip

LEMMA SequenceOfBody ==
    ASSUME Walking, NEW e, At(e)
    PROVE  Sequence(Body(e))
<1> DEFINE T == {c \in Tree \ {1} :
                   /\ Type(c) = "arrow"
                   /\ \/ Parent(c) = e
                      \/ Type(Parent(c)) = "call" /\ Parent(Parent(c)) = e}
           S(f) == {c \in Tree : Parent(c) = f /\ Type(c) \notin Heads}
<1>1. Body(e) = <<>> \/ Body(e) = InOrder(S(e)) \/ Body(e) = InOrder(S(InOrder(T)[1]))
    BY DEF Body, BodyOfField, InBody
<1>2. \A f : S(f) \in SUBSET Tree
    OBVIOUS
<1> HIDE DEF S, T
<1>3. \A f : Sequence(InOrder(S(f)))
    BY <1>2, Walks, TypesInIsSequence
<1> QED
    BY <1>1, <1>3, NothingNew

LEMMA VisitsBody ==
    ASSUME Walking, Declaring, NEW e, At(e), VisitInstead("body", Body(e))
    PROVE  WalkInv'
<1>1. Covers(e, Tasks("body", Body(e)))
    BY SequenceOfBody, TasksAre, BodyTasks
<1> QED
    BY <1>1, DeclaringPays, MovesOnly DEF VisitInstead, Covers

LEMMA AppendIs ==
    ASSUME NEW s, Sequence(s), NEW x
    PROVE  Append(s, x) = s \o <<x>>
BY DEF Sequence

LEMMA ExtractsMethod ==
    ASSUME Walking, Declaring, NEW e, At(e), Type(e) \notin Plain, AsMethod(e)
    PROVE  WalkInv'
<1> DEFINE symbol == Symbol("method", Name(e), e)
           tasks == Tasks("body", Body(e))
           r == ExtractTypeAnnotations(e, symbol.id)
           s == ExtractDecoratorsFor(e, symbol.id)
           owners == SymbolsOf({"struct", "class", "enum", "trait"}, GetReceiverType(e))
           owner == IF IsInsideClassLikeNode \/ owners = <<>> THEN <<>>
                    ELSE <<<<owners[1].id, symbol.id>>>>
<1>1. program \in Programs /\ e \in Tree
    BY Walks DEF At
<1>2. Covers(e, tasks) /\ Sequence(Body(e))
    BY SequenceOfBody, TasksAre, BodyTasks
<1>3. /\ nodes' = nodes \o <<symbol>> /\ nodeStack' = Append(nodeStack, symbol.id)
      /\ edges' = Append(edges, <<Top, symbol.id>>) \o owner
      /\ Add(r \o s) /\ Then(tasks \o PopScope)
    BY Walks DEF AsMethod, Sequence
<1> DEFINE own == <<<<Top, symbol.id>>>>
<1>4. Linked(Top, symbol.id)
    <2>1. Sequence(owner) /\ Sequence(own) /\ 1 \in DOMAIN own /\ own[1] = <<Top, symbol.id>>
        BY NothingNew, OneOf
    <2>2. edges' = (edges \o own) \o owner
        BY <1>3, Walks, AppendIs
    <2> HIDE DEF own, owner, symbol
    <2>3. Grows(edges, own, edges \o own) /\ Sequence(edges \o own)
        BY <2>1, Walks, Concatenation, ConcatFacts
    <2>4. Grows(edges \o own, owner, edges') /\ Sequence(edges')
        BY <2>1, <2>2, <2>3, Concatenation, ConcatFacts
    <2> DEFINE between == edges \o own
    <2> HIDE DEF between
    <2>5. \A j \in DOMAIN edges : j \in DOMAIN edges' /\ edges'[j] = edges[j]
        BY <2>3, <2>4 DEF Grows
    <2>6. \E j \in DOMAIN edges' : edges'[j] = own[1]
        BY <2>1, <2>3, <2>4 DEF Grows
    <2> QED
        BY <2>1, <2>4, <2>5, <2>6 DEF Linked, HasEdge
<1>5. Reached(e, This, tasks \o PopScope) /\ Unfolds(This, tasks)
    BY <1>2, ScopedTasks DEF Covers
<1>6. NewReferences(This, tasks \o PopScope, r \o s) /\ Silent(r \o s)
    BY <1>1, <1>5, MarkedReferences
<1>7. IsOpened("method", e, tasks, r \o s)
    BY <1>2, <1>6 DEF IsOpened, Covers, Silent, Scopes
<1>8. Head(agenda).do # "block" /\ Pays(tasks \o PopScope, r \o s)
    BY DeclaringPays DEF Declaring
<1>9. Reached(e, This, tasks)
    BY <1>2 DEF Covers
<1> HIDE DEF tasks, r, s, symbol, owner
<1> QED
    BY <1>3, <1>4, <1>5, <1>6, <1>7, <1>8, <1>9, Opens DEF symbol

LEMMA ExtractsFunction ==
    ASSUME Walking, Declaring, NEW e, At(e), Type(e) \notin Plain, NEW name, AsFunction(e, name)
    PROVE  WalkInv'
<1> DEFINE symbol == Symbol("function", name, e)
           tasks == Tasks("body", Body(e))
           r == ExtractTypeAnnotations(e, symbol.id)
           s == ExtractDecoratorsFor(e, symbol.id)
<1>1. program \in Programs /\ e \in Tree
    BY Walks DEF At
<1>2. Covers(e, tasks) /\ Sequence(Body(e))
    BY SequenceOfBody, TasksAre, BodyTasks
<1>3. OpenScope(symbol, tasks) /\ Add(r \o s)
    BY DEF AsFunction
<1>4. Reached(e, This, tasks \o PopScope) /\ Unfolds(This, tasks) /\ Reached(e, This, tasks)
    BY <1>2, ScopedTasks DEF Covers
<1>5. NewReferences(This, tasks \o PopScope, r \o s) /\ Silent(r \o s)
    BY <1>1, <1>4, MarkedReferences
<1>6. IsOpened("function", e, tasks, r \o s)
    BY <1>2, <1>5 DEF IsOpened, Covers, Silent, Scopes
<1> HIDE DEF tasks, r, s
<1> QED
    BY <1>3, <1>4, <1>5, <1>6, OpensScope

LEMMA FunctionStep ==
    ASSUME Walking, Declaring, NEW e, At(e), Type(e) \notin Plain, NEW names, ExtractFunction(e, names)
    PROVE  WalkInv'
BY Skips, VisitsBody, ExtractsMethod, ExtractsFunction DEF ExtractFunction

LEMMA MethodStep ==
    ASSUME Walking, Declaring, NEW e, At(e), Type(e) \notin Plain, ExtractMethod(e)
    PROVE  WalkInv'
BY VisitsBody, ExtractsMethod, FunctionStep DEF ExtractMethod

(* The types: a scope with base types.                                     *)
IsTypeKind(kind) == kind \in {"class", "interface", "trait", "struct", "enum"}

LEMMA TypeOpens ==
    ASSUME NEW kind, IsTypeKind(kind), NEW e, NEW tasks, Unfolds(e, tasks), Flat(tasks),
           NEW rs, Silent(rs)
    PROVE  IsOpened(kind, e, tasks, rs)
BY DEF IsTypeKind, IsOpened, Silent, Scopes

LEMMA ClassStep ==
    ASSUME Walking, Declaring, Type(This) \notin Plain, ExtractClass(This, "class")
    PROVE  WalkInv'
<1> DEFINE symbol == Symbol("class", Name(This), This)
           tasks == Tasks("visit", Body(This))
           rs == ExtractInheritance(This, symbol.id) \o ExtractDecoratorsFor(This, symbol.id)
<1>1. program \in Programs /\ At(This)
    BY Walks
<1>2. Covers(This, tasks)
    BY <1>1, SequenceOfBody, TasksAre, BodyTasks
<1>3. OpenScope(symbol, tasks) /\ Add(rs)
    BY DEF ExtractClass
<1> HIDE DEF tasks
<1>4. Reached(This, This, tasks \o PopScope) /\ Unfolds(This, tasks) /\ Reached(This, This, tasks)
    BY <1>2, ScopedTasks DEF Covers
<1>5. NewReferences(This, tasks \o PopScope, rs) /\ Silent(rs)
    BY <1>1, <1>4, MarkedReferences
<1> HIDE DEF rs
<1>6. IsOpened("class", This, tasks, rs)
    BY <1>2, <1>5, TypeOpens DEF Covers, IsTypeKind
<1> QED
    BY <1>3, <1>4, <1>5, <1>6, OpensScope

LEMMA TypeStep ==
    ASSUME Walking, Declaring, Type(This) \notin Plain, NEW kind, IsTypeKind(kind),
           NEW e, At(e), NEW tasks, Covers(e, tasks),
           OpenScope(Symbol(kind, Name(This), This), tasks),
           Add(ExtractInheritance(e, Id(kind, Name(This), This)))
    PROVE  WalkInv'
<1> DEFINE rs == ExtractInheritance(e, Id(kind, Name(This), This))
<1>1. program \in Programs /\ e \in Tree
    BY Walks DEF At
<1>2. /\ Reached(e, This, tasks \o PopScope) /\ Unfolds(This, tasks) /\ Flat(tasks)
      /\ Reached(This, This, tasks)
    BY ScopedTasks DEF Covers
<1>3. NewReferences(This, tasks \o PopScope, rs) /\ Silent(rs)
    BY <1>1, <1>2, InheritanceFacts
<1> HIDE DEF rs
<1>4. IsOpened(kind, This, tasks, rs)
    BY <1>2, <1>3, TypeOpens
<1> QED
    BY <1>2, <1>3, <1>4, OpensScope DEF rs

LEMMA InterfaceStep ==
    ASSUME Walking, Declaring, Type(This) \notin Plain, ExtractInterface(This)
    PROVE  WalkInv'
<1> DEFINE tasks == Tasks("visit", Body(This))
<1>1. At(This) /\ IsTypeKind(language.interfaceKind)
    BY Walks, TreeFacts, LanguageFacts DEF IsTypeKind
<1>2. Covers(This, tasks)
    BY <1>1, SequenceOfBody, TasksAre, BodyTasks
<1>3. /\ OpenScope(Symbol(language.interfaceKind, Name(This), This), tasks)
      /\ Add(ExtractInheritance(This, Id(language.interfaceKind, Name(This), This)))
    BY DEF ExtractInterface, Symbol
<1> HIDE DEF tasks
<1> QED
    BY <1>1, <1>2, <1>3, TypeStep

LEMMA StructStep ==
    ASSUME Walking, Declaring, Type(This) # "structRef" => Type(This) \notin Plain,
           ExtractStruct(This)
    PROVE  WalkInv'
<1> DEFINE tasks == Tasks("visit", Body(This))
<1>1. At(This)
    BY Walks
<1>2. Covers(This, tasks)
    BY <1>1, SequenceOfBody, TasksAre, BodyTasks
<1>3. CASE Skip
    BY <1>3, Skips
<1>4. CASE ~Skip
    <2>1. /\ OpenScope(Symbol("struct", Name(This), This), tasks)
          /\ Add(ExtractInheritance(This, Id("struct", Name(This), This)))
          /\ Type(This) \notin Plain /\ IsTypeKind("struct")
        BY <1>4 DEF ExtractStruct, Symbol, IsTypeKind
    <2> HIDE DEF tasks
    <2> QED
        BY <1>1, <1>2, <2>1, TypeStep
<1> QED
    BY <1>3, <1>4

LEMMA EnumStep ==
    ASSUME Walking, Declaring, Type(This) # "enumRef" => Type(This) \notin Plain,
           ExtractEnum(This)
    PROVE  WalkInv'
<1> DEFINE tasks == MemberTasks(Body(This))
<1>1. At(This)
    BY Walks
<1>2. Covers(This, tasks)
    BY <1>1, SequenceOfBody, MemberTasksAre, BodyTasks
<1>3. CASE Skip
    BY <1>3, Skips
<1>4. CASE ~Skip
    <2>1. /\ OpenScope(Symbol("enum", Name(This), This), tasks)
          /\ Add(ExtractInheritance(This, Id("enum", Name(This), This)))
          /\ Type(This) \notin Plain /\ IsTypeKind("enum")
        BY <1>4 DEF ExtractEnum, Symbol, IsTypeKind
    <2> HIDE DEF tasks
    <2> QED
        BY <1>1, <1>2, <2>1, TypeStep
<1> QED
    BY <1>3, <1>4

(* A symbol without a scope and without children to walk.                  *)
LEMMA SilentNothing ==
    Silent(<<>>)
BY NothingNew DEF Silent

LEMMA SymbolAlone ==
    ASSUME Walking, Declaring, Type(This) \notin Plain, NEW kind, NEW name,
           IsLeaf(kind, <<>>, <<>>),
           Leaf(Symbol(kind, name, This), <<>>), references' = references
    PROVE  WalkInv'
<1>1. /\ Unfolds(This, <<>>) /\ Flat(<<>>) /\ Reached(This, This, <<>>)
      /\ NewReferences(This, <<>>, <<>>) /\ Add(<<>>)
    BY Walks, Alone, NothingNew DEF Add
<1> QED
    BY <1>1, Leaves

LEMMA MemberStep ==
    ASSUME Walking, ExtractEnumMembers
    PROVE  WalkInv'
<1>1. /\ Leaf(Symbol("enum_member", Name(This), This), <<>>) /\ references' = references
      /\ Head(agenda).do = "member"
    BY DEF ExtractEnumMembers, Doing
<1>2. Type(This) \in language.enumMemberTypes \cup {"declEnumValue"} /\ program \in Programs
    BY <1>1, Walks DEF Meant, This
<1>3. Type(This) \notin Plain
    <2>1. Declared(language) \cap Plain = {}
        BY <1>2, TreeFacts, LanguageFacts
    <2>2. language.enumMemberTypes \subseteq Declared(language)
        BY DEF Declared
    <2> QED
        BY <1>2, <2>1, <2>2 DEF Plain
<1>4. Declaring /\ IsLeaf("enum_member", <<>>, <<>>)
    BY <1>1, VisitsDeclare DEF IsLeaf, Scopes
<1> QED
    BY <1>1, <1>3, <1>4, SymbolAlone

LEMMA PropertyStep ==
    ASSUME Walking, Declaring, Type(This) \notin Plain, NEW kind, kind = "property" \/ kind = "field",
           ExtractPropertyOrField(This, kind)
    PROVE  WalkInv'
<1> DEFINE symbol == Symbol(kind, Name(This), This)
           rs == ExtractDecoratorsFor(This, symbol.id) \o ExtractTypeAnnotations(This, symbol.id)
<1>1. program \in Programs /\ At(This)
    BY Walks
<1>2. Unfolds(This, <<>>) /\ Flat(<<>>) /\ Reached(This, This, <<>>)
    BY <1>1, Alone
<1>3. NewReferences(This, <<>>, rs)
    BY <1>1, <1>2, MarkedReferences
<1>4. Leaf(symbol, <<>>) /\ Add(rs)
    BY DEF ExtractPropertyOrField
<1> HIDE DEF rs
<1>5. IsLeaf(kind, <<>>, rs)
    BY DEF IsLeaf, Scopes
<1> QED
    BY <1>2, <1>3, <1>4, <1>5, Leaves

(* The children of a node: their sequence, and what tasks on them are.     *)
LEMMA SequenceOfChildren ==
    ASSUME Walking, NEW e, At(e), NEW types
    PROVE  /\ Sequence(Children(e)) /\ Sequence(ChildrenIn(e, types)) /\ Sequence(InBody(e))
           /\ \A i \in DOMAIN ChildrenIn(e, types) :
                 LET c == ChildrenIn(e, types)[i] IN c \in Tree /\ Parent(c) = e /\ Type(c) \in types /\ At(c)
           /\ \A i \in DOMAIN InBody(e) : LET c == InBody(e)[i] IN c \in Tree /\ At(c) /\ Parent(c) = e
<1> DEFINE all == {c \in Tree : Parent(c) = e}
           some == {c \in Tree : Parent(c) = e /\ Type(c) \in types}
           body == {c \in Tree : Parent(c) = e /\ Type(c) \notin Heads}
<1>1. all \subseteq all /\ some \subseteq all /\ body \subseteq all
    OBVIOUS
<1>2. program \in Programs /\ e \in Tree
    BY Walks DEF At
<1>3. /\ \A c \in some : Type(c) \in types
      /\ \A c \in all \ {1} : At(c)
    BY BelowIsAt
<1> HIDE DEF some, body
<1>4. /\ Sequence(InOrder(some))
      /\ \A i \in DOMAIN InOrder(some) :
            InOrder(some)[i] \in some /\ InOrder(some)[i] \in Tree \ {1} /\ Parent(InOrder(some)[i]) = e
    BY <1>1, <1>2, ChildrenFacts
<1>5. /\ Sequence(InOrder(body))
      /\ \A i \in DOMAIN InOrder(body) :
            InOrder(body)[i] \in Tree \ {1} /\ Parent(InOrder(body)[i]) = e
    BY <1>1, <1>2, ChildrenFacts
<1>6. Sequence(InOrder(all))
    BY <1>1, <1>2, ChildrenFacts
<1>7. Children(e) = InOrder(all) /\ ChildrenIn(e, types) = InOrder(some) /\ InBody(e) = InOrder(body)
    BY DEF Children, ChildrenIn, InBody, some, body
<1> QED
    BY <1>3, <1>4, <1>5, <1>6, <1>7

LEMMA ChildrenTasks ==
    ASSUME Walking, NEW e, At(e), NEW types, NEW tasks,
           \/ AreTasks(tasks, Children(e)) \/ AreTasks(tasks, ChildrenIn(e, types))
           \/ AreTasks(tasks, InBody(e))
    PROVE  Covers(e, tasks)
<1> DEFINE all == {c \in Tree : Parent(c) = e}
           some == {c \in Tree : Parent(c) = e /\ Type(c) \in types}
           body == {c \in Tree : Parent(c) = e /\ Type(c) \notin Heads}
<1>1. all \subseteq all /\ some \subseteq all /\ body \subseteq all
    OBVIOUS
<1>2. \/ AreTasks(tasks, InOrder(all)) \/ AreTasks(tasks, InOrder(some))
      \/ AreTasks(tasks, InOrder(body))
    BY DEF Children, ChildrenIn, InBody
<1> HIDE DEF some, body
<1> QED
    BY <1>1, <1>2, ChildTasks

(* In a body the children of a node are walked the same way.               *)
LEMMA ChildrenPay ==
    ASSUME Walking, nodeStack' = nodeStack, NEW rs,
           Head(agenda).do = "body" /\ Type(This) \in Calls => Made(rs, Top, This),
           NEW do, do = Head(agenda).do
    PROVE  Pays(Tasks(do, Children(This)), rs) /\ Blocks(Tasks(do, Children(This)))
<1> DEFINE tasks == Tasks(do, Children(This))
           all == {c \in Tree : Parent(c) = This}
<1>1. program \in Programs /\ Len(program.tree) \in Nat /\ Tree = 1 .. Len(program.tree)
    BY Walks, TreeFacts
<1>2. all \in SUBSET Nat /\ all \in SUBSET Tree /\ IsFiniteSet(Tree)
    BY <1>1, FS_Interval
<1>3. Children(This) = InOrder(all)
    BY DEF Children
<1> HIDE DEF all
<1>4. IsFiniteSet(all)
    BY <1>2, FS_Subset
<1>5. \A c \in all : \E i \in DOMAIN Children(This) : Children(This)[i] = c
    BY <1>2, <1>3, <1>4, InOrderFacts
<1>6. /\ DOMAIN tasks = DOMAIN Children(This)
      /\ \A i \in DOMAIN tasks : tasks[i].do = do /\ tasks[i].on = Children(This)[i]
    BY DEF Tasks
<1> HIDE DEF tasks
<1>7. \A c \in Tree : Parent(c) = This => \E j \in DOMAIN tasks : tasks[j].do = do /\ tasks[j].on = c
    BY <1>5, <1>6 DEF all
<1>8. TopAfter = Top
    BY DEF TopAfter, Top
<1> QED
    BY <1>6, <1>7, <1>8 DEF Pays, Blocks, tasks

LEMMA VisitsChildren ==
    ASSUME Walking, NEW do, do = Head(agenda).do, do = "visit" \/ do = "body" \/ do = "block",
           do = "body" => Type(This) \notin Calls,
           VisitInstead(do, Children(This))
    PROVE  WalkInv'
<1> DEFINE tasks == Tasks(do, Children(This))
<1>1. At(This) /\ Then(tasks) /\ Keep /\ nodeStack' = nodeStack
    BY Walks DEF VisitInstead, Keep
<1>2. AreTasks(tasks, Children(This))
    <2>1. do \in {"visit", "body", "block"}
        OBVIOUS
    <2> QED
        BY <1>1, <2>1, SequenceOfChildren, TasksAre
<1>3. Covers(This, tasks)
    BY <1>1, <1>2, ChildrenTasks
<1>4. Pays(tasks, <<>>) /\ Blocks(tasks)
    BY <1>1, ChildrenPay
<1> HIDE DEF tasks
<1> QED
    BY <1>1, <1>3, <1>4, MovesOnly DEF Covers

LEMMA VariableStep ==
    ASSUME Walking, Declaring, Type(This) \notin Plain, ExtractVariable(This)
    PROVE  WalkInv'
<1> DEFINE value == InBody(This)
           symbol == Symbol("variable", Name(This), This)
           type == ReferencesTo(symbol.id, "references", TypesIn(Annotations(This)))
           named == ChildrenIn(value[1], {"arrow"})
           walked == IF value = <<>> THEN <<>>
                     ELSE IF Type(value[1]) # "object" THEN Tasks("body", value)
                     ELSE IF program.exported THEN Tasks("named", named)
                     ELSE <<>>
<1>1. program \in Programs /\ At(This)
    BY Walks
<1>2. Sequence(value) /\ (value # <<>> => At(value[1]))
    <2>1. Sequence(value) /\ \A i \in DOMAIN value : At(value[i])
        BY <1>1, SequenceOfChildren
    <2>2. value # <<>> => 1 \in DOMAIN value
        BY <2>1, TailFacts
    <2> QED
        BY <2>1, <2>2
<1>3. NewReferences(This, walked, type)
    BY <1>1, AnnotationFacts
<1>4. Unfolds(This, walked) /\ Flat(walked) /\ Reached(This, This, walked)
    <2>1. Unfolds(This, <<>>) /\ Flat(<<>>) /\ Reached(This, This, <<>>)
        BY <1>1, Alone
    <2>2. AreTasks(Tasks("body", value), value)
        BY <1>2, TasksAre
    <2>3. Covers(This, Tasks("body", value))
        BY <1>1, <2>2, ChildrenTasks
    <2>4. ASSUME value # <<>>
          PROVE  Covers(value[1], Tasks("named", named))
        <3>1. Sequence(named) /\ \A i \in DOMAIN named : Type(named[i]) = "arrow"
            BY <1>2, <2>4, SequenceOfChildren
        <3>2. \A i \in DOMAIN named : Meant([do |-> "named", on |-> named[i]])
            BY <3>1 DEF Meant
        <3>3. AreTasks(Tasks("named", named), named)
            BY <3>1, <3>2, GivenTasksAre
        <3> QED
            BY <1>2, <2>4, <3>3, ChildrenTasks
    <2> HIDE DEF value, named
    <2> QED
        BY <2>1, <2>3, <2>4 DEF Covers
<1>5. \/ Skip
      \/ Leaf(symbol, <<>>) /\ references' = references
      \/ value # <<>> /\ Type(value[1]) = "arrow" /\ ExtractFunction(value[1], NameOfArrow(value[1]))
      \/ Leaf(symbol, walked) /\ Add(type)
    BY DEF ExtractVariable
<1>6. IsLeaf("variable", <<>>, <<>>) /\ IsLeaf("variable", walked, type)
    BY DEF IsLeaf, Scopes
<1> HIDE DEF walked, type, value
<1>7. CASE Skip
    BY <1>7, Skips
<1>8. CASE Leaf(symbol, <<>>) /\ references' = references
    BY <1>6, <1>8, SymbolAlone
<1>9. CASE value # <<>> /\ Type(value[1]) = "arrow" /\ ExtractFunction(value[1], NameOfArrow(value[1]))
    <2>1. At(value[1]) /\ Type(value[1]) \notin Plain
        BY <1>2, <1>9 DEF Plain
    <2> QED
        BY <1>9, <2>1, FunctionStep
<1>10. CASE Leaf(symbol, walked) /\ Add(type)
    BY <1>3, <1>4, <1>6, <1>10, Leaves
<1> QED
    BY <1>5, <1>7, <1>8, <1>9, <1>10

LEMMA NamedStep ==
    ASSUME Walking, ExtractNamed
    PROVE  WalkInv'
<1>1. At(This) /\ Head(agenda).do = "named" /\ ExtractFunction(This, {Name(This)})
    BY Walks DEF ExtractNamed, Doing
<1>2. Type(This) \notin Plain
    BY <1>1, Walks DEF Meant, This, Plain
<1>3. Declaring
    BY <1>1, VisitsDeclare
<1> QED
    BY <1>1, <1>2, <1>3, FunctionStep

LEMMA WrappedStep ==
    ASSUME Walking, Declaring, Type(This) \notin Plain, Wrapped(This) # <<>>, ExtractWrapped(This)
    PROVE  WalkInv'
<1> DEFINE inner == Wrapped(This)[1]
           kind == Type(inner)
           members == MemberTasks(Body(inner))
           visits == Tasks("visit", Body(inner))
           tasks == IF kind = "enum" THEN members ELSE visits
           rs == ExtractInheritance(inner, Id(kind, Name(This), This))
<1>1. program \in Programs /\ At(This)
    BY Walks
<1>2. At(inner) /\ IsTypeKind(kind)
    <2>1. /\ Sequence(Wrapped(This))
          /\ \A i \in DOMAIN Wrapped(This) : At(Wrapped(This)[i]) /\ Type(Wrapped(This)[i]) \in language.aliased
        BY <1>1, SequenceOfChildren DEF Wrapped
    <2>2. 1 \in DOMAIN Wrapped(This)
        BY <2>1, TailFacts
    <2>3. language.aliased \subseteq {"struct", "interface", "enum"}
        BY <1>1, TreeFacts, LanguageFacts
    <2> QED
        BY <2>1, <2>2, <2>3 DEF IsTypeKind
<1>3. /\ \/ kind = "interface" /\ Leaf(Symbol(kind, Name(This), This), <<>>)
         \/ OpenScope(Symbol(kind, Name(This), This), tasks)
      /\ Add(rs)
    BY DEF ExtractWrapped, Symbol
<1>4. Covers(inner, members)
    BY <1>2, SequenceOfBody, MemberTasksAre, BodyTasks
<1>5. Covers(inner, visits)
    BY <1>2, SequenceOfBody, TasksAre, BodyTasks
<1> HIDE DEF members, visits
<1>6. Covers(inner, tasks)
    BY <1>4, <1>5
<1> HIDE DEF tasks, inner
<1>7. CASE OpenScope(Symbol(kind, Name(This), This), tasks)
    <2> HIDE DEF kind
    <2> QED
        BY <1>2, <1>3, <1>6, <1>7, TypeStep
<1>8. CASE kind = "interface" /\ Leaf(Symbol(kind, Name(This), This), <<>>)
    <2>1. /\ Unfolds(This, <<>>) /\ Flat(<<>>) /\ Reached(This, This, <<>>)
          /\ Reached(inner, This, <<>>) /\ inner \in Tree
        BY <1>1, <1>2, Alone DEF At
    <2>2. NewReferences(This, <<>>, rs) /\ Silent(rs)
        BY <1>1, <2>1, InheritanceFacts
    <2> HIDE DEF rs
    <2>3. IsLeaf(kind, <<>>, rs)
        BY <1>8, <2>2 DEF IsLeaf
    <2> HIDE DEF kind
    <2> QED
        BY <1>3, <1>8, <2>1, <2>2, <2>3, Leaves
<1> QED
    BY <1>3, <1>7, <1>8

(* The members of an alias are declared under it.                          *)
Member(c) ==
    /\ c \in Tree \ {1} /\ IsMember(c)
    /\ Parent(c) \in Tree \ {1} /\ Type(Parent(c)) = "objtype" /\ Parent(Parent(c)) = This

LEMMA TypeAliasStep ==
    ASSUME Walking, Declaring, Type(This) \notin Plain, ExtractTypeAlias(This)
    PROVE  WalkInv'
<1> DEFINE symbol == Symbol("type_alias", Name(This), This)
           within == {c \in Tree \ {1} : /\ Type(c) = "signature"
                                         /\ Type(Parent(c)) = "objtype"
                                         /\ Parent(Parent(c)) = This}
           members == IF language.walksValues THEN InOrder(within) ELSE <<>>
           contract == [i \in DOMAIN members |-> Symbol("method", Name(members[i]), members[i])]
           again == {m \in Tree : /\ Type(m) = "type"
                                  /\ \E i \in DOMAIN members : members[i] \in Ancestors(m)}
           roots == Annotations(This)
           named == {m \in Tree : Type(m) = "type" /\ (m \in roots \/ Ancestors(m) \cap roots # {})}
           rs == IF language.annotated
                 THEN ReferencesTo(symbol.id, "references", InOrder(named) \o InOrder(again))
                 ELSE <<>>
           tasks == Tasks("visit", Children(This))
           ns == <<symbol>> \o contract
           under == [i \in DOMAIN contract |-> <<symbol.id, contract[i].id>>]
<1>1. program \in Programs /\ At(This)
    BY Walks
<1>2. /\ nodes' = Append(nodes, symbol) \o contract
      /\ edges' = Append(edges, <<Top, symbol.id>>) \o under
      /\ Add(rs) /\ Then(tasks) /\ nodeStack' = nodeStack
    BY DEF ExtractTypeAlias, TypesIn
<1>3. Unfolds(This, tasks) /\ Reached(This, This, tasks) /\ Flat(tasks)
    <2>1. Covers(This, tasks)
        BY <1>1, SequenceOfChildren, TasksAre, ChildrenTasks
    <2> QED
        BY <2>1 DEF Covers
<1>4. NewReferences(This, tasks, rs) /\ Silent(rs)
    <2>1. named \in SUBSET Tree /\ again \in SUBSET Tree
        OBVIOUS
    <2>2. \A i \in DOMAIN rs : rs[i].kind = "references"
        BY NothingNew DEF ReferencesTo, Reference
    <2> HIDE DEF named, again, tasks
    <2>3. NewReferences(This, tasks, rs)
        BY <1>1, <2>1, TypeReferences, NothingNew
    <2> HIDE DEF rs
    <2> QED
        BY <2>2, <2>3, OtherKinds DEF Silent
<1>5. /\ Sequence(members)
      /\ \A i \in DOMAIN members : language.walksValues /\ members[i] \in within
      /\ \A i, j \in DOMAIN members : members[i] = members[j] => i = j
    <2>1. Len(program.tree) \in Nat /\ Tree = 1 .. Len(program.tree)
        BY <1>1, TreeFacts
    <2>2. IsFiniteSet(Tree) /\ within \in SUBSET Tree /\ within \in SUBSET Nat
        BY <2>1, FS_Interval, SMTT(30)
    <2> DEFINE list == InOrder(within)
    <2> HIDE DEF within
    <2>3. IsFiniteSet(within)
        BY <2>2, FS_Subset
    <2>4. list \in Seq(within) /\ \A i, j \in DOMAIN list : i < j => list[i] < list[j]
        BY <2>2, <2>3, InOrderFacts
    <2>5. /\ Sequence(list) /\ Len(list) \in Nat /\ DOMAIN list = 1 .. Len(list)
          /\ \A i \in DOMAIN list : list[i] \in within /\ list[i] \in Nat
        BY <2>2, <2>4, LenProperties, ElementOfSeq DEF Sequence
    <2> HIDE DEF list
    <2>6. ASSUME NEW i \in DOMAIN list, NEW j \in DOMAIN list, list[i] = list[j] PROVE i = j
        BY <2>4, <2>5, <2>6
    <2> QED
        BY <2>5, <2>6, NothingNew DEF list
<1>6. \A c \in within : /\ c \in Tree /\ c # 1 /\ Type(c) = "signature"
                        /\ language.walksValues => Member(c) /\ Owner(c) = This
    BY <1>1, TreeFacts DEF Owner, Member, IsMember
<1>7. "signature" \notin language.packageTypes /\ "signature" \in Plain
    BY <1>1, TreeFacts, LanguageFacts DEF Plain
<1> HIDE DEF within, members
<1>8. /\ Sequence(contract) /\ DOMAIN contract = DOMAIN members
      /\ \A i \in DOMAIN members : contract[i].at = members[i] /\ contract[i].kind = "method"
    <2>1. Len(members) \in Nat /\ DOMAIN members = 1 .. Len(members)
        BY <1>5, SequenceLength
    <2> DEFINE s(i) == Symbol("method", Name(members[i]), members[i])
    <2>2. contract = [i \in 1 .. Len(members) |-> s(i)]
        BY <2>1
    <2> HIDE DEF s
    <2>3. Sequence(contract)
        BY <2>1, <2>2, IsSequence
    <2>4. \A i \in DOMAIN members : s(i).at = members[i] /\ s(i).kind = "method"
        BY DEF s, Symbol
    <2> HIDE DEF contract
    <2> QED
        BY <2>1, <2>2, <2>3, <2>4
<1> HIDE DEF contract
<1>15. Sequence(under) /\ DOMAIN under = DOMAIN contract
       /\ \A i \in DOMAIN contract : under[i] = <<symbol.id, contract[i].id>>
    <2>1. Len(contract) \in Nat /\ DOMAIN contract = 1 .. Len(contract)
        BY <1>8, SequenceLength
    <2>2. under = [i \in 1 .. Len(contract) |-> under[i]]
        BY <2>1
    <2>3. \A i \in DOMAIN contract : under[i] = <<symbol.id, contract[i].id>>
        OBVIOUS
    <2>4. DOMAIN under = DOMAIN contract
        OBVIOUS
    <2> HIDE DEF under
    <2> QED
        BY <2>1, <2>2, <2>3, <2>4, IsSequence
<1>16. symbol.at = This /\ symbol.kind = "type_alias"
    BY DEF Symbol
<1>9. Sequence(<<symbol>>) /\ Len(<<symbol>>) = 1 /\ DOMAIN <<symbol>> = 1 .. 1 /\ <<symbol>>[1].at = This
    <2>1. <<symbol>> \in Seq({symbol}) /\ Len(<<symbol>>) = 1 /\ <<symbol>>[1].at = This
        BY DEF Symbol
    <2> QED
        BY <2>1, LenProperties DEF Sequence
<1>10. This \in Tree /\ Type(This) \notin language.packageTypes /\ This # 1 /\ Owner(This) = This /\ Type(This) # "signature"
    BY <1>1, TreeFacts, LanguageFacts DEF Plain, Owner, At, IsMember
<1> DEFINE one == <<symbol>>
<1> HIDE DEF one, symbol, under
<1>11. /\ Sequence(ns)
       /\ \A i \in DOMAIN ns : \/ i = 1 /\ ns[i].at = This
                               \/ i - 1 \in DOMAIN members /\ ns[i].at = members[i - 1] /\ i \in Nat
    <2>1. Sequence(one) /\ Len(one) = 1 /\ DOMAIN one = 1 .. 1 /\ one[1].at = This /\ ns = one \o contract
        BY <1>9 DEF one
    <2>2. /\ Sequence(one \o contract) /\ Len(contract) \in Nat
          /\ DOMAIN (one \o contract) = 1 .. 1 + Len(contract)
          /\ \A i \in DOMAIN (one \o contract) :
                \/ i \in DOMAIN one /\ (one \o contract)[i] = one[i]
                \/ i - 1 \in DOMAIN contract /\ (one \o contract)[i] = contract[i - 1]
        BY <1>8, <2>1, ConcatFacts
    <2> HIDE DEF ns
    <2>3. ASSUME NEW i \in DOMAIN ns
          PROVE  \/ i = 1 /\ ns[i].at = This
                 \/ i - 1 \in DOMAIN members /\ ns[i].at = members[i - 1]
        <3>1. CASE i \in DOMAIN one /\ ns[i] = one[i]
            BY <2>1, <3>1
        <3>2. CASE i - 1 \in DOMAIN contract /\ ns[i] = contract[i - 1]
            BY <1>8, <3>2
        <3> QED
            BY <2>1, <2>2, <3>1, <3>2
    <2>4. DOMAIN ns \subseteq Nat
        BY <2>1, <2>2
    <2> QED
        BY <2>1, <2>2, <2>3, <2>4
<1> HIDE DEF ns, tasks, rs
<1>12. NewSymbols(This, tasks, ns)
    <2>1. \A i \in DOMAIN ns :
             LET a == ns[i].at
             IN  a # 1 /\ Type(a) \notin language.packageTypes /\ Reached(Owner(a), This, tasks)
        BY <1>3, <1>5, <1>6, <1>7, <1>10, <1>11
    <2>2. \A i, j \in DOMAIN ns : ns[i].at = ns[j].at => i = j
        <3>1. \A i \in DOMAIN members : members[i] # This
            BY <1>5, <1>6, <1>10
        <3>2. DOMAIN members \subseteq Nat
            BY <1>5, SequenceLength
        <3> QED
            BY <1>5, <1>11, <3>1, <3>2
    <2> QED
        BY <1>11, <2>1, <2>2 DEF NewSymbols
<1>13. nodes' = nodes \o ns
    <2>1. nodes' = (nodes \o one) \o contract
        BY <1>2 DEF one, Walking, WalkInv, OnceInv, Sequence
    <2> QED
        BY <1>8, <1>9, <2>1 DEF Walking, WalkInv, OnceInv, Sequence, ns, one
<1>14. Extracts(This, tasks, ns, rs)
    BY <1>2, <1>3, <1>4, <1>12, <1>13 DEF Extracts, Then, Add, Walking
<1>17. /\ Sequence(edges')
       /\ \A j \in DOMAIN edges : j \in DOMAIN edges' /\ edges'[j] = edges[j]
       /\ HasEdge(edges', Top, symbol.id)
       /\ \A i \in DOMAIN contract : HasEdge(edges', symbol.id, contract[i].id)
    <2> DEFINE own == <<<<Top, symbol.id>>>>
               between == edges \o own
    <2>1. Sequence(own) /\ 1 \in DOMAIN own /\ own[1] = <<Top, symbol.id>>
        BY OneOf
    <2>2. edges' = between \o under
        BY <1>2, Walks, AppendIs
    <2> HIDE DEF own
    <2>3. Grows(edges, own, between) /\ Sequence(between)
        BY <2>1, Walks, Concatenation, ConcatFacts
    <2> HIDE DEF between
    <2>4. Grows(between, under, edges') /\ Sequence(edges')
        BY <1>15, <2>2, <2>3, Concatenation, ConcatFacts
    <2>5. \A j \in DOMAIN edges : j \in DOMAIN edges' /\ edges'[j] = edges[j]
        BY <2>3, <2>4 DEF Grows
    <2>6. \E j \in DOMAIN edges' : edges'[j] = own[1]
        BY <2>1, <2>3, <2>4 DEF Grows
    <2>7. \A i \in DOMAIN contract : \E j \in DOMAIN edges' : edges'[j] = under[i]
        BY <1>15, <2>4 DEF Grows
    <2> QED
        BY <1>15, <2>1, <2>4, <2>5, <2>6, <2>7 DEF HasEdge
<1>18. /\ \A i \in DOMAIN ns : \/ ns[i] = symbol
                               \/ \E j \in DOMAIN contract : ns[i] = contract[j]
       /\ \E i \in DOMAIN ns : ns[i] = symbol
    <2>1. Sequence(one) /\ 1 \in DOMAIN one /\ \A i \in DOMAIN one : one[i] = symbol
        BY OneOf DEF one
    <2>2. Grows(one, contract, ns)
        BY <1>8, <2>1, Concatenation DEF ns, one
    <2> QED
        BY <2>1, <2>2 DEF Grows
<1>19. \A j \in DOMAIN contract : Member(contract[j].at) /\ contract[j].kind = "method"
    BY <1>5, <1>6, <1>8
<1>20. \A i \in DOMAIN ns : (ns[i] = symbol \/ Member(ns[i].at)) /\ ns[i].kind # "namespace"
    BY <1>16, <1>18, <1>19
<1>21. \A c : Member(c) => /\ Contract(c) /\ At(c) /\ c # 1 /\ Type(c) = "signature"
                           /\ ~Below(c, This)
    <2> SUFFICES ASSUME NEW c, Member(c)
                 PROVE  /\ Contract(c) /\ At(c) /\ c # 1 /\ Type(c) = "signature"
                        /\ ~Below(c, This)
        OBVIOUS
    <2>1. /\ c \in Tree \ {1} /\ Parent(c) \in Tree \ {1} /\ Parent(Parent(c)) = This
          /\ Type(c) = "signature" /\ Contract(c)
        BY DEF Member, Contract, IsMember
    <2>2. Below(This, Parent(c)) /\ Below(Parent(c), c)
        BY <1>1, <2>1, BelowFacts
    <2>3. Below(This, c)
        BY <1>1, <1>10, <2>1, <2>2, BelowFacts
    <2>4. Tree \subseteq Nat
        BY <1>1, TreeFacts
    <2>5. ~Below(c, This)
        BY <1>1, <1>10, <2>1, <2>3, <2>4, BelowFacts
    <2> QED
        BY <2>1, <2>3, <2>5 DEF At
<1>22. Fits(symbol) /\ Begins(symbol, tasks)
    <2>1. ~IsMember(This) /\ ~Below(This, This)
        BY <1>1, <1>10, TreeFacts, BelowFacts DEF IsMember
    <2>2. \A i \in DOMAIN ns : Encloses(ns[i]) => ~Below(ns[i].at, symbol.at)
        BY <1>16, <1>20, <1>21, <2>1
    <2>3. Placed(nodes', edges', symbol)
        BY <1>1, <1>11, <1>13, <1>16, <1>17, <1>20, <2>1, <2>2, PlacedUnderTop DEF Declaring
    <2> QED
        BY <1>1, <1>10, <1>16, <2>3 DEF Fits, Begins, Plain
<1>23. ASSUME NEW j \in DOMAIN contract
       PROVE  Fits(contract[j]) /\ Begins(contract[j], tasks)
    <2> DEFINE s == contract[j]
    <2>1. Member(s.at) /\ s.kind = "method" /\ HasEdge(edges', symbol.id, s.id)
        BY <1>17, <1>19
    <2> HIDE DEF s
    <2>2. \E i \in DOMAIN nodes' : nodes'[i] = symbol
        <3>1. Grows(nodes, ns, nodes')
            BY <1>11, <1>13, Walks, Concatenation
        <3> QED
            BY <1>18, <3>1 DEF Grows
    <2>3. Placed(nodes', edges', s)
        BY <1>16, <2>1, <2>2 DEF Placed, BelongsTo, Member
    <2> QED
        BY <1>21, <2>1, <2>3 DEF Fits, Begins, s
<1>24. \A j \in DOMAIN tasks : Held(nodes', tasks[j], TopAfter)
    <2>1. \A i \in DOMAIN ns : ns[i].kind # "namespace" /\ ~Encloses(ns[i])
        BY <1>16, <1>20 DEF Encloses, Scopes, Member
    <2>2. TopAfter = Top
        BY <1>2, <1>3, SchedulesFlat DEF Unfolds, InTextOrder
    <2> QED
        BY <1>3, <1>11, <1>13, <2>1, <2>2, DeclaringPays, HeldBelow
<1>25. \A k \in DOMAIN rs : Sent(nodes', rs[k])
    BY <1>4 DEF Silent, Sent
<1>26. Schedules(tasks, nodeStack, nodeStack')
    BY <1>2, <1>3, SchedulesFlat DEF Unfolds, InTextOrder
<1>27. \A i \in DOMAIN ns : Fits(ns[i]) /\ Begins(ns[i], tasks)
    BY <1>18, <1>22, <1>23
<1>28. Attributes(tasks, ns, rs)
    BY <1>17, <1>24, <1>25, <1>26, <1>27, DeclaringPays DEF Attributes
<1> QED
    BY <1>14, <1>28, WalkStep

(* One reference of a kind that the node itself makes.                     *)
LEMMA OwnReference ==
    ASSUME Walking, NEW n, NEW tasks, Reached(n, n, tasks), Type(n) \notin Plain, NEW kind,
           kind \in {"calls", "instantiates", "imports"}
    PROVE  /\ NewReferences(n, tasks, <<Reference(Top, kind, n)>>)
           /\ kind # "imports" => Made(<<Reference(Top, kind, n)>>, Top, n)
<1> DEFINE r == Reference(Top, kind, n)
           rs == <<r>>
<1>0. program \in Programs /\ n \in Tree
    BY Walks DEF Reached
<1>1. r.at = n /\ r.kind = kind /\ r.from = Top
    BY DEF Reference
<1> HIDE DEF r
<1>2. Sequence(rs) /\ DOMAIN rs = {1} /\ rs[1] = r
    BY OneOf
<1> HIDE DEF rs
<1>3. Claims(n, kind, n)
    BY DEF Claims
<1>4. \A i \in DOMAIN rs : rs[i].at \in Tree /\ \E m \in Tree : Claims(m, rs[i].kind, rs[i].at) /\ Reached(m, n, tasks)
    BY <1>0, <1>1, <1>2, <1>3
<1>5. Type(n) \notin language.packageTypes
    BY <1>0, TreeFacts, LanguageFacts DEF Plain
<1>6. FromTop(rs)
    BY <1>1, <1>2, <1>5 DEF FromTop
<1>7. NewReferences(n, tasks, rs)
    BY <1>2, <1>4, <1>6 DEF NewReferences
<1>8. kind # "imports" => Made(rs, Top, n)
    BY <1>1, <1>2 DEF Made
<1> QED
    BY <1>7, <1>8 DEF rs, r

LEMMA ImportStep ==
    ASSUME Walking, Declaring, Type(This) \notin Plain, ExtractImport(This)
    PROVE  WalkInv'
<1> DEFINE tasks == Tasks("visit", Children(This))
           rs == <<Reference(Top, "imports", This)>>
<1>1. At(This)
    BY Walks
<1>2. Unfolds(This, tasks) /\ Reached(This, This, tasks) /\ Flat(tasks)
    BY <1>1, SequenceOfChildren, TasksAre, ChildrenTasks DEF Covers
<1>3. Leaf(Symbol("import", Name(This), This), tasks) /\ Add(rs)
    BY DEF ExtractImport
<1> HIDE DEF tasks
<1>4. NewReferences(This, tasks, rs)
    BY <1>2, OwnReference
<1> HIDE DEF rs
<1>5. IsLeaf("import", tasks, rs)
    BY DEF IsLeaf, Scopes
<1> QED
    BY <1>2, <1>3, <1>4, <1>5, Leaves

LEMMA CallStep ==
    ASSUME Walking, Type(This) \notin Plain, NEW do, do = Head(agenda).do, do = "visit" \/ do = "body",
           NEW kind, kind = "calls" \/ kind = "instantiates",
           Then(Tasks(do, Children(This))), Add(<<Reference(Top, kind, This)>>),
           UNCHANGED <<nodeStack, nodes, edges>>
    PROVE  WalkInv'
<1> DEFINE tasks == Tasks(do, Children(This))
           rs == <<Reference(Top, kind, This)>>
<1>1. At(This)
    BY Walks
<1>2. Covers(This, tasks)
    <2>1. do \in {"visit", "body", "block"}
        OBVIOUS
    <2> QED
        BY <1>1, <2>1, SequenceOfChildren, TasksAre, ChildrenTasks
<1>3. Then(tasks) /\ Add(rs) /\ nodeStack' = nodeStack
    OBVIOUS
<1>4. NewReferences(This, tasks, rs) /\ Made(rs, Top, This)
    <2>1. kind \in {"calls", "instantiates", "imports"} /\ kind # "imports"
        OBVIOUS
    <2> HIDE DEF tasks
    <2> QED
        BY <1>2, <2>1, OwnReference DEF Covers
<1> HIDE DEF rs
<1>5. Pays(tasks, rs) /\ Blocks(tasks)
    BY <1>3, <1>4, ChildrenPay
<1> HIDE DEF tasks
<1> QED
    BY <1>2, <1>3, <1>4, <1>5, Moves DEF Covers

(* What an anonymous class leaves: that it is made, and what it extends.   *)
LEMMA AnonymousReferences ==
    ASSUME Walking, NEW n, NEW tasks, Reached(n, n, tasks), Type(n) = "new", NEW id
    PROVE  LET rs == <<Reference(Top, "instantiates", n), Reference(id, "extends", n)>>
           IN  /\ NewReferences(n, tasks, rs) /\ Made(rs, Top, n)
               /\ \A i \in DOMAIN rs : rs[i].at = n
<1> DEFINE a == Reference(Top, "instantiates", n)
           b == Reference(id, "extends", n)
           rs == <<a, b>>
<1>0. program \in Programs /\ n \in Tree /\ Type(n) \notin Plain
    BY Walks DEF Reached, Plain
<1>1. /\ a.at = n /\ b.at = n /\ a.kind = "instantiates" /\ b.kind = "extends"
      /\ a.from = Top
    BY DEF Reference
<1> HIDE DEF a, b
<1>2. rs \in Seq({a, b}) /\ Len(rs) = 2 /\ rs[1] = a /\ rs[2] = b
    OBVIOUS
<1>3. Sequence(rs) /\ DOMAIN rs = 1 .. 2
    BY <1>2, LenProperties DEF Sequence
<1>4. Claims(n, "instantiates", n) /\ Claims(n, "extends", n)
    BY <1>0 DEF Claims
<1> HIDE DEF rs
<1>5. \A i \in DOMAIN rs : (i = 1 /\ rs[i] = a) \/ (i = 2 /\ rs[i] = b)
    BY <1>2, <1>3
<1>6. \A i \in DOMAIN rs : rs[i].at \in Tree /\ \E m \in Tree : Claims(m, rs[i].kind, rs[i].at) /\ Reached(m, n, tasks)
    BY <1>0, <1>1, <1>4, <1>5
<1>7. \A i, j \in DOMAIN rs : rs[i].kind = rs[j].kind => i = j
    BY <1>1, <1>5
<1>8. Type(n) \notin language.packageTypes
    BY <1>0, TreeFacts, LanguageFacts DEF Plain
<1>9. FromTop(rs)
    BY <1>1, <1>5, <1>8, OtherKinds DEF FromTop
<1>10. NewReferences(n, tasks, rs)
    BY <1>3, <1>6, <1>7, <1>9 DEF NewReferences
<1>11. Made(rs, Top, n)
    BY <1>1, <1>2, <1>3 DEF Made
<1>12. \A i \in DOMAIN rs : rs[i].at = n
    BY <1>1, <1>5
<1> QED
    BY <1>10, <1>11, <1>12 DEF rs, a, b

LEMMA InstantiationStep ==
    ASSUME Walking, Type(This) = "new", NEW do, do = Head(agenda).do, do = "visit" \/ do = "body",
           ExtractInstantiation(This, do)
    PROVE  WalkInv'
<1> DEFINE body == ChildrenIn(This, {"classbody"})
           symbol == Symbol("class", 0, This)
           inside == Tasks("visit", Children(body[1]))
           instantiates == Reference(Top, "instantiates", This)
           rs == <<instantiates, Reference(symbol.id, "extends", This)>>
<1>1. program \in Programs /\ At(This) /\ Type(This) \notin Plain
    BY Walks DEF Plain
<1>2. CASE body = <<>>
    BY <1>1, <1>2, CallStep DEF ExtractInstantiation
<1>3. CASE body # <<>>
    <2>1. OpenScope(symbol, inside) /\ Add(rs)
        BY <1>3 DEF ExtractInstantiation
    <2>2. At(body[1]) /\ body[1] \in Tree \ {1} /\ Parent(body[1]) = This
        <3>1. Sequence(body) /\ \A i \in DOMAIN body : /\ At(body[i]) /\ body[i] \in Tree
                                                       /\ Type(body[i]) \in {"classbody"}
                                                       /\ Parent(body[i]) = This
            BY <1>1, SequenceOfChildren
        <3>2. 1 \in DOMAIN body
            BY <1>3, <3>1, TailFacts
        <3>3. Type(1) = "file"
            BY <1>1, TreeFacts
        <3> QED
            BY <3>1, <3>2, <3>3
    <2>3. ~IsTransparent(This)
        <3>1. "new" \in StructureInBodies /\ "new" \notin language.callTypes
            BY <1>1, TreeFacts, LanguageFacts DEF StructureInBodies
        <3> QED
            BY <1>3, <3>1 DEF IsTransparent
    <2> HIDE DEF body
    <2>4. Covers(body[1], inside)
        BY <2>2, SequenceOfChildren, TasksAre, ChildrenTasks
    <2> HIDE DEF inside
    <2>5. Unfolds(This, inside) /\ Flat(inside) /\ Reached(This, This, inside)
        BY <2>4 DEF Covers
    <2>6. Reached(This, This, inside \o PopScope)
        BY <2>5, ScopedTasks
    <2>7. NewReferences(This, inside \o PopScope, rs) /\ Made(rs, Top, This)
          /\ \A i \in DOMAIN rs : rs[i].at = This
        BY <2>6, AnonymousReferences
    <2> HIDE DEF rs
    <2>8. Pays(inside \o PopScope, rs) /\ Head(agenda).do # "block"
        BY <2>3, <2>7 DEF Pays
    <2>9. IsOpened("class", This, inside, rs)
        BY <2>5, <2>7 DEF IsOpened, Scopes
    <2>10. /\ nodes' = nodes \o <<symbol>> /\ Linked(Top, symbol.id)
           /\ nodeStack' = Append(nodeStack, symbol.id) /\ Then(inside \o PopScope)
        BY <2>1, LinkedUnder DEF OpenScope
    <2> HIDE DEF symbol
    <2> QED
        BY <1>1, <2>1, <2>5, <2>7, <2>8, <2>9, <2>10, Opens DEF symbol
<1> QED
    BY <1>2, <1>3

LEMMA ImplStep ==
    ASSUME Walking, Declaring, ExtractRustImplItem(This)
    PROVE  WalkInv'
<1> DEFINE tasks == Tasks("visit", Children(This))
           types == SymbolsOf({"struct", "enum", "class"}, {Name(This)})
           found == ReferencesTo(types[1].id, "implements", ChildrenIn(This, {"base"}))
           rs == IF types = <<>> THEN <<>> ELSE found
<1>1. program \in Programs /\ At(This) /\ This \in Tree
    BY Walks
<1>2. Unfolds(This, tasks) /\ Reached(This, This, tasks) /\ Flat(tasks)
    BY <1>1, SequenceOfChildren, TasksAre, ChildrenTasks DEF Covers
<1>3. Then(tasks) /\ Add(rs) /\ UNCHANGED <<nodeStack, nodes, edges>>
    BY DEF ExtractRustImplItem
<1> HIDE DEF tasks, types
<1>4. NewReferences(This, tasks, found) /\ NewReferences(This, tasks, <<>>)
    BY <1>1, <1>2, InheritanceFacts, NothingNew
<1> HIDE DEF found
<1>5. NewReferences(This, tasks, rs)
    BY <1>4
<1> HIDE DEF rs
<1> QED
    BY <1>2, <1>3, <1>5, DeclaringPays, Moves

LEMMA SignatureStep ==
    ASSUME Walking, Declaring, VisitSignature(This)
    PROVE  WalkInv'
<1> DEFINE tasks == Tasks("visit", Children(This))
           rs == ExtractTypeAnnotations(This, Top)
<1>1. program \in Programs /\ At(This)
    BY Walks
<1>2. Unfolds(This, tasks) /\ Flat(tasks)
    BY <1>1, SequenceOfChildren, TasksAre, ChildrenTasks DEF Covers
<1>3. Then(tasks) /\ Add(rs) /\ UNCHANGED <<nodeStack, nodes, edges>>
    BY DEF VisitSignature
<1> HIDE DEF tasks
<1>4. NewReferences(This, tasks, rs)
    BY <1>1, AnnotationFacts
<1> HIDE DEF rs
<1> QED
    BY <1>2, <1>3, <1>4, DeclaringPays, Moves

LEMMA DispatchedIsDeclared ==
    ASSUME Walking, Type(This) \in Declared(language)
    PROVE  Type(This) \notin Plain
BY Walks, TreeFacts, LanguageFacts

LEMMA DispatchedMayRefer ==
    ASSUME Walking
    PROVE  /\ Type(This) \in language.structTypes /\ Type(This) # "structRef" => Type(This) \notin Plain
           /\ Type(This) \in language.enumTypes /\ Type(This) # "enumRef" => Type(This) \notin Plain
           /\ Type(This) \in language.callTypes => Type(This) \notin Plain
           /\ Type(This) \in language.propertyTypes \cup language.fieldTypes =>
                 Type(This) = "property" \/ Type(This) = "field"
<1>1. language \in Known
    BY Walks, TreeFacts
<1>2. language.propertyTypes \cup language.fieldTypes \subseteq {"property", "field"}
    BY <1>1, LanguageFacts
<1> QED
    BY <1>2, DispatchedIsDeclared DEF Declared

LEMMA VisitStep ==
    ASSUME WalkInv, VisitNode
    PROVE  WalkInv'
<1> USE DEF Visiting, Doing, SameProgram
<1>1. Walking
    BY DEF Walking, VisitNode, VisitFunction, VisitMethod, VisitClass, VisitInterface,
       VisitStruct, VisitEnum, VisitTypeAlias, VisitMember, VisitVariable, VisitImport,
       VisitCall, VisitNew, VisitImpl, VisitContract, VisitOther
<1>2. At(This)
    BY <1>1, Walks
<1>18. Head(agenda).do = "visit"
    BY DEF VisitNode, VisitFunction, VisitMethod, VisitClass, VisitInterface,
       VisitStruct, VisitEnum, VisitTypeAlias, VisitMember, VisitVariable, VisitImport,
       VisitCall, VisitNew, VisitImpl, VisitContract, VisitOther
<1>19. Declaring
    BY <1>18, VisitsDeclare
<1>3. CASE VisitFunction
    <2>1. Type(This) \notin Plain
        BY <1>1, <1>3, DispatchedIsDeclared DEF VisitFunction, Declared
    <2> QED
        BY <1>1, <1>2, <1>3, <1>19, <2>1, MethodStep, FunctionStep DEF VisitFunction
<1>4. CASE VisitMethod
    <2>1. Type(This) \notin Plain
        BY <1>1, <1>4, DispatchedIsDeclared DEF VisitMethod, Declared
    <2> QED
        BY <1>1, <1>2, <1>4, <1>19, <2>1, MethodStep DEF VisitMethod
<1>5. CASE VisitClass
    <2>1. Type(This) \notin Plain
        BY <1>1, <1>5, DispatchedIsDeclared DEF VisitClass, Declared
    <2> QED
        BY <1>1, <1>5, <1>19, <2>1, ClassStep DEF VisitClass
<1>6. CASE VisitInterface
    <2>1. Type(This) \notin Plain
        BY <1>1, <1>6, DispatchedIsDeclared DEF VisitInterface, Declared
    <2> QED
        BY <1>1, <1>6, <1>19, <2>1, InterfaceStep DEF VisitInterface
<1>7. CASE VisitStruct
    BY <1>1, <1>7, <1>19, DispatchedMayRefer, StructStep DEF VisitStruct
<1>8. CASE VisitEnum
    BY <1>1, <1>8, <1>19, DispatchedMayRefer, EnumStep DEF VisitEnum
<1>9. CASE VisitTypeAlias
    <2>1. Type(This) \notin Plain
        BY <1>1, <1>9, DispatchedIsDeclared DEF VisitTypeAlias, Declared
    <2> QED
        BY <1>1, <1>9, <1>19, <2>1, WrappedStep, TypeAliasStep DEF VisitTypeAlias
<1>10. CASE VisitMember
    <2>1. Type(This) \notin Plain
        BY <1>1, <1>10, DispatchedIsDeclared DEF VisitMember, Declared
    <2>2. Type(This) = "property" \/ Type(This) = "field"
        BY <1>1, <1>10, DispatchedMayRefer DEF VisitMember
    <2> QED
        BY <1>1, <1>10, <1>19, <2>1, <2>2, PropertyStep DEF VisitMember
<1>11. CASE VisitVariable
    <2>1. Type(This) \notin Plain
        BY <1>1, <1>11, DispatchedIsDeclared DEF VisitVariable, Declared
    <2> QED
        BY <1>1, <1>11, <1>19, <2>1, VariableStep DEF VisitVariable
<1>12. CASE VisitImport
    <2>1. Type(This) \notin Plain
        BY <1>1, <1>12, DispatchedIsDeclared DEF VisitImport, Declared
    <2> QED
        BY <1>1, <1>12, <1>19, <2>1, ImportStep DEF VisitImport
<1>13. CASE VisitCall
    BY <1>1, <1>13, <1>18, DispatchedMayRefer, CallStep DEF VisitCall, ExtractCall
<1>14. CASE VisitNew
    BY <1>1, <1>14, <1>18, InstantiationStep DEF VisitNew
<1>15. CASE VisitImpl
    BY <1>1, <1>15, <1>19, ImplStep DEF VisitImpl
<1>16. CASE VisitContract
    BY <1>1, <1>16, <1>19, SignatureStep DEF VisitContract
<1>17. CASE VisitOther
    BY <1>1, <1>2, <1>17, <1>18, VisitsChildren DEF VisitOther
<1> QED
    BY <1>3, <1>4, <1>5, <1>6, <1>7, <1>8, <1>9, <1>10, <1>11, <1>12, <1>13, <1>14, <1>15,
       <1>16, <1>17 DEF VisitNode

LEMMA BodyStep ==
    ASSUME WalkInv, VisitFunctionBody
    PROVE  WalkInv'
<1> USE DEF InBodyOf, Doing, SameProgram
<1>1. Walking
    BY DEF Walking, VisitFunctionBody, BodyCall, BodyNew, BodyFunction, BodyType, BodyOther
<1>2. At(This) /\ language \in Known
    BY <1>1, Walks, TreeFacts
<1>3. Head(agenda).do = "body"
    BY DEF VisitFunctionBody, BodyCall, BodyNew, BodyFunction, BodyType, BodyOther
<1>4. "arrow" \notin language.callTypes /\ "arrow" \notin TypeDeclarations(language)
    BY <1>2, LanguageFacts
<1>5. CASE BodyCall
    BY <1>1, <1>3, <1>5, DispatchedMayRefer, CallStep DEF BodyCall, ExtractCall
<1>6. CASE BodyNew
    BY <1>1, <1>3, <1>6, InstantiationStep DEF BodyNew
<1>7. CASE BodyFunction
    <2>1. Type(This) \notin Plain
        BY <1>1, <1>7, DispatchedIsDeclared DEF BodyFunction, Declared
    <2>2. Declaring
        BY <1>1, <1>3, <1>7, BodiesDeclare DEF BodyFunction, IsAnonymous
    <2> QED
        BY <1>1, <1>2, <1>7, <2>1, <2>2, FunctionStep DEF BodyFunction
<1>8. CASE BodyType
    <2>1. Type(This) \in TypeDeclarations(language)
        BY <1>8 DEF BodyType, TypeDeclarations
    <2>2. Declaring
        BY <1>1, <1>3, <1>4, <2>1, BodiesDeclare
    <2>3. CASE Type(This) \in language.classTypes /\ ExtractClass(This, "class")
        <3>1. Type(This) \notin Plain
            BY <1>1, <2>3, DispatchedIsDeclared DEF Declared
        <3> QED
            BY <1>1, <2>2, <2>3, <3>1, ClassStep
    <2>4. CASE Type(This) \in language.structTypes /\ ExtractStruct(This)
        BY <1>1, <2>2, <2>4, DispatchedMayRefer, StructStep
    <2>5. CASE Type(This) \in language.enumTypes /\ ExtractEnum(This)
        BY <1>1, <2>2, <2>5, DispatchedMayRefer, EnumStep
    <2>6. CASE Type(This) \in language.interfaceTypes /\ ExtractInterface(This)
        <3>1. Type(This) \notin Plain
            BY <1>1, <2>6, DispatchedIsDeclared DEF Declared
        <3> QED
            BY <1>1, <2>2, <2>6, <3>1, InterfaceStep
    <2> QED
        BY <1>8, <2>3, <2>4, <2>5, <2>6 DEF BodyType
<1>9. CASE BodyOther
    <2>1. Type(This) \notin Calls
        BY <1>4, <1>9 DEF BodyOther, Calls, StructureInBodies, IsAnonymous
    <2> QED
        BY <1>1, <1>2, <1>3, <1>9, <2>1, VisitsChildren DEF BodyOther
<1> QED
    BY <1>5, <1>6, <1>7, <1>8, <1>9 DEF VisitFunctionBody

(* The walk of Pascal.                                                     *)
LEMMA UnitStep ==
    ASSUME Walking, PascalUnit
    PROVE  WalkInv'
<1> DEFINE tasks == Tasks("visit", Children(This))
<1>1. At(This)
    BY Walks
<1>2. Unfolds(This, tasks) /\ Reached(This, This, tasks) /\ Flat(tasks)
    BY <1>1, SequenceOfChildren, TasksAre, ChildrenTasks DEF Covers
<1>3. /\ Leaf(Symbol("module", Name(This), This), tasks) /\ Type(This) = "unit"
      /\ Add(<<>>) /\ Head(agenda).do = "visit"
    BY Walks DEF PascalUnit, InPascal, Visiting, Doing, Add
<1> HIDE DEF tasks
<1>4. Type(This) \notin Plain /\ Declaring
    BY <1>3, VisitsDeclare DEF Plain
<1>5. IsLeaf("module", tasks, <<>>)
    BY DEF IsLeaf, Scopes
<1> QED
    BY <1>2, <1>3, <1>4, <1>5, NothingNew, Leaves

LEMMA DeclTypeStep ==
    ASSUME Walking, PascalDeclType
    PROVE  WalkInv'
<1> DEFINE list == ChildrenIn(This, {"declClass", "declIntf", "declEnum"})
           inner == list[1]
           kind == IF list = <<>> THEN "type_alias"
                   ELSE CASE Type(inner) = "declClass" -> "class"
                          [] Type(inner) = "declIntf"  -> "interface"
                          [] Type(inner) = "declEnum"  -> "enum"
           values == ChildrenIn(inner, {"declEnumValue"})
           members == Tasks("member", values)
           visits == Tasks("visit", Children(inner))
           bases == ExtractInheritance(inner, Id(kind, Name(This), This))
           rs == IF kind = "class" THEN bases ELSE <<>>
<1>1. program \in Programs /\ At(This)
    BY Walks
<1>2. /\ Type(This) = "declType" /\ Head(agenda).do = "visit" /\ Add(rs)
      /\ \/ kind = "type_alias" /\ Leaf(Symbol(kind, Name(This), This), <<>>)
         \/ kind = "enum" /\ OpenScope(Symbol(kind, Name(This), This), members)
         \/ /\ kind \in {"class", "interface"}
            /\ OpenScope(Symbol(kind, Name(This), This), visits)
    BY DEF PascalDeclType, InPascal, Visiting, Doing, Symbol
<1>3. Type(This) \notin Plain /\ Declaring
    BY <1>2, VisitsDeclare DEF Plain
<1>4. list # <<>> => At(inner) /\ Type(inner) \in {"declClass", "declIntf", "declEnum"}
    <2>1. /\ Sequence(list)
          /\ \A i \in DOMAIN list :
                At(list[i]) /\ Type(list[i]) \in {"declClass", "declIntf", "declEnum"}
        BY <1>1, SequenceOfChildren
    <2> HIDE DEF list
    <2> QED
        BY <2>1, TailFacts
<1>5. /\ list = <<>> <=> kind = "type_alias"
      /\ list # <<>> => IsTypeKind(kind)
    BY <1>4 DEF IsTypeKind
<1> HIDE DEF kind, list, bases
<1>6. CASE list = <<>>
    <2>1. Leaf(Symbol("type_alias", Name(This), This), <<>>) /\ references' = references
        BY <1>2, <1>5, <1>6, Walks DEF Add
    <2>2. IsLeaf("type_alias", <<>>, <<>>)
        BY SilentNothing DEF IsLeaf
    <2> QED
        BY <1>3, <2>1, <2>2, SymbolAlone
<1>7. CASE list # <<>>
    <2>1. At(inner) /\ inner \in Tree
        BY <1>4, <1>7 DEF At
    <2>2. Covers(inner, visits)
        BY <2>1, SequenceOfChildren, TasksAre, ChildrenTasks
    <2>3. Covers(inner, members)
        <3>1. Sequence(values) /\ \A i \in DOMAIN values : Type(values[i]) = "declEnumValue"
            BY <2>1, SequenceOfChildren
        <3>2. \A i \in DOMAIN values : Meant([do |-> "member", on |-> values[i]])
            BY <3>1 DEF Meant
        <3>3. AreTasks(members, values)
            BY <3>1, <3>2, GivenTasksAre
        <3> HIDE DEF members
        <3> QED
            BY <2>1, <3>3, ChildrenTasks
    <2> HIDE DEF members, visits, inner
    <2>4. PICK tasks : OpenScope(Symbol(kind, Name(This), This), tasks) /\ Covers(inner, tasks)
        BY <1>2, <1>5, <1>7, <2>2, <2>3
    <2>5. Reached(inner, This, tasks \o PopScope) /\ Unfolds(This, tasks) /\ Flat(tasks)
          /\ Reached(This, This, tasks)
        BY <2>4, ScopedTasks DEF Covers
    <2>6. /\ NewReferences(This, tasks \o PopScope, bases) /\ Silent(bases)
          /\ NewReferences(This, tasks \o PopScope, <<>>)
        BY <1>1, <2>1, <2>5, InheritanceFacts, NothingNew DEF bases
    <2>7. NewReferences(This, tasks \o PopScope, rs) /\ Silent(rs)
        BY <2>6, SilentNothing
    <2> HIDE DEF rs
    <2>8. IsOpened(kind, This, tasks, rs)
        BY <1>5, <1>7, <2>5, <2>7, TypeOpens
    <2> QED
        BY <1>2, <1>3, <2>4, <2>5, <2>7, <2>8, OpensScope
<1> QED
    BY <1>6, <1>7

LEMMA UsesStep ==
    ASSUME Walking, PascalUses
    PROVE  WalkInv'
<1> DEFINE units == Children(This)
           ns == [i \in DOMAIN units |-> Symbol("import", Name(units[i]), units[i])]
           rs == ReferencesTo(Top, "imports", units)
           under == [i \in DOMAIN ns |-> <<Top, ns[i].id>>]
<1>1. program \in Programs /\ At(This) /\ This \in Tree
    BY Walks
<1>2. /\ language.pascal /\ nodes' = nodes \o ns /\ Add(rs) /\ Then(<<>>)
      /\ edges' = edges \o under /\ nodeStack' = nodeStack /\ Head(agenda).do = "visit"
    BY DEF PascalUses, InPascal, Visiting, Doing, CreateUnder
<1>3. /\ Sequence(units) /\ Len(units) \in Nat /\ DOMAIN units = 1 .. Len(units)
      /\ \A i \in DOMAIN units : units[i] \in Tree \ {1} /\ Parent(units[i]) = This
      /\ \A i, j \in DOMAIN units : units[i] = units[j] => i = j
    <2> DEFINE all == {c \in Tree : Parent(c) = This}
    <2>1. /\ Sequence(InOrder(all))
          /\ \A i \in DOMAIN InOrder(all) :
                InOrder(all)[i] \in Tree \ {1} /\ Parent(InOrder(all)[i]) = This
          /\ \A i, j \in DOMAIN InOrder(all) : InOrder(all)[i] = InOrder(all)[j] => i = j
        BY <1>1, ChildrenFacts
    <2>2. units = InOrder(all)
        BY DEF Children
    <2> HIDE DEF all, units
    <2> QED
        BY <2>1, <2>2, SequenceLength
<1>4. \A c \in Tree : Owner(c) = c /\ Type(c) \notin language.packageTypes /\ ~IsMember(c)
    BY <1>1, <1>2, TreeFacts, LanguageFacts DEF Owner, IsMember
<1> HIDE DEF units
<1>5. \A i \in DOMAIN units : Reached(units[i], This, <<>>) /\ At(units[i])
    BY <1>1, <1>3, BelowIsAt, Alone
<1>6. /\ DOMAIN ns = DOMAIN units /\ Sequence(ns)
      /\ \A i \in DOMAIN units : ns[i].at = units[i] /\ ns[i].kind = "import"
    <2>1. /\ DOMAIN ns = DOMAIN units
          /\ \A i \in DOMAIN units : ns[i].at = units[i] /\ ns[i].kind = "import"
        BY DEF Symbol
    <2> DEFINE s(i) == Symbol("import", Name(units[i]), units[i])
    <2>2. ns = [i \in 1 .. Len(units) |-> s(i)]
        BY <1>3
    <2> HIDE DEF s
    <2>3. Sequence(ns)
        BY <1>3, <2>2, IsSequence
    <2> HIDE DEF ns
    <2> QED
        BY <2>1, <2>3
<1>7. NewReferences(This, <<>>, rs)
    <2>1. \A i \in DOMAIN units :
             /\ units[i] \in Tree /\ Type(units[i]) \notin language.packageTypes
             /\ \E m \in Tree : Claims(m, "imports", units[i]) /\ Reached(m, This, <<>>)
        BY <1>3, <1>4, <1>5 DEF Claims
    <2> QED
        BY <1>3, <2>1, SomeReferences
<1> HIDE DEF ns, rs
<1>8. NewSymbols(This, <<>>, ns)
    BY <1>3, <1>4, <1>5, <1>6 DEF NewSymbols
<1>9. Extracts(This, <<>>, ns, rs)
    BY <1>2, <1>7, <1>8, Alone DEF Extracts, Then, Add, Walking
<1>10. Declaring /\ Sequence(<<>>) /\ DOMAIN <<>> = {} /\ Flat(<<>>)
    BY <1>2, VisitsDeclare, NothingNew, Alone
<1>11. Schedules(<<>>, nodeStack, nodeStack')
    BY <1>2, <1>10, SchedulesFlat
<1>12. /\ Sequence(edges') /\ \A j \in DOMAIN edges : j \in DOMAIN edges' /\ edges'[j] = edges[j]
       /\ \A i \in DOMAIN ns : HasEdge(edges', Top, ns[i].id)
    <2>1. under = [i \in 1 .. Len(units) |-> under[i]]
        BY <1>3, <1>6
    <2>2. DOMAIN under = DOMAIN ns /\ \A i \in DOMAIN ns : under[i] = <<Top, ns[i].id>>
        OBVIOUS
    <2> HIDE DEF under
    <2>3. Sequence(under)
        BY <1>3, <2>1, IsSequence
    <2>4. Grows(edges, under, edges') /\ Sequence(edges')
        BY <1>2, <2>3, Walks, Concatenation, ConcatFacts
    <2>5. \A j \in DOMAIN edges : j \in DOMAIN edges' /\ edges'[j] = edges[j]
        BY <2>4 DEF Grows
    <2>6. ASSUME NEW i \in DOMAIN ns PROVE HasEdge(edges', Top, ns[i].id)
        <3>1. \E j \in DOMAIN edges' : edges'[j] = under[i]
            BY <2>2, <2>4 DEF Grows
        <3> QED
            BY <2>2, <3>1 DEF HasEdge
    <2> QED
        BY <2>4, <2>5, <2>6
<1>13. \A i \in DOMAIN ns : ns[i].kind # "namespace" /\ ~Encloses(ns[i])
    BY <1>6 DEF Scopes, Encloses
<1>14. ASSUME NEW i \in DOMAIN ns PROVE Fits(ns[i]) /\ Begins(ns[i], <<>>)
    <2> DEFINE s == ns[i]
    <2>1. s.at = units[i] /\ s.kind = "import" /\ HasEdge(edges', Top, s.id)
        BY <1>6, <1>12
    <2>2. At(s.at) /\ s.at \in Tree \ {1} /\ ~IsMember(s.at) /\ Owner(s.at) = s.at
        BY <1>3, <1>4, <1>5, <1>6, <2>1
    <2> HIDE DEF s
    <2>3. Placed(nodes', edges', s)
        BY <1>2, <1>6, <1>10, <1>13, <2>1, <2>2, PlacedUnderTop DEF Declaring
    <2> QED
        BY <2>1, <2>2, <2>3 DEF Fits, Begins, s, Scopes
<1>15. \A k \in DOMAIN rs : Sent(nodes', rs[k])
    BY <1>2, <1>6, <1>7, <1>13, SentFromTop
<1>16. Attributes(<<>>, ns, rs)
    BY <1>10, <1>11, <1>12, <1>14, <1>15, DeclaringPays DEF Attributes
<1> QED
    BY <1>9, <1>16, WalkStep

(* A procedure is walked in the scope of its declaration, which need not   *)
(* be around it.                                                           *)
LEMMA DefProcStep ==
    ASSUME Walking, PascalDefProc
    PROVE  WalkInv'
<1> DEFINE tasks == Tasks("block", Children(This))
           all == tasks \o PopScope
<1>1. program \in Programs /\ At(This) /\ This \in Tree
    BY Walks
<1>2. /\ Type(This) = "defProc" /\ Head(agenda).do = "visit"
      /\ Then(all) /\ Add(<<>>) /\ nodes' = nodes \o <<>> /\ edges' = edges
    BY Walks DEF PascalDefProc, InPascal, Visiting, Doing, Add
<1>3. PICK id : nodeStack' = Append(nodeStack, id)
    BY DEF PascalDefProc
<1>4. Covers(This, tasks)
    BY <1>1, SequenceOfChildren, TasksAre, ChildrenTasks
<1>5. \A j \in DOMAIN tasks : tasks[j].do = "block"
    BY DEF Tasks
<1> HIDE DEF tasks
<1>6. Unfolds(This, all) /\ Sequence(tasks) /\ Flat(tasks)
    BY <1>4, ScopedTasks DEF Covers, Unfolds, InTextOrder
<1>7. /\ Schedules(all, nodeStack, nodeStack')
      /\ Grows(tasks, PopScope, all) /\ \A j \in DOMAIN PopScope : PopScope[j].do = "pop"
    BY <1>3, <1>6, SchedulesScope
<1> HIDE DEF all
<1>8. \A j \in DOMAIN tasks : tasks[j].do = "block" /\ InDefProc(tasks[j].on)
    BY <1>2, <1>4, <1>5 DEF Covers, Unfolds, InDefProc, Below
<1>9. \A j \in DOMAIN all : Held(nodes', all[j], TopAfter)
    BY <1>7, <1>8 DEF Grows, Held
<1>10. Extracts(This, all, <<>>, <<>>)
    BY <1>2, <1>6, NothingNew DEF Extracts, Then, Add, Walking
<1>11. DOMAIN <<>> = {} /\ Declaring
    BY <1>2, NothingNew, VisitsDeclare
<1>12. Attributes(all, <<>>, <<>>)
    BY <1>2, <1>7, <1>9, <1>11, Walks, DeclaringPays DEF Attributes
<1> QED
    BY <1>10, <1>12, WalkStep

LEMMA PascalStep ==
    ASSUME WalkInv, VisitPascal
    PROVE  WalkInv'
<1> USE DEF InPascal, Visiting, Doing, SameProgram
<1>1. Walking
    BY DEF Walking, VisitPascal, PascalUnit, PascalDeclType, PascalUses, PascalMember,
       PascalDefProc, PascalCall, PascalBlock
<1>2. At(This) /\ program \in Programs /\ This \in Tree
    BY <1>1, Walks
<1>3. CASE PascalUnit
    BY <1>1, <1>3, UnitStep
<1>4. CASE PascalDeclType
    BY <1>1, <1>4, DeclTypeStep
<1>5. CASE PascalUses
    BY <1>1, <1>5, UsesStep
<1>6. CASE PascalMember
    <2> DEFINE kind == PascalKind[Type(This)]
    <2>1. /\ Type(This) \in {"declConst", "declVar", "declProp", "declField"}
          /\ Head(agenda).do = "visit" /\ references' = references
          /\ Leaf(Symbol(kind, Name(This), This), <<>>)
        BY <1>6 DEF PascalMember, PascalKind
    <2>2. Type(This) \notin Plain /\ Declaring
        BY <2>1, VisitsDeclare DEF Plain
    <2>3. kind = "constant" \/ kind = "variable" \/ kind = "property" \/ kind = "field"
        BY <2>1 DEF PascalKind
    <2> HIDE DEF kind
    <2>4. IsLeaf(kind, <<>>, <<>>)
        BY <2>3 DEF IsLeaf, Scopes
    <2> QED
        BY <1>1, <2>1, <2>2, <2>4, SymbolAlone
<1>7. CASE PascalDefProc
    BY <1>1, <1>7, DefProcStep
<1>8. CASE PascalCall
    <2> DEFINE args == {c \in Tree : Parent(c) = This /\ Type(c) # "exprDot"}
               tasks == Tasks("block", InOrder(args))
               rs == <<Reference(Top, "calls", This)>>
    <2>1. /\ Then(tasks) /\ Add(rs) /\ UNCHANGED <<nodeStack, nodes, edges>>
          /\ Type(This) = "exprCall" /\ Head(agenda).do # "body"
        BY <1>8 DEF PascalCall
    <2>2. args \subseteq {c \in Tree : Parent(c) = This}
        OBVIOUS
    <2> HIDE DEF args
    <2>3. Sequence(InOrder(args))
        BY <1>2, <2>2, ChildrenFacts
    <2>4. AreTasks(tasks, InOrder(args)) /\ \A j \in DOMAIN tasks : tasks[j].do = "block"
        BY <2>3, TasksAre DEF Tasks
    <2> HIDE DEF tasks
    <2>5. Covers(This, tasks)
        BY <1>1, <1>2, <2>2, <2>4, ChildTasks
    <2>6. NewReferences(This, tasks, rs)
        BY <1>1, <2>1, <2>5, OwnReference DEF Covers, Plain
    <2> HIDE DEF rs
    <2>7. Pays(tasks, rs) /\ Blocks(tasks)
        BY <2>1, <2>4 DEF Pays, Blocks
    <2> QED
        BY <1>1, <2>1, <2>5, <2>6, <2>7, Moves DEF Covers
<1>9. CASE PascalBlock
    <2> DEFINE some == Tasks("block", ChildrenIn(This, {"exprCall"}))
               all == Tasks("block", Children(This))
    <2>1. (Then(some) \/ Then(all)) /\ Keep /\ Head(agenda).do # "body"
        BY <1>9 DEF PascalBlock, VisitInstead
    <2>2. Covers(This, some) /\ Covers(This, all)
        BY <1>1, <1>2, SequenceOfChildren, TasksAre, ChildrenTasks
    <2>3. /\ \A j \in DOMAIN some : some[j].do = "block"
          /\ \A j \in DOMAIN all : all[j].do = "block"
        BY DEF Tasks
    <2> HIDE DEF some, all
    <2>4. Blocks(some) /\ Blocks(all) /\ Pays(some, <<>>) /\ Pays(all, <<>>)
        BY <2>1, <2>3 DEF Blocks, Pays
    <2> QED
        BY <1>1, <2>1, <2>2, <2>4, MovesOnly DEF Covers
<1> QED
    BY <1>3, <1>4, <1>5, <1>6, <1>7, <1>8, <1>9 DEF VisitPascal
-----------------------------------------------------------------------------
LEMMA OnceInit ==
    ASSUME WalkInit PROVE OnceInv
<1> DEFINE packages == ChildrenIn(1, language.packageTypes)
           file == [id |-> FileId, kind |-> "file", name |-> 0, at |-> 1]
           namespace == Symbol("namespace", Name(packages[1]), packages[1])
           pops == IF packages = <<>> THEN PopScope ELSE PopScope \o PopScope
<1>1. /\ program \in Programs /\ references = <<>>
      /\ nodes = IF packages = <<>> THEN <<file>> ELSE <<file, namespace>>
      /\ agenda = Tasks("visit", <<1>>) \o pops
    BY DEF WalkInit
<1>2. 1 \in Tree
    BY <1>1, TreeFacts
<1>3. /\ Sequence(packages)
      /\ \A i \in DOMAIN packages :
            packages[i] \in Tree \ {1} /\ Type(packages[i]) \in language.packageTypes
    <2> DEFINE some == {c \in Tree : Parent(c) = 1 /\ Type(c) \in language.packageTypes}
    <2>1. some \subseteq {c \in Tree : Parent(c) = 1} /\ \A c \in some : Type(c) \in language.packageTypes
        OBVIOUS
    <2> HIDE DEF some
    <2>2. /\ Sequence(InOrder(some))
          /\ \A i \in DOMAIN InOrder(some) : InOrder(some)[i] \in some /\ InOrder(some)[i] \in Tree \ {1}
        BY <1>1, <1>2, <2>1, ChildrenFacts
    <2>3. packages = InOrder(some)
        BY DEF ChildrenIn, some
    <2> HIDE DEF packages
    <2> QED
        BY <2>1, <2>2, <2>3
<1>4. packages # <<>> => packages[1] \in Tree \ {1} /\ Type(packages[1]) \in language.packageTypes
    BY <1>3, TailFacts
<1>5. file.at = 1 /\ namespace.at = packages[1]
    BY DEF Symbol
<1> HIDE DEF packages, file, namespace
<1>6. /\ Sequence(nodes)
      /\ \A i \in DOMAIN nodes :
            \/ i = 1 /\ nodes[i].at = 1
            \/ i = 2 /\ nodes[i].at # 1 /\ Type(nodes[i].at) \in language.packageTypes
    <2>1. CASE packages = <<>>
        <3>1. nodes = <<file>> /\ nodes \in Seq({file}) /\ Len(nodes) = 1
            BY <1>1, <2>1
        <3>2. DOMAIN nodes = 1 .. 1
            BY <3>1, LenProperties
        <3>3. Sequence(nodes) /\ nodes[1] = file
            BY <3>1 DEF Sequence
        <3>4. \A i \in DOMAIN nodes : i = 1
            BY <3>2
        <3> QED
            BY <1>5, <3>3, <3>4
    <2>2. CASE packages # <<>>
        <3>1. nodes = <<file, namespace>> /\ nodes \in Seq({file, namespace}) /\ Len(nodes) = 2
            BY <1>1, <2>2
        <3>2. DOMAIN nodes = 1 .. 2
            BY <3>1, LenProperties
        <3>3. Sequence(nodes) /\ nodes[1] = file /\ nodes[2] = namespace
            BY <3>1 DEF Sequence
        <3>4. \A i \in DOMAIN nodes : i = 1 \/ i = 2
            BY <3>2
        <3> QED
            BY <1>4, <1>5, <2>2, <3>3, <3>4
    <2> QED
        BY <2>1, <2>2
<1>7. Sequence(references) /\ DOMAIN references = {}
    BY <1>1, NothingNew
<1>8. InTextOrder(agenda)
    <2>1. <<1>> \in Seq(Nat) /\ Len(<<1>>) = 1 /\ <<1>>[1] = 1
        OBVIOUS
    <2> DEFINE first == Tasks("visit", <<1>>)
    <2>2. /\ Sequence(first) /\ DOMAIN first = {1} /\ first[1].on = 1 /\ Meant(first[1])
        <3>1. Sequence(<<1>>)
            BY <2>1 DEF Sequence
        <3>2. DOMAIN <<1>> = {1}
            BY <2>1, LenProperties
        <3>3. AreTasks(first, <<1>>)
            BY <3>1, TasksAre
        <3> HIDE DEF first
        <3> QED
            BY <2>1, <3>2, <3>3 DEF AreTasks
    <2> HIDE DEF first
    <2>3. Sequence(pops) /\ \A i \in DOMAIN pops : pops[i].do = "pop"
        <3> DEFINE pop == [do |-> "pop", on |-> 1]
        <3> HIDE DEF pop
        <3>1. PopScope \in Seq({pop})
            BY DEF PopScope, pop
        <3>2. PopScope \o PopScope \in Seq({pop})
            BY <3>1, ConcatProperties
        <3>3. pops \in Seq({pop})
            BY <3>1, <3>2
        <3> HIDE DEF pops
        <3>4. \A i \in DOMAIN pops : pops[i] = pop
            BY <3>3, LenProperties, ElementOfSeq
        <3> QED
            BY <3>3, <3>4 DEF Sequence, pop
    <2> HIDE DEF pops
    <2>4. /\ Sequence(first \o pops) /\ Len(first) \in Nat
          /\ \A i \in DOMAIN (first \o pops) :
                \/ i \in DOMAIN first /\ (first \o pops)[i] = first[i]
                \/ i - Len(first) \in DOMAIN pops /\ (first \o pops)[i] = pops[i - Len(first)]
        BY <2>2, <2>3, ConcatFacts
    <2>5. \A i \in DOMAIN agenda :
             (i = 1 /\ agenda[i].on = 1 /\ Meant(agenda[i])) \/ agenda[i].do = "pop"
        BY <1>1, <2>2, <2>3, <2>4 DEF first
    <2> QED
        BY <1>1, <1>2, <2>4, <2>5 DEF InTextOrder, first
<1> QED
    BY <1>1, <1>6, <1>7, <1>8
       DEF OnceInv, SymbolsArePast, ReferencesArePast, NothingIsExtractedTwice

LEMMA OncePops ==
    ASSUME OnceInv, Pop PROVE OnceInv'
<1>1. /\ agenda # <<>> /\ Head(agenda).do = "pop" /\ program' = program
      /\ nodes' = nodes /\ references' = references /\ agenda' = Tail(agenda)
    <2>1. Sequence(Tail(agenda)) /\ agenda' = <<>> \o Tail(agenda)
        BY TailFacts DEF OnceInv, InTextOrder, Pop, Doing, Then
    <2>2. \A s : Sequence(s) => <<>> \o s = s
        BY DEF Sequence
    <2> QED
        BY <2>1, <2>2 DEF Pop, Doing
<1>2. /\ Sequence(Tail(agenda)) /\ DOMAIN Tail(agenda) \subseteq Nat
      /\ \A i \in DOMAIN Tail(agenda) : i + 1 \in DOMAIN agenda /\ Tail(agenda)[i] = agenda[i + 1]
    BY <1>1, TailFacts DEF OnceInv, InTextOrder
<1>3. \A i, j \in DOMAIN Tail(agenda) : i < j => i + 1 < j + 1
    BY <1>2
<1>4. InTextOrder(agenda)'
    BY <1>1, <1>2, <1>3, TreeStays DEF OnceInv, InTextOrder
<1>5. \A a : Past(a) => Past(a)'
    BY <1>1, <1>2, TreeStays DEF Past, Before
<1>6. SymbolsArePast'
    BY <1>1, <1>5, TreeStays DEF OnceInv, SymbolsArePast
<1>7. ReferencesArePast'
    BY <1>1, <1>5, TreeStays DEF OnceInv, ReferencesArePast
<1>8. NothingIsExtractedTwice'
    BY <1>1 DEF OnceInv, NothingIsExtractedTwice
<1> QED
    BY <1>1, <1>4, <1>6, <1>7, <1>8 DEF OnceInv

LEMMA OnceIdles ==
    ASSUME OnceInv, UNCHANGED walkVars PROVE OnceInv'
<1>1. /\ program' = program /\ agenda' = agenda /\ nodes' = nodes /\ references' = references
    BY DEF walkVars
<1>2. \A a : Past(a)' <=> Past(a)
    BY <1>1, TreeStays DEF Past, Before
<1>3. SymbolsArePast' /\ ReferencesArePast' /\ InTextOrder(agenda)'
    BY <1>1, <1>2, TreeStays DEF OnceInv, SymbolsArePast, ReferencesArePast, InTextOrder
<1> QED
    BY <1>1, <1>3 DEF OnceInv, NothingIsExtractedTwice


(* Short sequences, joined.                                                *)
LEMMA TuplesAppend ==
    ASSUME NEW a, NEW b, NEW c
    PROVE  <<a>> \o <<b>> = <<a, b>> /\ <<a, b>> \o <<c>> = <<a, b, c>>
<1> DEFINE S == {a, b, c}
<1>1. /\ <<a>> \in Seq(S) /\ <<b>> \in Seq(S) /\ <<c>> \in Seq(S)
      /\ <<a, b>> \in Seq(S) /\ <<a, b, c>> \in Seq(S)
    OBVIOUS
<1> HIDE DEF S
<1>2. <<a>> \o <<b>> = <<a, b>>
    <2> DEFINE s == <<a>> \o <<b>>
               t == <<a, b>>
    <2>1. s \in Seq(S) /\ Len(s) = 2 /\ s[1] = a /\ s[2] = b
        BY <1>1, ConcatProperties
    <2>2. t \in Seq(S) /\ Len(t) = 2 /\ t[1] = a /\ t[2] = b
        BY <1>1
    <2> HIDE DEF s, t
    <2>3. \A i \in 1 .. Len(s) : s[i] = t[i]
        BY <2>1, <2>2
    <2>4. s = t
        BY <2>1, <2>2, <2>3, SeqEqual
    <2> QED
        BY <2>4 DEF s, t
<1>3. <<a, b>> \o <<c>> = <<a, b, c>>
    <2> DEFINE s == <<a, b>> \o <<c>>
               t == <<a, b, c>>
    <2>1. s \in Seq(S) /\ Len(s) = 3 /\ s[1] = a /\ s[2] = b /\ s[3] = c
        BY <1>1, ConcatProperties
    <2>2. t \in Seq(S) /\ Len(t) = 3 /\ t[1] = a /\ t[2] = b /\ t[3] = c
        BY <1>1
    <2> HIDE DEF s, t
    <2>3. \A i \in 1 .. Len(s) : s[i] = t[i]
        BY <2>1, <2>2
    <2>4. s = t
        BY <2>1, <2>2, <2>3, SeqEqual
    <2> QED
        BY <2>4 DEF s, t
<1> QED
    BY <1>2, <1>3

(* When the walk starts, the file is on top, or the namespace of its       *)
(* package.                                                                *)
LEMMA ScopeInit ==
    ASSUME WalkInit PROVE ScopeInv
<1> DEFINE packages == ChildrenIn(1, language.packageTypes)
           file == [id |-> FileId, kind |-> "file", name |-> 0, at |-> 1]
           namespace == Symbol("namespace", Name(packages[1]), packages[1])
           visit == [do |-> "visit", on |-> 1]
           pop == [do |-> "pop", on |-> 1]
<1>1. /\ program \in Programs /\ 1 \in Tree /\ Type(1) = "file" /\ Tree \subseteq Nat
      /\ references = <<>>
    BY TreeFacts DEF WalkInit
<1>2. "file" \notin language.packageTypes /\ language.packageTypes \subseteq {"package"}
    BY <1>1, TreeFacts, LanguageFacts
<1>3. ~Below(1, 1) /\ \A a : ~Below(a, 1)
    <2>1. ASSUME NEW a, Below(a, 1) PROVE FALSE
        <3>1. a \in Tree
            BY <1>1, <2>1, MoreBelow
        <3>2. a < 1
            BY <1>1, <2>1, <3>1, BelowFacts
        <3>3. ~(a < 1)
            BY <1>1, <3>1, TreeFacts
        <3> QED
            BY <3>2, <3>3
    <2> QED
        BY <2>1
<1>4. packages # <<>> => /\ packages[1] \in Tree \ {1} /\ Type(packages[1]) \in language.packageTypes
                         /\ Parent(packages[1]) = 1
    <2> DEFINE some == {c \in Tree : Parent(c) = 1 /\ Type(c) \in language.packageTypes}
    <2>1. some \subseteq {c \in Tree : Parent(c) = 1} /\ \A c \in some : Type(c) \in language.packageTypes
        OBVIOUS
    <2> HIDE DEF some
    <2>2. /\ Sequence(InOrder(some))
          /\ \A i \in DOMAIN InOrder(some) : /\ InOrder(some)[i] \in some /\ InOrder(some)[i] \in Tree \ {1}
                                             /\ Parent(InOrder(some)[i]) = 1
        BY <1>1, <2>1, ChildrenFacts
    <2>3. packages = InOrder(some)
        BY DEF ChildrenIn, some
    <2> HIDE DEF packages
    <2>4. packages # <<>> => 1 \in DOMAIN packages
        BY <2>2, <2>3, TailFacts
    <2> QED
        BY <2>1, <2>2, <2>3, <2>4
<1>5. /\ nodes = IF packages = <<>> THEN <<file>> ELSE <<file, namespace>>
      /\ edges = IF packages = <<>> THEN <<>> ELSE <<<<FileId, namespace.id>>>>
      /\ nodeStack = [i \in DOMAIN nodes |-> nodes[i].id]
      /\ agenda = IF packages = <<>> THEN <<visit, pop>> ELSE <<visit, pop, pop>>
    <2>1. Tasks("visit", <<1>>) = <<visit>>
        BY DEF Tasks
    <2>2. PopScope = <<pop>>
        BY DEF PopScope
    <2>3. agenda = <<visit>> \o (IF packages = <<>> THEN <<pop>> ELSE <<pop>> \o <<pop>>)
        BY <2>1, <2>2 DEF WalkInit
    <2> HIDE DEF visit, pop, packages
    <2>4. <<visit>> \o <<pop>> = <<visit, pop>> /\ <<visit>> \o (<<pop>> \o <<pop>>) = <<visit, pop, pop>>
        <3>1. LET S == {visit, pop} IN
              <<visit>> \in Seq(S) /\ <<pop>> \in Seq(S) /\ <<visit, pop>> \in Seq(S)
            OBVIOUS
        <3>2. <<visit>> \o <<pop>> = <<visit, pop>> /\ <<visit, pop>> \o <<pop>> = <<visit, pop, pop>>
            BY TuplesAppend
        <3>3. (<<visit>> \o <<pop>>) \o <<pop>> = <<visit>> \o (<<pop>> \o <<pop>>)
            BY <3>1, ConcatAssociative
        <3> QED
            BY <3>2, <3>3
    <2>5. agenda = IF packages = <<>> THEN <<visit, pop>> ELSE <<visit, pop, pop>>
        BY <2>3, <2>4
    <2> QED
        BY <2>5 DEF WalkInit, packages
<1>6. /\ file.at = 1 /\ file.kind = "file" /\ file.id = FileId
      /\ namespace.at = packages[1] /\ namespace.kind = "namespace"
      /\ visit.do = "visit" /\ visit.on = 1 /\ pop.do = "pop"
    BY DEF Symbol
<1> HIDE DEF packages, file, namespace, visit, pop
<1>7. CASE packages = <<>>
    <2>1. nodes = <<file>> /\ edges = <<>> /\ agenda = <<visit, pop>>
        BY <1>5, <1>7
    <2>2. DOMAIN nodes = {1} /\ nodes[1] = file /\ Len(nodes) = 1
        BY <2>1
    <2>3. nodeStack = [i \in 1 .. 1 |-> nodes[i].id] /\ DOMAIN nodeStack = 1 .. 1 /\ nodeStack[1] = FileId
        BY <1>5, <1>6, <2>2
    <2>4. Sequence(nodeStack) /\ Sequence(edges) /\ Len(nodeStack) = 1
        <3>1. Sequence(nodeStack)
            BY <2>3, IsSequence
        <3> QED
            BY <2>1, <2>3, <3>1, NothingNew, SequenceLength
    <2>5. RootsAreFirst /\ MembersAreInAliases /\ SymbolsAreScoped /\ ReferencesAreScoped
        <3>1. RootsAreFirst
            BY <1>1, <1>2, <1>6, <2>2 DEF RootsAreFirst
        <3>2. MembersAreInAliases
            BY <1>1, <1>6, <2>2 DEF MembersAreInAliases, Owner, IsMember
        <3>3. SymbolsAreScoped /\ ReferencesAreScoped
            BY <1>1, <1>6, <2>2, NothingNew DEF SymbolsAreScoped, ReferencesAreScoped
        <3> QED
            BY <3>1, <3>2, <3>3
    <2>6. IsScope(nodes, FileId, 1)
        BY <1>3, <2>2 DEF IsScope, Above, Outermost
    <2> DEFINE level == [k \in 1 .. 2 |-> 1]
    <2>7. DOMAIN agenda = 1 .. 2 /\ agenda[1] = visit /\ agenda[2] = pop
        BY <2>1
    <2>8. Layers(level, agenda, nodeStack)
        BY <1>6, <2>3, <2>4, <2>7 DEF Layers
    <2>9. TasksAreHeld(level)
        BY <1>6, <2>3, <2>6, <2>7 DEF TasksAreHeld, Held
    <2>10. CallsAreOwed(level)
        BY <1>6, <2>2 DEF CallsAreOwed, OwnCall
    <2> HIDE DEF level
    <2> QED
        BY <2>4, <2>5, <2>8, <2>9, <2>10 DEF ScopeInv
<1>8. CASE packages # <<>>
    <2>1. /\ nodes = <<file, namespace>> /\ edges = <<<<FileId, namespace.id>>>>
          /\ agenda = <<visit, pop, pop>>
        BY <1>5, <1>8
    <2>2. DOMAIN nodes = {1, 2} /\ nodes[1] = file /\ nodes[2] = namespace /\ Len(nodes) = 2
          /\ DOMAIN nodes = 1 .. 2
        BY <2>1
    <2>3. /\ nodeStack = [i \in 1 .. 2 |-> nodes[i].id] /\ DOMAIN nodeStack = 1 .. 2
          /\ nodeStack[1] = FileId /\ nodeStack[2] = namespace.id
        BY <1>5, <1>6, <2>2
    <2>4. Sequence(nodeStack) /\ Sequence(edges) /\ Len(nodeStack) = 2
        <3>1. Sequence(nodeStack)
            BY <2>3, IsSequence
        <3> QED
            BY <2>1, <2>3, <3>1, OneOf, SequenceLength
    <2>5. RootsAreFirst /\ MembersAreInAliases /\ SymbolsAreScoped /\ ReferencesAreScoped
        <3>1. RootsAreFirst
            BY <1>1, <1>2, <1>4, <1>6, <1>8, <2>2 DEF RootsAreFirst
        <3>2. MembersAreInAliases
            BY <1>1, <1>2, <1>4, <1>6, <1>8, <2>2 DEF MembersAreInAliases, Owner, IsMember
        <3>3. HasEdge(edges, FileId, namespace.id)
            BY <2>1, OneOf DEF HasEdge
        <3>4. SymbolsAreScoped
            BY <1>6, <2>2, <3>3 DEF SymbolsAreScoped, Placed, BelongsTo
        <3>5. ReferencesAreScoped
            BY <1>1, NothingNew DEF ReferencesAreScoped
        <3> QED
            BY <3>1, <3>2, <3>4, <3>5
    <2>6. IsScope(nodes, namespace.id, 1)
        BY <1>3, <1>6, <2>2 DEF IsScope, Above, Outermost
    <2> DEFINE level == [k \in 1 .. 3 |-> IF k = 3 THEN 1 ELSE 2]
    <2>7. DOMAIN agenda = 1 .. 3 /\ agenda[1] = visit /\ agenda[2] = pop /\ agenda[3] = pop
        BY <2>1
    <2>8. Layers(level, agenda, nodeStack)
        BY <1>6, <2>3, <2>4, <2>7 DEF Layers
    <2>9. TasksAreHeld(level)
        BY <1>6, <2>3, <2>6, <2>7 DEF TasksAreHeld, Held
    <2>10. CallsAreOwed(level)
        BY <1>6, <2>2 DEF CallsAreOwed, OwnCall
    <2> HIDE DEF level
    <2> QED
        BY <2>4, <2>5, <2>8, <2>9, <2>10 DEF ScopeInv
<1> QED
    BY <1>7, <1>8

(* What does not depend on the agenda stays when nothing is extracted.     *)
LEMMA LeftAlone ==
    ASSUME ScopeInv, UNCHANGED <<program, nodes, edges, references>>
    PROVE  RootsAreFirst' /\ MembersAreInAliases' /\ SymbolsAreScoped' /\ ReferencesAreScoped'
<1>1. program' = program /\ nodes' = nodes /\ edges' = edges /\ references' = references
    OBVIOUS
<1>2. RootsAreFirst'
    BY <1>1, TreeStays, ScopesStay DEF ScopeInv, RootsAreFirst
<1>3. MembersAreInAliases'
    BY <1>1, TreeStays, ScopesStay DEF ScopeInv, MembersAreInAliases
<1>4. SymbolsAreScoped'
    BY <1>1, ScopesStay DEF ScopeInv, SymbolsAreScoped
<1>5. ReferencesAreScoped'
    BY <1>1, ScopesStay DEF ScopeInv, ReferencesAreScoped
<1> QED
    BY <1>2, <1>3, <1>4, <1>5

LEMMA PopStep ==
    ASSUME WalkInv, Pop PROVE WalkInv'
<1>1. /\ agenda # <<>> /\ Head(agenda).do = "pop" /\ program' = program
      /\ nodes' = nodes /\ edges' = edges /\ references' = references
      /\ nodeStack' = SubSeq(nodeStack, 1, Len(nodeStack) - 1)
      /\ Sequence(agenda) /\ Sequence(nodeStack)
    BY DEF Pop, Doing, WalkInv, OnceInv, InTextOrder, ScopeInv
<1>2. Sequence(Tail(agenda)) /\ agenda[1].do = "pop" /\ 1 \in DOMAIN agenda
    BY <1>1, TailFacts
<1>3. agenda' = Tail(agenda)
    <2>1. \A s : Sequence(s) => <<>> \o s = s
        BY DEF Sequence
    <2> QED
        BY <1>2, <2>1 DEF Pop, Then
<1>4. PICK level : Layers(level, agenda, nodeStack) /\ TasksAreHeld(level) /\ CallsAreOwed(level)
    BY DEF WalkInv, ScopeInv
<1>5. Sequence(nodeStack')
    BY <1>1, <1>2, <1>4, LayersPop
<1>6. PICK after :
         /\ Layers(after, agenda', nodeStack')
         /\ \A j \in DOMAIN agenda' : /\ j + 1 \in DOMAIN agenda /\ agenda'[j] = agenda[j + 1]
                                      /\ nodeStack'[after[j]] = nodeStack[level[j + 1]]
    <2>1. PICK after : Popped(level, agenda, nodeStack, after,
                              Tail(agenda), SubSeq(nodeStack, 1, Len(nodeStack) - 1))
        BY <1>1, <1>2, <1>4, LayersPop
    <2>2. Popped(level, agenda, nodeStack, after, agenda', nodeStack')
        BY <1>1, <1>3, <2>1
    <2> QED
        BY <2>2 DEF Popped
<1>7. TasksAreHeld(after)'
    <2>1. \A j \in DOMAIN agenda' : Held(nodes, agenda'[j], nodeStack'[after[j]])
        BY <1>4, <1>6 DEF TasksAreHeld
    <2> QED
        BY <1>1, <2>1, ScopesStay DEF TasksAreHeld
<1>8. \A k \in DOMAIN agenda : k # 1 => \E j \in DOMAIN agenda' : k = j + 1
    <2>1. PICK S : agenda \in Seq(S)
        BY <1>1 DEF Sequence
    <2>2. /\ Len(agenda) \in Nat \ {0} /\ DOMAIN agenda = 1 .. Len(agenda)
          /\ DOMAIN agenda' = 1 .. Len(agenda) - 1
        <3>1. agenda' \in Seq(S) /\ Len(agenda') = Len(agenda) - 1
            BY <1>1, <1>3, <2>1, HeadTailProperties
        <3> QED
            BY <1>1, <2>1, <3>1, LenProperties, EmptySeq
    <2>3. ASSUME NEW k \in DOMAIN agenda, k # 1 PROVE \E j \in DOMAIN agenda' : k = j + 1
        <3>1. k - 1 \in DOMAIN agenda' /\ k = (k - 1) + 1
            BY <2>2, <2>3
        <3> QED
            BY <3>1
    <2> QED
        BY <2>3
<1>9. CallsAreOwed(after)'
    <2>1. ASSUME NEW i \in DOMAIN nodes, NEW n, OwnCall(nodes[i], n)
          PROVE  \/ Made(references, nodes[i].id, n)
                 \/ \E j \in DOMAIN agenda' : Owes(agenda'[j], nodeStack'[after[j]], nodes[i], n)
        <3>1. CASE \E k \in DOMAIN agenda : Owes(agenda[k], nodeStack[level[k]], nodes[i], n)
            <4>1. PICK k \in DOMAIN agenda : Owes(agenda[k], nodeStack[level[k]], nodes[i], n)
                BY <3>1
            <4>2. k # 1
                BY <1>2, <4>1 DEF Owes
            <4>3. PICK j \in DOMAIN agenda' : k = j + 1
                BY <1>8, <4>2
            <4>4. Owes(agenda'[j], nodeStack'[after[j]], nodes[i], n)
                BY <1>6, <4>1, <4>3
            <4> QED
                BY <4>4
        <3> QED
            BY <1>4, <2>1, <3>1 DEF CallsAreOwed
    <2> QED
        BY <1>1, <2>1, ScopesStay DEF CallsAreOwed, Made
<1>10. RootsAreFirst' /\ MembersAreInAliases' /\ SymbolsAreScoped' /\ ReferencesAreScoped'
    BY <1>1, LeftAlone DEF WalkInv
<1>11. Layers(after, agenda, nodeStack)'
    BY <1>6 DEF Layers
<1>12. Sequence(edges')
    BY <1>1 DEF WalkInv, ScopeInv
<1>13. ScopeInv'
    BY <1>5, <1>7, <1>9, <1>10, <1>11, <1>12 DEF ScopeInv, Sequence
<1> QED
    BY <1>13, OncePops DEF WalkInv

LEMMA IdleStep ==
    ASSUME WalkInv, UNCHANGED walkVars PROVE WalkInv'
<1>1. /\ program' = program /\ nodes' = nodes /\ edges' = edges /\ references' = references
      /\ agenda' = agenda /\ nodeStack' = nodeStack
    BY DEF walkVars
<1>2. PICK level : Layers(level, agenda, nodeStack) /\ TasksAreHeld(level) /\ CallsAreOwed(level)
    BY DEF WalkInv, ScopeInv
<1>3. Layers(level, agenda, nodeStack)'
    BY <1>1, <1>2 DEF Layers
<1>4. TasksAreHeld(level)'
    BY <1>1, <1>2, ScopesStay DEF TasksAreHeld
<1>5. CallsAreOwed(level)'
    BY <1>1, <1>2, ScopesStay DEF CallsAreOwed, Made
<1>6. RootsAreFirst' /\ MembersAreInAliases' /\ SymbolsAreScoped' /\ ReferencesAreScoped'
    BY <1>1, LeftAlone DEF WalkInv
<1>7. ScopeInv'
    BY <1>1, <1>3, <1>4, <1>5, <1>6 DEF WalkInv, ScopeInv, Sequence
<1> QED
    BY <1>7, OnceIdles DEF WalkInv

LEMMA WalkInvInit ==
    ASSUME WalkInit PROVE WalkInv
BY OnceInit, ScopeInit DEF WalkInv

LEMMA WalkStays ==
    ASSUME WalkInv, [WalkNext]_walkVars PROVE WalkInv'
<1>1. CASE VisitNode
    BY <1>1, VisitStep
<1>2. CASE VisitFunctionBody
    BY <1>2, BodyStep
<1>3. CASE VisitPascal
    BY <1>3, PascalStep
<1>4. CASE ExtractEnumMembers
    <2>1. Walking
        BY <1>4 DEF ExtractEnumMembers, Doing, Walking
    <2> QED
        BY <1>4, <2>1, MemberStep
<1>5. CASE ExtractNamed
    <2>1. Walking
        BY <1>5 DEF ExtractNamed, Doing, Walking
    <2> QED
        BY <1>5, <2>1, NamedStep
<1>6. CASE Pop
    BY <1>6, PopStep
<1>7. CASE UNCHANGED walkVars
    BY <1>7, IdleStep
<1> QED
    BY <1>1, <1>2, <1>3, <1>4, <1>5, <1>6, <1>7 DEF WalkNext, Finished

-----------------------------------------------------------------------------
(* Where the symbols stand: each at a node of the tree. *)
LEMMA SymbolsStandInTheTree ==
    ASSUME WalkInv
    PROVE  /\ Tree \subseteq Nat /\ 1 \in Tree
           /\ \A i \in DOMAIN nodes : nodes[i].at \in Tree
           /\ DOMAIN nodes \subseteq Nat /\ \A i \in DOMAIN nodes : i <= Len(nodes)
<1>1. program \in Programs /\ Sequence(nodes) /\ SymbolsArePast /\ RootsAreFirst /\ MembersAreInAliases
    BY DEF WalkInv, OnceInv, ScopeInv
<1>2. Tree \subseteq Nat /\ 1 \in Tree
    BY <1>1, TreeFacts
<1>3. DOMAIN nodes \subseteq Nat /\ \A i \in DOMAIN nodes : i <= Len(nodes)
    BY <1>1, SequenceLength
<1>4. ASSUME NEW i \in DOMAIN nodes PROVE nodes[i].at \in Tree
    <2>1. CASE Owner(nodes[i].at) # nodes[i].at
        BY <1>1, <2>1 DEF MembersAreInAliases, Contract
    <2>2. CASE Owner(nodes[i].at) = nodes[i].at
        BY <1>1, <1>2, <2>2 DEF SymbolsArePast, Past, RootsAreFirst
    <2> QED
        BY <2>1, <2>2
<1> QED
    BY <1>2, <1>3, <1>4

(* What the stack says is the scope is the symbol of the innermost         *)
(* declaration around it.                                                  *)
LEMMA ScopeOfIs ==
    ASSUME WalkInv, NEW n \in Tree, NEW id, IsScope(nodes, id, n),
           \A i \in DOMAIN nodes : nodes[i].kind = "namespace" => nodes[i].at # n
    PROVE  ScopeOf(n) = id
<1> DEFINE inner == {i \in Around(n) : \A j \in Around(n) : nodes[j].at <= nodes[i].at}
<1>1. /\ program \in Programs /\ RootsAreFirst /\ NothingIsExtractedTwice
      /\ Tree \subseteq Nat /\ 1 \in Tree
      /\ \A i \in DOMAIN nodes : nodes[i].at \in Tree
      /\ DOMAIN nodes \subseteq Nat /\ \A i \in DOMAIN nodes : i <= Len(nodes)
    BY SymbolsStandInTheTree DEF WalkInv, OnceInv, ScopeInv
<1>2. \A i : i \in Above(nodes, n) <=> i \in Around(n) /\ nodes[i].kind # "namespace"
    BY DEF Above, Around, Below
<1>3. \A i \in Around(n) : /\ i \in DOMAIN nodes /\ nodes[i].kind \in Scopes
                           /\ Below(nodes[i].at, n) /\ nodes[i].at \in Nat
    BY <1>1 DEF Around, Below, Encloses
<1>4. \A i \in DOMAIN nodes : nodes[i].kind = "namespace" =>
         /\ i = 2 /\ nodes[i].at \in Tree \ {1} /\ Parent(nodes[i].at) = 1
    BY <1>1 DEF RootsAreFirst
<1>5. \A i, j \in DOMAIN nodes : nodes[i].at = nodes[j].at => i = j
    BY <1>1 DEF NothingIsExtractedTwice
<1>6. ScopeOf(n) = IF inner # {} THEN nodes[CHOOSE i \in inner : TRUE].id ELSE Outermost(nodes)
    <2>1. (Len(nodes) > 1 /\ nodes[2].kind = "namespace") => nodes[2].at # n
        <3>1. Len(nodes) > 1 => 2 \in DOMAIN nodes
            BY SequenceLength DEF WalkInv, OnceInv
        <3> QED
            BY <3>1
    <2> QED
        BY <2>1 DEF ScopeOf, Outermost
<1> HIDE DEF inner
<1>7. CASE Above(nodes, n) = {}
    <2>1. \A i \in Around(n) : i = 2 /\ nodes[i].kind = "namespace"
        BY <1>2, <1>3, <1>4, <1>7
    <2>2. id = Outermost(nodes)
        BY <1>7 DEF IsScope
    <2>3. CASE Around(n) = {}
        BY <1>6, <2>2, <2>3 DEF inner
    <2>4. CASE Around(n) # {}
        <3>1. Around(n) = {2} /\ nodes[2].kind = "namespace"
            BY <2>1, <2>4
        <3>2. inner = {2}
            BY <1>3, <3>1 DEF inner
        <3>3. Len(nodes) > 1
            BY <1>1, <1>3, <3>1, SequenceLength DEF WalkInv, OnceInv
        <3>4. Outermost(nodes) = nodes[2].id
            BY <3>1, <3>3 DEF Outermost
        <3>5. (CHOOSE i \in inner : TRUE) = 2
            BY <3>2
        <3> QED
            BY <1>6, <2>2, <3>2, <3>4, <3>5
    <2> QED
        BY <2>3, <2>4
<1>8. CASE Above(nodes, n) # {}
    <2>1. PICK i \in Above(nodes, n) : nodes[i].id = id /\ \A j \in Above(nodes, n) : nodes[j].at <= nodes[i].at
        BY <1>8 DEF IsScope
    <2>2. i \in Around(n) /\ nodes[i].kind # "namespace"
        BY <1>2
    <2>3. ASSUME NEW j \in Around(n) PROVE nodes[j].at <= nodes[i].at
        <3>1. CASE nodes[j].kind # "namespace"
            BY <1>2, <2>1, <3>1
        <3>2. CASE nodes[j].kind = "namespace"
            <4>1. Parent(nodes[j].at) = 1 /\ nodes[j].at \in Tree \ {1} /\ nodes[i].at \in Tree
                BY <1>1, <1>3, <1>4, <2>2, <3>2
            <4>2. Below(nodes[i].at, n) /\ Below(nodes[j].at, n)
                BY <1>3, <2>2
            <4>3. nodes[i].at # 1
                BY <1>1, <1>3, <2>2 DEF RootsAreFirst, Scopes
            <4>4. ~(nodes[i].at < nodes[j].at)
                <5>1. SUFFICES ASSUME nodes[i].at < nodes[j].at PROVE FALSE
                    OBVIOUS
                <5>2. Below(nodes[i].at, nodes[j].at)
                    BY <1>1, <4>1, <4>2, <5>1, BelowFacts
                <5>3. nodes[i].at = 1 \/ Below(nodes[i].at, 1)
                    <6>1. \A a, m \in Tree : Below(a, m) => a = Parent(m) \/ Below(a, Parent(m))
                        BY <1>1, BelowFacts
                    <6> QED
                        BY <4>1, <5>2, <6>1
                <5>4. nodes[i].at < 1
                    BY <1>1, <4>1, <4>3, <5>3, BelowFacts
                <5>5. nodes[i].at \in 1 .. Len(program.tree)
                    BY <1>1, <4>1, TreeFacts
                <5> QED
                    BY <5>4, <5>5
            <4> QED
                BY <1>3, <2>2, <4>4
        <3> QED
            BY <3>1, <3>2
    <2>4. i \in inner
        BY <2>2, <2>3 DEF inner
    <2>5. ASSUME NEW j \in inner PROVE j = i
        <3>1. j \in Around(n) /\ nodes[i].at <= nodes[j].at
            BY <2>2 DEF inner
        <3>2. nodes[j].at = nodes[i].at
            BY <1>3, <2>2, <2>3, <3>1
        <3> QED
            BY <1>3, <1>5, <2>2, <3>1, <3>2
    <2>6. (CHOOSE j \in inner : TRUE) = i
        BY <2>4, <2>5
    <2> QED
        BY <1>6, <2>1, <2>4, <2>6
<1> QED
    BY <1>7, <1>8

(* The namespace of a package stands in the file. *)
LEMMA NamespaceIsInFile ==
    ASSUME WalkInv, NEW i \in DOMAIN nodes, nodes[i].kind = "namespace"
    PROVE  ScopeOf(nodes[i].at) = FileId /\ ~IsMember(nodes[i].at)
<1>1. /\ program \in Programs /\ RootsAreFirst
      /\ Tree \subseteq Nat /\ 1 \in Tree
      /\ \A j \in DOMAIN nodes : nodes[j].at \in Tree
    BY SymbolsStandInTheTree DEF WalkInv, OnceInv, ScopeInv
<1>2. i = 2 /\ nodes[i].at \in Tree \ {1} /\ Parent(nodes[i].at) = 1
    BY <1>1 DEF RootsAreFirst
<1>3. ASSUME NEW j \in DOMAIN nodes, Below(nodes[j].at, nodes[i].at) PROVE nodes[j].kind = "file"
    <2>1. nodes[j].at = 1 \/ Below(nodes[j].at, 1)
        <3>1. \A a, m \in Tree : Below(a, m) => a = Parent(m) \/ Below(a, Parent(m))
            BY <1>1, BelowFacts
        <3> QED
            BY <1>1, <1>2, <1>3, <3>1
    <2>2. ~Below(nodes[j].at, 1)
        <3>1. nodes[j].at \in 1 .. Len(program.tree) /\ Len(program.tree) \in Nat
            BY <1>1, TreeFacts
        <3>2. Below(nodes[j].at, 1) => nodes[j].at < 1
            BY <1>1, BelowFacts
        <3> QED
            BY <3>1, <3>2
    <2> QED
        BY <1>1, <2>1, <2>2 DEF RootsAreFirst
<1>4. Around(nodes[i].at) = {}
    BY <1>3 DEF Around, Below, Encloses, Scopes
<1>5. ~IsMember(nodes[i].at)
    <2>1. Type(nodes[i].at) \in language.packageTypes
        BY <1>1 DEF RootsAreFirst
    <2>2. Type(nodes[i].at) = "package"
        BY <1>1, <2>1, TreeFacts, LanguageFacts
    <2> QED
        BY <2>2 DEF IsMember
<1> QED
    BY <1>2, <1>4, <1>5 DEF ScopeOf

(* Whatever the nesting of declarations, bodies and calls, and whatever    *)
(* the language: at every step of the walk each symbol is contained in the *)
(* innermost symbol around it, a member of an object type in the alias of  *)
(* the type, and each call, instantiation and import comes from the        *)
(* innermost symbol around it.  The extract* methods push   *)
(* and pop nodeStack, and no branch leaves a scope of another one on top.  *)
THEOREM EachIsAttributedToItsScope == WalkSpec => []AttributedToInnermost
<1>1. ASSUME WalkInv PROVE AttributedToInnermost
    <2>1. /\ \A i \in DOMAIN nodes : nodes[i].at \in Tree
          /\ SymbolsAreScoped /\ ReferencesAreScoped /\ ReferencesArePast /\ RootsAreFirst
          /\ NothingIsExtractedTwice
        BY <1>1, SymbolsStandInTheTree DEF WalkInv, OnceInv, ScopeInv
    <2>2. ASSUME NEW i \in DOMAIN nodes, nodes[i].at # 1
          PROVE  \E j \in DOMAIN edges : edges[j] = <<ContainerOf(nodes[i].at), nodes[i].id>>
        <3>1. PICK from : HasEdge(edges, from, nodes[i].id) /\ BelongsTo(nodes, from, nodes[i])
            BY <2>1, <2>2 DEF SymbolsAreScoped, Placed
        <3>2. from = ContainerOf(nodes[i].at)
            <4>1. CASE nodes[i].kind = "namespace" /\ from = FileId
                <5>1. ~IsMember(nodes[i].at)
                    BY <1>1, <4>1, NamespaceIsInFile
                <5>2. ScopeOf(nodes[i].at) = FileId
                    BY <1>1, <4>1, NamespaceIsInFile
                <5> QED
                    BY <4>1, <5>1, <5>2 DEF ContainerOf
            <4>2. CASE /\ nodes[i].kind # "namespace" /\ ~IsMember(nodes[i].at)
                       /\ IsScope(nodes, from, nodes[i].at)
                <5>1. \A j \in DOMAIN nodes : nodes[j].kind = "namespace" => nodes[j].at # nodes[i].at
                    BY <2>1, <4>2 DEF NothingIsExtractedTwice
                <5>2. ScopeOf(nodes[i].at) = from
                    BY <1>1, <2>1, <4>2, <5>1, ScopeOfIs
                <5> QED
                    BY <4>2, <5>2 DEF ContainerOf
            <4>3. CASE /\ IsMember(nodes[i].at)
                       /\ \E j \in DOMAIN nodes :
                             nodes[j].at = Parent(Parent(nodes[i].at)) /\ nodes[j].id = from
                <5> DEFINE alias == Parent(Parent(nodes[i].at))
                <5>1. PICK j \in DOMAIN nodes : nodes[j].at = alias /\ nodes[j].id = from
                    BY <4>3
                <5>2. \A k \in DOMAIN nodes : nodes[k].at = alias => k = j
                    BY <2>1, <5>1 DEF NothingIsExtractedTwice
                <5>3. ContainerOf(nodes[i].at) = nodes[CHOOSE k \in DOMAIN nodes : nodes[k].at = alias].id
                    BY <4>3 DEF ContainerOf
                <5> HIDE DEF alias
                <5> QED
                    BY <5>1, <5>2, <5>3
            <4> QED
                BY <3>1, <4>1, <4>2, <4>3 DEF BelongsTo
        <3> QED
            BY <3>1, <3>2 DEF HasEdge
    <2>3. ASSUME NEW i \in DOMAIN references, IsCalling(references[i].kind),
                 ~InDefProc(references[i].at)
          PROVE  references[i].from = ScopeOf(references[i].at)
        <3>1. /\ Type(references[i].at) \notin language.packageTypes
              /\ IsScope(nodes, references[i].from, references[i].at)
            BY <2>1, <2>3 DEF ReferencesAreScoped, Sent
        <3>2. references[i].at \in Tree
            BY <2>1, <2>3 DEF ReferencesArePast, Past, Claims, IsCalling
        <3>3. \A j \in DOMAIN nodes : nodes[j].kind = "namespace" => nodes[j].at # references[i].at
            BY <2>1, <3>1 DEF RootsAreFirst
        <3> QED
            BY <1>1, <3>1, <3>2, <3>3, ScopeOfIs
    <2> QED
        BY <2>2, <2>3 DEF AttributedToInnermost, IsCalling
<1>2. WalkInit => WalkInv
    BY WalkInvInit
<1>3. WalkInv /\ [WalkNext]_walkVars => WalkInv'
    BY WalkStays
<1>4. WalkInv => AttributedToInnermost
    BY <1>1
<1> QED
    BY <1>2, <1>3, <1>4, PTL DEF WalkSpec

(* However deep in anonymous functions, objects and variables a call is:   *)
(* when the walk is done, each call in the body of a function or method    *)
(* that became a symbol is a reference from this symbol.  What             *)
(* visitFunctionBody has not extracted yet, a task on the agenda owes.     *)
THEOREM NoBodyLosesACall == WalkSpec => []BodiesLoseNoCall
<1>1. ASSUME WalkInv PROVE BodiesLoseNoCall
    <2>1. SUFFICES ASSUME Done, NEW i \in DOMAIN nodes, NEW n \in Tree, OwnCall(nodes[i], n)
                   PROVE  Made(references, nodes[i].id, n)
        BY DEF BodiesLoseNoCall, OwnCall, Made
    <2>2. PICK level : CallsAreOwed(level)
        BY <1>1 DEF WalkInv, ScopeInv
    <2>3. DOMAIN agenda = {}
        BY <2>1, NothingNew DEF Done
    <2> QED
        BY <2>1, <2>2, <2>3 DEF CallsAreOwed
<1>2. WalkInit => WalkInv
    BY WalkInvInit
<1>3. WalkInv /\ [WalkNext]_walkVars => WalkInv'
    BY WalkStays
<1>4. WalkInv => BodiesLoseNoCall
    BY <1>1
<1> QED
    BY <1>2, <1>3, <1>4, PTL DEF WalkSpec

(* Of any program of the eight languages, however deep it nests, the walk  *)
(* extracts each declaration into one symbol and each call, import, base   *)
(* type and decorator into one reference: a node that visitNode or         *)
(* visitFunctionBody hands over to an extract* method is not walked again. *)
THEOREM EachDeclarationIsExtractedOnce == WalkSpec => []NothingIsExtractedTwice
<1>1. WalkInit => WalkInv
    BY WalkInvInit
<1>2. WalkInv /\ [WalkNext]_walkVars => WalkInv'
    BY WalkStays
<1>3. WalkInv => NothingIsExtractedTwice
    BY DEF WalkInv, OnceInv
<1> QED
    BY <1>1, <1>2, <1>3, PTL DEF WalkSpec
-----------------------------------------------------------------------------
(* ExtractionStore.                                                        *)

USE ExtractionStoreAssumption DEF ExtractionStoreAssumption

Storing == {"nodes", "edges", "refs", "upsert"}
HasRead == Storing \cup {"storing"}

(* The tables the file at hand has its rows in already. *)
Written ==
    {t \in Tables : \/ t = "nodes" /\ phase # "nodes"
                    \/ t = "edges" /\ phase \in {"refs", "upsert"}
                    \/ t = "refs" /\ phase = "upsert"}

Half(f) == phase \in Storing /\ f = File

Due(f) ==
    IF Half(f) THEN {current.content} \X Written
    ELSE IF Tracked(f) THEN {record[f].content} \X Tables ELSE {}

(* A modification time is that of an edit that has happened. *)
StampsArePast ==
    /\ \A f \in Files : disk[f].mtime <= edits /\ record[f].mtime <= edits
    /\ current.mtime <= edits

(* Only indexAll reads the content first; and what has been read goes with *)
(* the stat that was read, or the file is torn.                            *)
ReadsAreOrdered ==
    /\ phase = "reading" => current.content = NoContent
    /\ phase = "reading2" => (current.content = NoContent <=> job # "indexAll")
    /\ phase \in HasRead => current.content \in Contents
    /\ phase \in HasRead /\ File \notin torn /\ OnDisk(File)
          /\ current.mtime = disk[File].mtime => current.content = disk[File].content

(* The rows are those due, or of stores that were cut short. *)
RowsAreBounded(f) == rows[f] \subseteq Due(f) \cup (cut[f] \X Tables)

(* A file that is being stored has no record, and the rows of what has     *)
(* been written so far.                                                    *)
RowsAreDue ==
    /\ RecordImpliesRows
    /\ phase \in Storing => ~Tracked(File) /\ {current.content} \X Written \subseteq rows[File]
    /\ \A f \in Files : RowsAreBounded(f)

StoreInv == TypeOK /\ StampsArePast /\ ReadsAreOrdered /\ RowsAreDue /\ OnlyTornReadsDeceive
-----------------------------------------------------------------------------
LEMMA NothingType ==
    Nothing \in [file : Files, content : Contents \cup {NoContent}, mtime : 0 .. MaxEdits]
        /\ Nothing.mtime = 0
<1>1. (CHOOSE f \in Files : TRUE) \in Files
    OBVIOUS
<1> QED
    BY <1>1 DEF Nothing

LEMMA NoRecordType == NoRecord \in Versions /\ NoRecord.content = NoContent /\ NoRecord.mtime = 0
    BY DEF NoRecord, Versions

LEMMA StoreInit == Init => StoreInv
<1> SUFFICES ASSUME Init PROVE StoreInv
    OBVIOUS
<1> USE NothingType, NoRecordType
<1>1. TypeOK
    <2>1. disk \in [Files -> Versions]
        <3>1. [content : Contents, mtime : {0}] \subseteq Versions
            BY DEF Versions
        <3> QED
            BY <3>1 DEF Init
    <2>2. record \in [Files -> Versions] /\ trackedMap \in [Files -> Versions]
        BY DEF Init
    <2>3. rows \in [Files -> SUBSET (Contents \X Tables)]
        BY DEF Init
    <2>4. /\ job = "none" /\ phase = "idle" /\ phase \in Phases
          /\ current = Nothing
          /\ todo = {} /\ listed = {} /\ torn = {}
          /\ edits = 0 /\ crashes = 0 /\ owed = "start"
          /\ cut = [f \in Files |-> {}]
        BY DEF Init, Phases
    <2>5. current \in [file : Files, content : Contents \cup {NoContent}, mtime : 0 .. MaxEdits]
        BY <2>4
    <2>6. edits \in 0 .. MaxEdits /\ crashes \in 0 .. MaxCrashes
        BY <2>4
    <2>7. owed \in {"nothing", "sync", "start", "unseen"} /\ cut \in [Files -> SUBSET Contents]
        BY <2>4
    <2> QED
        BY <2>1, <2>2, <2>3, <2>4, <2>5, <2>6, <2>7 DEF TypeOK
<1>2. \A f \in Files : disk[f].mtime = 0 /\ record[f] = NoRecord /\ ~Tracked(f)
    BY DEF Init, Tracked
<1>3. StampsArePast
    BY <1>2 DEF Init, StampsArePast
<1>4. ReadsAreOrdered
    BY DEF Init, ReadsAreOrdered, HasRead, Storing
<1>5. RowsAreDue
    BY <1>2 DEF Init, RowsAreDue, RecordImpliesRows, RowsAreBounded, Due, Half, Storing
<1>6. OnlyTornReadsDeceive
    <2> SUFFICES ASSUME NEW f \in Files PROVE ~Tracked(f)
        BY DEF OnlyTornReadsDeceive
    <2> QED
        BY <1>2
<1> QED
    BY <1>1, <1>3, <1>4, <1>5, <1>6 DEF StoreInv
-----------------------------------------------------------------------------
(* One lemma per action: an edit gets a stamp no record and no read has.   *)
LEMMA EditKeeps ==
    ASSUME StoreInv, NEW x \in Files, Edit(x)
    PROVE  StoreInv'
<1> USE NoRecordType DEF Edit, dbVars, jobVars
<1>1. TypeOK'
    <2>1. disk' \in [Files -> Versions]
        <3>1. disk \in [Files -> Versions] /\ edits + 1 \in 0 .. MaxEdits
            BY DEF StoreInv, TypeOK
        <3>2. \A c \in Contents : [content |-> c, mtime |-> edits + 1] \in Versions
            BY <3>1 DEF Versions
        <3> QED
            BY <3>1, <3>2
    <2> QED
        BY <2>1 DEF StoreInv, TypeOK, Versions
<1>2. \A f \in Files : f # x => disk'[f] = disk[f]
    BY DEF StoreInv, TypeOK
<1>3. disk'[x].mtime = edits' \/ ~OnDisk(x)'
    BY DEF StoreInv, TypeOK, OnDisk
<1>4. disk'[x].mtime <= edits'
    BY DEF StoreInv, TypeOK
<1>5. StampsArePast'
    <2>1. edits \in Nat /\ edits' = edits + 1 /\ current.mtime \in Nat
        BY DEF StoreInv, TypeOK
    <2>2. \A f \in Files : record[f].mtime \in Nat /\ disk[f].mtime \in Nat
        BY DEF StoreInv, TypeOK, Versions
    <2>3. /\ \A f \in Files : record[f].mtime <= edits' /\ disk[f].mtime <= edits'
          /\ current.mtime <= edits'
        BY <2>1, <2>2 DEF StoreInv, StampsArePast
    <2> QED
        BY <2>3, <1>2, <1>4 DEF StampsArePast
<1>6. ReadsAreOrdered'
    <2>1. CASE File = x
        <3>1. current.mtime < edits'
            BY DEF StoreInv, StampsArePast, TypeOK
        <3>2. ~(OnDisk(File)' /\ current'.mtime = disk'[File].mtime) /\ File' = File
            BY <2>1, <1>3, <3>1 DEF StoreInv, TypeOK, File, OnDisk
        <3>3. UNCHANGED <<phase, job, current>>
            OBVIOUS
        <3> QED
            BY <3>2, <3>3 DEF StoreInv, ReadsAreOrdered, OnDisk, File
    <2>2. CASE File # x
        BY <2>2, <1>2 DEF StoreInv, ReadsAreOrdered, TypeOK, File, OnDisk
    <2> QED
        BY <2>1, <2>2
<1>7. RowsAreDue'
    BY DEF StoreInv, RowsAreDue, RecordImpliesRows, RowsAreBounded, Due, Half, Tracked, Written, File
<1>8. OnlyTornReadsDeceive'
    <2> SUFFICES ASSUME NEW f \in Files, f \notin torn', Tracked(f)', OnDisk(f)',
                        record'[f].mtime = disk'[f].mtime
                 PROVE  record'[f].content = disk'[f].content
        BY DEF OnlyTornReadsDeceive
    <2>1. record[f].mtime < edits'
        BY DEF StoreInv, StampsArePast, TypeOK, Versions
    <2>2. f # x
        BY <2>1, <1>3 DEF StoreInv, TypeOK, Versions
    <2> QED
        BY <2>2, <1>2 DEF StoreInv, OnlyTornReadsDeceive, Tracked, OnDisk
<1> QED
    BY <1>1, <1>5, <1>6, <1>7, <1>8 DEF StoreInv

(* What neither stores nor reads leaves the tables and the read apart.     *)
LEMMA IdlingKeeps ==
    ASSUME StoreInv, TypeOK', UNCHANGED <<disk, record, rows, cut, edits, torn>>,
           phase \notin Storing, phase' \notin HasRead \cup {"reading2"},
           phase' = "reading" => current'.content = NoContent,
           current'.mtime <= edits
    PROVE  StoreInv'
<1>1. StampsArePast'
    BY DEF StoreInv, StampsArePast
<1>2. ReadsAreOrdered'
    BY DEF ReadsAreOrdered, HasRead, Storing
<1>3. RowsAreDue'
    BY DEF StoreInv, RowsAreDue, RecordImpliesRows, RowsAreBounded, Due, Half, Tracked, HasRead
<1>4. OnlyTornReadsDeceive'
    BY DEF StoreInv, OnlyTornReadsDeceive, Tracked, OnDisk
<1> QED
    BY <1>1, <1>2, <1>3, <1>4 DEF StoreInv
LEMMA BeginKeeps ==
    ASSUME StoreInv, BeginIndexAll \/ BeginIndexFiles \/ BeginSync
    PROVE  StoreInv'
<1> USE DEF Begin, dbVars
<1>1. /\ job' \in Jobs /\ phase' \in {"picking", "removing"}
      /\ todo' \subseteq Files
      /\ UNCHANGED <<disk, record, rows, cut, current, edits, crashes, torn>>
      /\ phase = "idle" /\ owed' \in {owed, "nothing"}
    BY DEF BeginIndexAll, BeginIndexFiles, BeginSync, StoreInv, TypeOK
<1>2. listed' \subseteq Files /\ trackedMap' \in [Files -> Versions]
    BY DEF BeginIndexAll, BeginIndexFiles, BeginSync, StoreInv, TypeOK
<1>3. TypeOK'
    <2>1. job' # "none" /\ phase' # "idle" /\ phase' \in Phases
        BY <1>1 DEF AllJobs, Phases
    <2> QED
        BY <1>1, <1>2, <2>1 DEF StoreInv, TypeOK
<1> QED
    BY <1>1, <1>3, IdlingKeeps DEF HasRead, Storing, StoreInv, StampsArePast

LEMMA RemoveKeeps ==
    ASSUME StoreInv, NEW x \in Files, Remove(x)
    PROVE  StoreInv'
<1> USE NoRecordType DEF Remove, dbVars, diskVars
<1>1. /\ \/ /\ record' = [record EXCEPT ![x] = NoRecord]
            /\ rows' = [rows EXCEPT ![x] = {}]
            /\ cut' = [cut EXCEPT ![x] = {}]
         \/ UNCHANGED <<record, rows, cut>>
      /\ phase = "removing"
      /\ UNCHANGED <<disk, edits, owed, torn, job, phase, current, crashes>>
    OBVIOUS
<1>2. \A f \in Files : \/ record'[f] = NoRecord /\ rows'[f] = {}
                       \/ record'[f] = record[f] /\ rows'[f] = rows[f] /\ cut'[f] = cut[f]
    BY <1>1 DEF StoreInv, TypeOK
<1>3. TypeOK'
    <2>1. /\ record' \in [Files -> Versions] /\ rows' \in [Files -> SUBSET (Contents \X Tables)]
          /\ cut' \in [Files -> SUBSET Contents]
        BY <1>1 DEF StoreInv, TypeOK
    <2> QED
        BY <2>1 DEF StoreInv, TypeOK
<1>4. StampsArePast'
    BY <1>1, <1>2 DEF StoreInv, StampsArePast, TypeOK
<1>5. ReadsAreOrdered'
    BY <1>1 DEF ReadsAreOrdered, HasRead, Storing
<1>6. RowsAreDue'
    <2>1. phase' \notin Storing /\ \A f \in Files : ~Half(f) /\ ~Half(f)'
        BY <1>1 DEF Half, Storing
    <2>2. \A f \in Files : RowsAreBounded(f)'
        BY <1>2, <2>1 DEF StoreInv, RowsAreDue, RowsAreBounded, Due, Tracked
    <2> QED
        BY <1>2, <2>1, <2>2 DEF StoreInv, RowsAreDue, RecordImpliesRows, Tracked
<1>7. OnlyTornReadsDeceive'
    BY <1>1, <1>2 DEF StoreInv, OnlyTornReadsDeceive, Tracked, OnDisk
<1> QED
    BY <1>3, <1>4, <1>5, <1>6, <1>7 DEF StoreInv

LEMMA LoopsKeep ==
    ASSUME StoreInv,
           RemovalsDone \/ ChecksDone \/ End \/ \E f \in Files : Check(f) \/ Pick(f)
    PROVE  StoreInv'
<1> USE NothingType DEF RemovalsDone, ChecksDone, End, Check, Pick, dbVars, diskVars
<1>1. /\ UNCHANGED <<disk, record, rows, cut, edits, owed, torn, crashes>>
      /\ phase \in {"removing", "checking", "picking"}
      /\ phase' \in {"checking", "picking", "reading", "idle"}
    OBVIOUS
<1>2. /\ current' \in [file : Files, content : Contents \cup {NoContent}, mtime : 0 .. MaxEdits]
      /\ current' = current \/ (current'.content = NoContent /\ current'.mtime = 0)
      /\ phase' = "reading" => current'.content = NoContent
    <2>1. Nothing.content = NoContent
        BY DEF Nothing
    <2>2. CASE current' \in {current, Nothing} /\ phase' # "reading"
        <3>1. current \in [file : Files, content : Contents \cup {NoContent}, mtime : 0 .. MaxEdits]
            BY DEF StoreInv, TypeOK
        <3> QED
            BY <2>1, <2>2, <3>1
    <2>3. CASE \E f \in Files : current' = [file |-> f, content |-> NoContent, mtime |-> 0]
        <3>1. 0 \in 0 .. MaxEdits
            OBVIOUS
        <3> QED
            BY <2>3, <3>1
    <2> QED
        BY <2>2, <2>3
<1>3. TypeOK'
    <2>1. todo' \subseteq Files /\ listed' \subseteq Files
        BY DEF StoreInv, TypeOK
    <2>2. trackedMap' \in [Files -> Versions]
        BY NoRecordType DEF StoreInv, TypeOK
    <2>3. job' \in Jobs \cup {"none"} /\ ((job' = "none") <=> (phase' = "idle"))
        BY DEF StoreInv, TypeOK
    <2> QED
        BY <1>1, <1>2, <2>1, <2>2, <2>3 DEF StoreInv, TypeOK, Phases
<1>4. current'.mtime <= edits'
    BY <1>1, <1>2 DEF StoreInv, StampsArePast, TypeOK
<1> QED
    BY <1>1, <1>2, <1>3, <1>4, IdlingKeeps DEF HasRead, Storing

LEMMA CrashKeeps ==
    ASSUME StoreInv, Crash
    PROVE  StoreInv'
<1> USE NothingType, NoRecordType DEF Crash, dbVars, diskVars
<1>1. TypeOK'
    <2>1. cut' \in [Files -> SUBSET Contents]
        BY DEF StoreInv, TypeOK, ReadsAreOrdered, HasRead, Storing
    <2>2. owed' \in {"nothing", "sync", "start", "unseen"}
        OBVIOUS
    <2> QED
        BY <2>1, <2>2 DEF StoreInv, TypeOK, Phases
<1>2. StampsArePast'
    BY DEF StoreInv, StampsArePast, TypeOK
<1>3. ReadsAreOrdered'
    BY DEF ReadsAreOrdered, HasRead, Storing
<1>4. RowsAreDue'
    <2>1. phase' \notin Storing /\ \A f \in Files : ~Half(f)' /\ Tracked(f)' = Tracked(f)
        BY DEF Half, Storing, Tracked
    <2>2. \A f \in Files : RowsAreBounded(f)'
        <3> SUFFICES ASSUME NEW f \in Files PROVE RowsAreBounded(f)'
            OBVIOUS
        <3>1. rows[f] \subseteq Due(f) \cup (cut[f] \X Tables) /\ rows' = rows /\ cut[f] \subseteq cut'[f]
            BY DEF StoreInv, RowsAreDue, RowsAreBounded, TypeOK
        <3>2. CASE ~Half(f)
            BY <2>1, <3>1, <3>2 DEF RowsAreBounded, Due
        <3>3. CASE Half(f) /\ phase = "nodes"
            <4>1. Written = {}
                BY <3>3 DEF Written
            <4> QED
                BY <2>1, <3>1, <3>3, <4>1 DEF RowsAreBounded, Due
        <3>4. CASE Half(f) /\ phase # "nodes"
            <4>1. current.content \in cut'[f] /\ Written \subseteq Tables
                BY <3>4 DEF Half, Storing, StoreInv, TypeOK, Written
            <4> QED
                BY <2>1, <3>1, <3>4, <4>1 DEF RowsAreBounded, Due
        <3> QED
            BY <3>2, <3>3, <3>4
    <2> QED
        BY <2>1, <2>2 DEF StoreInv, RowsAreDue, RecordImpliesRows
<1>5. OnlyTornReadsDeceive'
    BY DEF StoreInv, OnlyTornReadsDeceive, Tracked, OnDisk
<1> QED
    BY <1>1, <1>2, <1>3, <1>4, <1>5 DEF StoreInv
-----------------------------------------------------------------------------
(* Reading: a content read before the stat may be that of an earlier edit; *)
(* a stat read before the content is that of an earlier edit, if any.      *)
LEMMA ReadFirstKeeps ==
    ASSUME StoreInv, ReadFirst
    PROVE  StoreInv'
<1> USE DEF ReadFirst, dbVars, diskVars
<1>1. UNCHANGED <<disk, record, rows, cut, edits, owed, torn, job, todo, listed, trackedMap, crashes>>
    OBVIOUS
<1>2. File \in Files /\ disk[File] \in Versions
    BY DEF StoreInv, TypeOK, File
<1>3. \/ /\ phase' = "picking" /\ current' = current
      \/ /\ phase' = "reading2" /\ OnDisk(File)
         /\ \/ job = "indexAll" /\ current' = [current EXCEPT !.content = disk[File].content]
            \/ job # "indexAll" /\ current' = [current EXCEPT !.mtime = disk[File].mtime]
    BY DEF ReadContent, ReadStat
<1>4. TypeOK'
    BY <1>1, <1>2, <1>3 DEF StoreInv, TypeOK, Versions, Phases
<1>5. StampsArePast'
    BY <1>1, <1>2, <1>3 DEF StoreInv, StampsArePast, TypeOK
<1>6. ReadsAreOrdered'
    BY <1>1, <1>3 DEF StoreInv, ReadsAreOrdered, TypeOK, HasRead, Storing, OnDisk
<1>7. RowsAreDue'
    BY <1>1, <1>3 DEF StoreInv, RowsAreDue, RecordImpliesRows, RowsAreBounded, Due, Half, Tracked,
        Storing
<1>8. OnlyTornReadsDeceive'
    BY <1>1 DEF StoreInv, OnlyTornReadsDeceive, Tracked, OnDisk
<1> QED
    BY <1>4, <1>5, <1>6, <1>7, <1>8 DEF StoreInv

LEMMA ReadSecondKeeps ==
    ASSUME StoreInv, ReadSecond
    PROVE  StoreInv'
<1> USE DEF ReadSecond
<1>1. /\ UNCHANGED <<disk, record, rows, cut, edits, owed, job, todo, listed, trackedMap, crashes>>
      /\ phase = "reading2"
      /\ torn \subseteq torn' /\ torn' \subseteq torn \cup {File}
    BY DEF dbVars
<1>2. File \in Files /\ disk[File] \in Versions
    BY DEF StoreInv, TypeOK, File
<1>3. \/ /\ phase' = "picking" /\ current' = current
      \/ /\ phase' = "storing" /\ OnDisk(File) /\ job # "indexAll"
         /\ current' = [current EXCEPT !.content = disk[File].content]
      \/ /\ phase' = "storing" /\ OnDisk(File) /\ current.content # NoContent
         /\ current' = [current EXCEPT !.mtime = disk[File].mtime]
         /\ disk[File].content # current.content => File \in torn'
    BY DEF ReadContent, ReadStat, StoreInv, ReadsAreOrdered
<1>4. TypeOK'
    BY <1>1, <1>2, <1>3 DEF StoreInv, TypeOK, Versions, Phases
<1>5. StampsArePast'
    BY <1>1, <1>2, <1>3 DEF StoreInv, StampsArePast, TypeOK
<1>6. ReadsAreOrdered'
    <2>1. phase' = "storing" => current'.content \in Contents /\ File' = File
        BY <1>1, <1>2, <1>3 DEF StoreInv, TypeOK, Versions, OnDisk, File
    <2>2. phase' = "storing" /\ File \notin torn' => current'.content = disk[File].content
        BY <1>1, <1>2, <1>3 DEF StoreInv, TypeOK
    <2> QED
        BY <1>1, <1>3, <2>1, <2>2 DEF ReadsAreOrdered, HasRead, Storing, OnDisk
<1>7. RowsAreDue'
    BY <1>1, <1>3 DEF StoreInv, RowsAreDue, RecordImpliesRows, RowsAreBounded, Due, Half, Tracked,
        Storing
<1>8. OnlyTornReadsDeceive'
    BY <1>1 DEF StoreInv, OnlyTornReadsDeceive, Tracked, OnDisk
<1> QED
    BY <1>4, <1>5, <1>6, <1>7, <1>8 DEF StoreInv
-----------------------------------------------------------------------------
(* Storing: only the rows and the record of the file at hand change, and   *)
(* what was read stays.                                                    *)
LEMMA StoringKeeps ==
    ASSUME StoreInv, TypeOK', RowsAreDue', UNCHANGED <<disk, edits, torn, job, current>>,
           phase \in HasRead, phase' \in HasRead \cup {"picking"},
           \A f \in Files : \/ record'[f] = record[f] \/ ~Tracked(f)'
                            \/ f = File /\ record'[f].content = current.content,
           \A f \in Files : record'[f].mtime \in {0, record[f].mtime, current.mtime},
           \A f \in Files :
              record'[f] = record[f] \/ ~Tracked(f)' \/ record'[f].mtime = current.mtime
    PROVE  StoreInv'
<1>1. StampsArePast'
    BY DEF StoreInv, StampsArePast, TypeOK
<1>2. ReadsAreOrdered'
    BY DEF StoreInv, ReadsAreOrdered, HasRead, Storing, File, OnDisk
<1>3. OnlyTornReadsDeceive'
    BY DEF StoreInv, OnlyTornReadsDeceive, ReadsAreOrdered, Tracked, OnDisk, File
<1> QED
    BY <1>1, <1>2, <1>3 DEF StoreInv

LEMMA ReplaceKeeps ==
    ASSUME StoreInv, Replace
    PROVE  StoreInv'
<1> USE NoRecordType DEF Replace, dbVars, diskVars
<1>1. /\ UNCHANGED <<disk, edits, owed, torn, job, todo, listed, trackedMap, current, crashes>>
      /\ phase = "storing" /\ phase' \in {"picking", "nodes"}
      /\ \/ UNCHANGED <<record, rows, cut>> /\ (phase' = "nodes" => ~Tracked(File))
         \/ /\ record' = [record EXCEPT ![File] = NoRecord]
            /\ rows' = [rows EXCEPT ![File] = {}]
            /\ cut' = [cut EXCEPT ![File] = {}]
            /\ phase' = "nodes"
    OBVIOUS
<1>2. File \in Files /\ File' = File
    BY <1>1 DEF StoreInv, TypeOK, File
<1>3. \A f \in Files :
          \/ record'[f] = record[f] /\ rows'[f] = rows[f] /\ cut'[f] = cut[f]
          \/ f = File /\ phase' = "nodes" /\ record'[f] = NoRecord /\ rows'[f] = {}
    BY <1>1, <1>2 DEF StoreInv, TypeOK
<1>4. TypeOK'
    <2>1. /\ record' \in [Files -> Versions] /\ rows' \in [Files -> SUBSET (Contents \X Tables)]
          /\ cut' \in [Files -> SUBSET Contents]
        BY <1>1, <1>2 DEF StoreInv, TypeOK
    <2> QED
        BY <1>1, <2>1 DEF StoreInv, TypeOK, Phases
<1>5. phase' = "nodes" => ~Tracked(File)' /\ Written' = {}
    BY <1>1, <1>2, <1>3 DEF Tracked, Written, StoreInv, TypeOK
<1>6. RowsAreDue'
    <2>1. RecordImpliesRows'
        BY <1>3 DEF StoreInv, RowsAreDue, RecordImpliesRows, Tracked
    <2>2. \A f \in Files : RowsAreBounded(f)'
        <3> SUFFICES ASSUME NEW f \in Files PROVE RowsAreBounded(f)'
            OBVIOUS
        <3>1. rows[f] \subseteq (IF Tracked(f) THEN {record[f].content} \X Tables ELSE {})
                                \cup (cut[f] \X Tables)
            BY <1>1 DEF StoreInv, RowsAreDue, RowsAreBounded, Due, Half, Storing
        <3>2. CASE phase' = "nodes" /\ f = File
            <4>1. rows'[f] \subseteq cut'[f] \X Tables
                BY <1>1, <1>2, <1>3, <1>5, <3>1, <3>2 DEF StoreInv, TypeOK, Tracked
            <4> QED
                BY <4>1 DEF RowsAreBounded
        <3>3. CASE ~(phase' = "nodes" /\ f = File)
            <4>1. ~Half(f)'
                BY <1>1, <1>2, <3>3 DEF Half, Storing
            <4> QED
                BY <4>1, <3>1, <3>3, <1>3 DEF Due, Tracked, RowsAreBounded
        <3> QED
            BY <3>2, <3>3
    <2> QED
        BY <1>1, <1>5, <2>1, <2>2 DEF RowsAreDue, Storing
<1> QED
    BY <1>1, <1>3, <1>4, <1>6, StoringKeeps DEF HasRead, Storing, Tracked

LEMMA InsertNodesKeeps ==
    ASSUME StoreInv, InsertNodes
    PROVE  StoreInv'
<1> USE DEF InsertNodes, diskVars
<1>1. /\ UNCHANGED <<disk, edits, owed, torn, job, todo, listed, trackedMap, current, crashes, record, cut>>
      /\ phase = "nodes" /\ phase' = "edges"
      /\ rows' = [rows EXCEPT ![File] =
                     (@ \ ({current.content} \X Tables)) \cup {<<current.content, "nodes">>}]
    OBVIOUS
<1>2. File \in Files /\ File' = File /\ current.content \in Contents /\ ~Tracked(File)
    BY <1>1 DEF StoreInv, TypeOK, File, ReadsAreOrdered, RowsAreDue, HasRead, Storing
<1>3. /\ \A f \in Files : f # File => rows'[f] = rows[f]
      /\ rows'[File] = (rows[File] \ ({current.content} \X Tables)) \cup {<<current.content, "nodes">>}
    BY <1>1, <1>2 DEF StoreInv, TypeOK
<1>4. TypeOK'
    <2>1. rows' \in [Files -> SUBSET (Contents \X Tables)]
        BY <1>1, <1>2 DEF StoreInv, TypeOK, Tables
    <2> QED
        BY <1>1, <2>1 DEF StoreInv, TypeOK, Phases
<1>5. {current.content} \X Written' = {<<current.content, "nodes">>} /\ Written = {}
    <2>1. Written' = {"nodes"} /\ Written = {}
        BY <1>1 DEF Written, Tables
    <2> QED
        BY <2>1
<1>6. RowsAreDue'
    <2>1. RecordImpliesRows'
        BY <1>1, <1>2, <1>3 DEF StoreInv, RowsAreDue, RecordImpliesRows, Tracked
    <2>2. \A f \in Files : RowsAreBounded(f)'
        <3> SUFFICES ASSUME NEW f \in Files PROVE RowsAreBounded(f)'
            OBVIOUS
        <3>1. rows[f] \subseteq Due(f) \cup (cut[f] \X Tables)
            BY DEF StoreInv, RowsAreDue, RowsAreBounded
        <3>2. CASE f = File
            <4>1. Due(f) = {} /\ Due(f)' = {<<current.content, "nodes">>}
                BY <1>1, <1>2, <1>5, <3>2 DEF Due, Half, Storing
            <4> QED
                BY <3>1, <3>2, <4>1, <1>1, <1>3 DEF RowsAreBounded
        <3>3. CASE f # File
            BY <3>1, <3>3, <1>1, <1>2, <1>3 DEF Due, Half, Tracked, RowsAreBounded
        <3> QED
            BY <3>2, <3>3
    <2>3. ~Tracked(File)' /\ {current'.content} \X Written' \subseteq rows'[File]
        BY <1>1, <1>2, <1>3, <1>5 DEF Tracked
    <2> QED
        BY <1>2, <2>1, <2>2, <2>3 DEF RowsAreDue
<1> QED
    BY <1>1, <1>4, <1>6, StoringKeeps DEF HasRead, Storing

LEMMA InsertLinksKeeps ==
    ASSUME StoreInv, NEW from, NEW table, NEW to, InsertLinks(from, table, to),
           \/ from = "edges" /\ table = "edges" /\ to = "refs"
           \/ from = "refs" /\ table = "refs" /\ to = "upsert"
    PROVE  StoreInv'
<1> USE DEF InsertLinks, diskVars
<1>1. /\ UNCHANGED <<disk, edits, owed, torn, job, todo, listed, trackedMap, current, crashes, record, cut>>
      /\ phase \in {"edges", "refs"} /\ phase' \in {"refs", "upsert"}
      /\ rows' = [rows EXCEPT ![File] = @ \cup {<<current.content, table>>}]
      /\ table \in Tables
    BY DEF Tables
<1>2. File \in Files /\ File' = File /\ current.content \in Contents /\ ~Tracked(File)
    BY <1>1 DEF StoreInv, TypeOK, File, ReadsAreOrdered, RowsAreDue, HasRead, Storing
<1>3. /\ \A f \in Files : f # File => rows'[f] = rows[f]
      /\ rows'[File] = rows[File] \cup {<<current.content, table>>}
    BY <1>1, <1>2 DEF StoreInv, TypeOK
<1>4. TypeOK'
    <2>1. rows' \in [Files -> SUBSET (Contents \X Tables)]
        BY <1>1, <1>2 DEF StoreInv, TypeOK
    <2> QED
        BY <1>1, <2>1 DEF StoreInv, TypeOK, Phases
<1>5. {current.content} \X Written' = ({current.content} \X Written) \cup {<<current.content, table>>}
    <2>1. Written' = Written \cup {table}
        BY <1>1 DEF Written, Tables
    <2> QED
        BY <2>1
<1>6. RowsAreDue'
    <2>1. RecordImpliesRows'
        BY <1>1, <1>2, <1>3 DEF StoreInv, RowsAreDue, RecordImpliesRows, Tracked
    <2>2. \A f \in Files : RowsAreBounded(f)'
        <3> SUFFICES ASSUME NEW f \in Files PROVE RowsAreBounded(f)'
            OBVIOUS
        <3>1. rows[f] \subseteq Due(f) \cup (cut[f] \X Tables)
            BY DEF StoreInv, RowsAreDue, RowsAreBounded
        <3>2. CASE f = File
            <4>1. Due(f)' = Due(f) \cup {<<current.content, table>>}
                BY <1>1, <1>2, <1>5, <3>2 DEF Due, Half, Storing
            <4> QED
                BY <3>1, <3>2, <4>1, <1>1, <1>3 DEF RowsAreBounded
        <3>3. CASE f # File
            BY <3>1, <3>3, <1>1, <1>2, <1>3 DEF Due, Half, Tracked, RowsAreBounded
        <3> QED
            BY <3>2, <3>3
    <2>3. ~Tracked(File)' /\ {current'.content} \X Written' \subseteq rows'[File]
        <3>1. {current.content} \X Written \subseteq rows[File]
            BY <1>1 DEF StoreInv, RowsAreDue, Storing
        <3> QED
            BY <3>1, <1>1, <1>2, <1>3, <1>5 DEF Tracked
    <2> QED
        BY <1>2, <2>1, <2>2, <2>3 DEF RowsAreDue
<1> QED
    BY <1>1, <1>4, <1>6, StoringKeeps DEF HasRead, Storing

LEMMA UpsertFileKeeps ==
    ASSUME StoreInv, UpsertFile
    PROVE  StoreInv'
<1> USE DEF UpsertFile, diskVars
<1>1. /\ UNCHANGED <<disk, edits, owed, torn, job, todo, listed, trackedMap, current, crashes, rows, cut>>
      /\ phase = "upsert" /\ phase' = "picking"
      /\ record' = [record EXCEPT ![File] = [content |-> current.content, mtime |-> current.mtime]]
    OBVIOUS
<1>2. File \in Files /\ current.content \in Contents /\ current.mtime \in 0 .. MaxEdits
    BY <1>1 DEF StoreInv, TypeOK, File, ReadsAreOrdered, HasRead, Storing
<1>3. /\ \A f \in Files : f # File => record'[f] = record[f]
      /\ record'[File] = [content |-> current.content, mtime |-> current.mtime]
    BY <1>1, <1>2 DEF StoreInv, TypeOK
<1>4. TypeOK'
    <2>1. record' \in [Files -> Versions]
        BY <1>1, <1>2 DEF StoreInv, TypeOK, Versions
    <2> QED
        BY <1>1, <2>1 DEF StoreInv, TypeOK, Phases
<1>5. Written = Tables
    BY <1>1 DEF Written, Tables
<1>6. RowsAreDue'
    <2>1. RecordImpliesRows'
        <3>1. {current.content} \X Tables \subseteq rows[File]
            BY <1>1, <1>5 DEF StoreInv, RowsAreDue, Storing
        <3> QED
            BY <1>1, <1>3, <3>1 DEF StoreInv, RowsAreDue, RecordImpliesRows, Tracked
    <2>2. \A f \in Files : RowsAreBounded(f)'
        <3> SUFFICES ASSUME NEW f \in Files PROVE RowsAreBounded(f)'
            OBVIOUS
        <3>1. rows[f] \subseteq Due(f) \cup (cut[f] \X Tables)
            BY DEF StoreInv, RowsAreDue, RowsAreBounded
        <3>2. CASE f = File
            <4>1. Due(f) = {current.content} \X Tables
                BY <1>1, <1>5, <3>2 DEF Due, Half, Storing
            <4>2. Due(f)' = {current.content} \X Tables
                BY <1>1, <1>2, <1>3, <3>2 DEF Tracked, Due, Half, Storing
            <4> QED
                BY <3>1, <4>1, <4>2, <1>1 DEF RowsAreBounded
        <3>3. CASE f # File
            BY <3>1, <3>3, <1>1, <1>3 DEF Due, Half, Tracked, Storing, RowsAreBounded
        <3> QED
            BY <3>2, <3>3
    <2> QED
        BY <1>1, <2>1, <2>2 DEF RowsAreDue, Storing
<1> QED
    BY <1>1, <1>3, <1>4, <1>6, StoringKeeps DEF HasRead, Storing

LEMMA StoreInductive == StoreInv /\ [Next]_vars => StoreInv'
<1> SUFFICES ASSUME StoreInv, [Next]_vars PROVE StoreInv'
    OBVIOUS
<1>1. CASE \E f \in Files : Edit(f)
    BY <1>1, EditKeeps
<1>2. CASE BeginIndexAll \/ BeginIndexFiles \/ BeginSync
    BY <1>2, BeginKeeps
<1>3. CASE Step
    <2>1. CASE \E f \in Files : Remove(f)
        BY <2>1, RemoveKeeps
    <2>2. CASE RemovalsDone \/ ChecksDone \/ End \/ \E f \in Files : Check(f) \/ Pick(f)
        BY <2>2, LoopsKeep
    <2>3. CASE ReadFirst \/ ReadSecond
        BY <2>3, ReadFirstKeeps, ReadSecondKeeps
    <2>4. CASE Replace \/ InsertNodes \/ UpsertFile
        BY <2>4, ReplaceKeeps, InsertNodesKeeps, UpsertFileKeeps
    <2>5. CASE InsertEdges \/ InsertRefs
        <3>1. CASE InsertLinks("edges", "edges", "refs")
            BY <3>1, InsertLinksKeeps
        <3>2. CASE InsertLinks("refs", "refs", "upsert")
            BY <3>2, InsertLinksKeeps
        <3> QED
            BY <2>5, <3>1, <3>2 DEF InsertEdges, InsertRefs
    <2> QED
        BY <1>3, <2>1, <2>2, <2>3, <2>4, <2>5 DEF Step, Store
<1>4. CASE Crash
    BY <1>4, CrashKeeps
<1>5. CASE StartIsRefused \/ UNCHANGED vars
    <2>1. UNCHANGED <<disk, record, rows, job, phase, todo, listed, trackedMap, current, edits, crashes, torn, cut>>
        BY <1>5 DEF StartIsRefused, vars, dbVars, jobVars
    <2>2. owed' \in {"nothing", "sync", "start", "unseen"}
        BY <1>5 DEF StartIsRefused, vars, StoreInv, TypeOK
    <2> QED
        BY <2>1, <2>2 DEF StoreInv, TypeOK, StampsArePast, ReadsAreOrdered, RowsAreDue, RecordImpliesRows,
            RowsAreBounded, Due, Half, Written, OnlyTornReadsDeceive, Tracked, OnDisk, File
<1> QED
    BY <1>1, <1>2, <1>3, <1>4, <1>5 DEF Next

(* Whatever jobs run or die, the rows of a file that is not being stored   *)
(* are those of its record and of stores that were cut short.              *)
LEMMA RowsMatch ==
    ASSUME StoreInv, NEW f \in Files, ~Half(f)
    PROVE  RowsMatchRecord(f)
<1>1. rows[f] \subseteq RecordRows(f) \cup (cut[f] \X Tables)
    BY DEF StoreInv, RowsAreDue, RowsAreBounded, Due, RecordRows
<1>2. RecordRows(f) \subseteq rows[f]
    BY DEF StoreInv, RowsAreDue, RecordImpliesRows, RecordRows
<1> QED
    BY <1>1, <1>2 DEF RowsMatchRecord

(* At any moment a record that names a content has all its rows, a stat    *)
(* that matches the record belongs to the content the record names, torn   *)
(* reads apart, and a row of another content is that of a store which was  *)
(* cut short since: storeExtractionResult and the pre-filter of sync.      *)
THEOREM TablesStayConsistent == Spec => []TablesAreConsistent
<1>1. StoreInv => TablesAreConsistent
    <2> SUFFICES ASSUME StoreInv PROVE OnlyCutStoresLeaveGhosts
        BY DEF StoreInv, RowsAreDue, TablesAreConsistent
    <2>1. job = "none" => \A f \in Files : ~Half(f)
        BY DEF StoreInv, TypeOK, Half, Storing
    <2> QED
        BY <2>1, RowsMatch DEF OnlyCutStoresLeaveGhosts
<1> QED
    BY <1>1, StoreInit, StoreInductive, PTL DEF Spec
-----------------------------------------------------------------------------
(* A sync during which the disk is quiet: what is gone loses its record    *)
(* before the checks, and what is there is still to come or up to date.    *)
InHand(f) == f = File /\ phase \in HasRead \cup {"reading", "reading2"}

SyncOf(f) ==
    /\ ~OnDisk(f) => ~Tracked(f) \/ (phase = "removing" /\ f \in todo)
    /\ OnDisk(f) =>
          /\ phase = "removing" => f \in listed /\ trackedMap[f] = record[f]
          /\ phase = "checking" => /\ trackedMap[f] = record[f]
                                   /\ f \in todo \/ f \in listed \/ RecordIsCurrent(f)
          /\ phase \notin {"removing", "checking"} => f \in todo \/ InHand(f) \/ RecordIsCurrent(f)

SyncInv ==
    job = "sync" /\ owed = "nothing" =>
        /\ \A f \in Files : SyncOf(f)
        /\ phase \in HasRead => current.content = disk[File].content

(* A step that is none of a sync, or comes after an edit, has nothing to   *)
(* show.                                                                   *)
LEMMA OutsideKeeps ==
    ASSUME StoreInv, \/ \E f \in Files : Edit(f)
                     \/ BeginIndexAll \/ BeginIndexFiles \/ StartIsRefused \/ End \/ Crash
    PROVE  SyncInv'
<1>1. owed' # "nothing" \/ job' # "sync"
    BY DEF Edit, BeginIndexAll, BeginIndexFiles, Begin, StartIsRefused, End, Crash, jobVars
<1> QED
    BY <1>1 DEF SyncInv

LEMMA SyncBegins ==
    ASSUME StoreInv, BeginSync
    PROVE  SyncInv'
<1>1. /\ UNCHANGED <<disk, record, torn>>
      /\ phase' = "removing" /\ todo' = {f \in Files : Tracked(f)} /\ trackedMap' = record
      /\ \A f \in Files : OnDisk(f) => f \in listed'
    BY DEF BeginSync, Begin, dbVars
<1> QED
    BY <1>1 DEF SyncInv, SyncOf, HasRead, Storing, OnDisk, Tracked

LEMMA SyncRemoves ==
    ASSUME StoreInv, SyncInv, NEW x \in Files, Remove(x)
    PROVE  SyncInv'
<1> SUFFICES ASSUME job = "sync", owed = "nothing" PROVE SyncInv'
    BY DEF SyncInv, Remove, diskVars
<1>1. /\ UNCHANGED <<disk, torn, listed, trackedMap>>
      /\ phase = "removing" /\ phase' = "removing" /\ todo' = todo \ {x}
    BY DEF Remove, diskVars
<1>2. \A f \in Files : f # x => record'[f] = record[f]
    BY DEF Remove, dbVars, StoreInv, TypeOK
<1>3. OnDisk(x) /\ x \in listed => record' = record
    BY DEF Remove, dbVars
<1>4. ~OnDisk(x) => record'[x] = NoRecord
    BY DEF Remove, StoreInv, TypeOK
<1>5. \A f \in Files : SyncOf(f)
    BY DEF SyncInv
<1>6. SUFFICES ASSUME NEW f \in Files PROVE SyncOf(f)'
    BY <1>1 DEF SyncInv, HasRead, Storing
<1> QED
    BY <1>1, <1>2, <1>3, <1>4, <1>5, NoRecordType DEF SyncOf, OnDisk, Tracked

LEMMA SyncChecks ==
    ASSUME StoreInv, SyncInv, RemovalsDone \/ ChecksDone \/ \E x \in Files : Check(x)
    PROVE  SyncInv'
<1> SUFFICES ASSUME job = "sync", owed = "nothing" PROVE SyncInv'
    BY DEF SyncInv, RemovalsDone, ChecksDone, Check, diskVars
<1>1. UNCHANGED <<disk, torn, record>> /\ phase' \in {"checking", "picking"}
    BY DEF RemovalsDone, ChecksDone, Check, diskVars, dbVars
<1>2. \A f \in Files : SyncOf(f)
    BY DEF SyncInv
<1>3. SUFFICES ASSUME NEW f \in Files PROVE SyncOf(f)'
    BY <1>1 DEF SyncInv, HasRead, Storing
<1>4. OnDisk(f)' = OnDisk(f) /\ Tracked(f)' = Tracked(f) /\ RecordIsCurrent(f)' = RecordIsCurrent(f)
    BY <1>1 DEF OnDisk, Tracked, RecordIsCurrent
<1>5. CASE RemovalsDone
    BY <1>1, <1>2, <1>4, <1>5 DEF RemovalsDone, SyncOf
<1>6. CASE ChecksDone
    BY <1>1, <1>2, <1>4, <1>6 DEF ChecksDone, SyncOf
<1>7. ASSUME NEW x \in Files, Check(x) PROVE SyncOf(f)'
    <2> USE <1>7 DEF Check
    <2>1. CASE f # x
        BY <1>1, <1>2, <1>4, <2>1 DEF SyncOf
    <2>2. CASE f = x /\ Changed(x)
        BY <1>1, <1>2, <1>4, <2>2 DEF SyncOf
    <2>3. CASE f = x /\ ~Changed(x) /\ OnDisk(x)
        <3>1. trackedMap[x] = record[x]
            BY <1>2, <2>3 DEF SyncOf
        <3>2. /\ Tracked(x)
              /\ \/ disk[x].mtime = record[x].mtime
                 \/ disk[x].content = record[x].content
            BY <2>3, <3>1 DEF Changed, InMap, Tracked
        <3>3. RecordIsCurrent(x)
            BY <2>3, <3>2 DEF RecordIsCurrent, StoreInv, OnlyTornReadsDeceive
        <3> QED
            BY <1>1, <1>2, <1>4, <2>3, <3>3 DEF SyncOf
    <2>4. CASE f = x /\ ~OnDisk(x)
        BY <1>1, <1>2, <1>4, <2>4 DEF SyncOf
    <2> QED
        BY <2>1, <2>2, <2>3, <2>4
<1> QED
    BY <1>5, <1>6, <1>7
LEMMA SyncReads ==
    ASSUME StoreInv, SyncInv, ReadFirst \/ ReadSecond \/ \E x \in Files : Pick(x)
    PROVE  SyncInv'
<1> SUFFICES ASSUME job = "sync", owed = "nothing" PROVE SyncInv'
    BY DEF SyncInv, ReadFirst, ReadSecond, Pick, diskVars
<1>1. /\ UNCHANGED <<disk, torn, record>>
      /\ phase \in {"picking", "reading", "reading2"}
      /\ phase' \in {"picking", "reading", "reading2", "storing"}
    BY DEF ReadFirst, ReadSecond, Pick, diskVars, dbVars
<1>2. \A f \in Files : SyncOf(f)
    BY DEF SyncInv
<1>3. \A f \in Files : /\ OnDisk(f)' = OnDisk(f)
                       /\ Tracked(f)' = Tracked(f)
                       /\ RecordIsCurrent(f)' = RecordIsCurrent(f)
    BY <1>1 DEF OnDisk, Tracked, RecordIsCurrent
<1>4. \A f \in Files : SyncOf(f)'
    <2> SUFFICES ASSUME NEW f \in Files PROVE SyncOf(f)'
        OBVIOUS
    <2>1. ASSUME NEW x \in Files, Pick(x) PROVE SyncOf(f)'
        BY <1>1, <1>2, <1>3, <2>1 DEF Pick, SyncOf, InHand, File, HasRead, Storing
    <2>2. ASSUME ReadFirst \/ ReadSecond PROVE SyncOf(f)'
        <3>1. todo' = todo /\ File' = File
            BY <2>2 DEF ReadFirst, ReadSecond, ReadContent, ReadStat, File, StoreInv, TypeOK
        <3>2. phase' = "picking" => ~OnDisk(File)
            BY <2>2 DEF ReadFirst, ReadSecond
        <3> QED
            BY <1>1, <1>2, <1>3, <3>1, <3>2 DEF SyncOf, InHand, HasRead, Storing
    <2> QED
        BY <2>1, <2>2
<1>5. phase' \in HasRead => current'.content = disk'[File'].content
    <2> SUFFICES ASSUME phase' = "storing" PROVE current'.content = disk[File'].content
        BY <1>1 DEF HasRead, Storing
    <2>1. ReadSecond /\ current.content = NoContent
        BY DEF ReadFirst, ReadSecond, Pick, StoreInv, ReadsAreOrdered
    <2> QED
        BY <2>1 DEF ReadSecond, ReadContent, File, StoreInv, TypeOK
<1> QED
    BY <1>4, <1>5 DEF SyncInv

LEMMA SyncStores ==
    ASSUME StoreInv, SyncInv, Store
    PROVE  SyncInv'
<1> USE DEF Store, Replace, InsertNodes, InsertEdges, InsertRefs, InsertLinks, UpsertFile
<1> SUFFICES ASSUME job = "sync", owed = "nothing" PROVE SyncInv'
    BY DEF SyncInv, diskVars
<1>1. /\ UNCHANGED <<disk, torn, todo, current>> /\ File' = File
      /\ phase \in HasRead /\ phase' \in Storing \cup {"picking"}
    BY DEF diskVars, HasRead, Storing, File
<1>2. /\ \A f \in Files : SyncOf(f)
      /\ current.content = disk[File].content
      /\ File \in Files /\ OnDisk(File)
    <2>1. current.content = disk[File].content /\ \A f \in Files : SyncOf(f)
        BY <1>1 DEF SyncInv
    <2>2. current.content \in Contents /\ File \in Files
        BY <1>1 DEF StoreInv, ReadsAreOrdered, TypeOK, File
    <2> QED
        BY <2>1, <2>2 DEF OnDisk
<1>3. \A f \in Files : f # File => record'[f] = record[f]
    BY DEF dbVars, StoreInv, TypeOK
<1>4. phase' = "picking" => RecordIsCurrent(File)'
    <2>1. CASE Replace
        BY <1>1, <1>2, <2>1 DEF dbVars, RecordIsCurrent
    <2>2. CASE UpsertFile
        <3>1. record'[File].content = current.content
            BY <1>2, <2>2 DEF StoreInv, TypeOK
        <3> QED
            BY <1>1, <1>2, <3>1 DEF RecordIsCurrent
    <2> QED
        BY <2>1, <2>2 DEF Storing
<1>5. \A f \in Files : SyncOf(f)'
    <2> SUFFICES ASSUME NEW f \in Files PROVE SyncOf(f)'
        OBVIOUS
    <2>1. OnDisk(f)' = OnDisk(f)
        BY <1>1 DEF OnDisk
    <2>2. CASE f = File
        BY <1>1, <1>2, <1>4, <2>1, <2>2 DEF SyncOf, InHand, HasRead, Storing
    <2>3. CASE f # File
        <3>1. Tracked(f)' = Tracked(f) /\ RecordIsCurrent(f)' = RecordIsCurrent(f)
            BY <1>1, <1>3, <2>3 DEF Tracked, RecordIsCurrent
        <3> QED
            BY <1>1, <1>2, <2>1, <2>3, <3>1 DEF SyncOf, InHand, HasRead, Storing
    <2> QED
        BY <2>2, <2>3
<1> QED
    BY <1>1, <1>2, <1>5 DEF SyncInv

LEMMA SyncInductive == StoreInv /\ SyncInv /\ [Next]_vars => SyncInv'
<1> SUFFICES ASSUME StoreInv, SyncInv, [Next]_vars PROVE SyncInv'
    OBVIOUS
<1>1. CASE \/ \E f \in Files : Edit(f)
           \/ BeginIndexAll \/ BeginIndexFiles \/ StartIsRefused \/ End \/ Crash
    BY <1>1, OutsideKeeps
<1>2. CASE BeginSync
    BY <1>2, SyncBegins
<1>3. CASE (\E f \in Files : Remove(f) \/ Check(f) \/ Pick(f)) \/ RemovalsDone \/ ChecksDone
              \/ ReadFirst \/ ReadSecond
    BY <1>3, SyncRemoves, SyncChecks, SyncReads
<1>4. CASE Store
    BY <1>4, SyncStores
<1>5. CASE UNCHANGED vars
    BY <1>5 DEF vars, SyncInv, SyncOf, InHand, OnDisk, Tracked, RecordIsCurrent, File
<1> QED
    BY <1>1, <1>2, <1>3, <1>4, <1>5 DEF Next, Step

LEMMA SyncEnds ==
    ASSUME StoreInv, SyncInv, [Next]_vars,
           job = "sync", job' = "none", crashes' = crashes, owed = "nothing",
           NEW f \in Files
    PROVE  UpToDate(f)
<1>1. crashes \in Nat
    BY DEF StoreInv, TypeOK
<1>2. End
    <2>1. ~Crash /\ ~UNCHANGED vars
        BY <1>1 DEF Crash, vars
    <2>2. ~\E x \in Files : Edit(x) \/ Remove(x) \/ Check(x) \/ Pick(x)
        BY DEF Edit, Remove, Check, Pick, jobVars
    <2>3. ~(BeginIndexAll \/ BeginIndexFiles \/ BeginSync \/ StartIsRefused)
        BY DEF BeginIndexAll, BeginIndexFiles, BeginSync, Begin, StartIsRefused, jobVars
    <2>4. ~(RemovalsDone \/ ChecksDone \/ ReadFirst \/ ReadSecond \/ Store)
        BY DEF RemovalsDone, ChecksDone, ReadFirst, ReadSecond, Store, Replace, InsertNodes,
            InsertEdges, InsertRefs, InsertLinks, UpsertFile
    <2> QED
        BY <2>1, <2>2, <2>3, <2>4 DEF Next, Step
<1>3. phase = "picking" /\ todo = {} /\ SyncOf(f)
    BY <1>2 DEF End, SyncInv
<1>4. RecordIsCurrent(f)
    <2>1. CASE OnDisk(f)
        BY <1>3, <2>1 DEF SyncOf, InHand, HasRead, Storing
    <2>2. CASE ~OnDisk(f)
        BY <1>3, <2>2 DEF SyncOf, OnDisk, Tracked, RecordIsCurrent
    <2> QED
        BY <2>1, <2>2
<1>5. RowsMatchRecord(f)
    BY <1>3, RowsMatch DEF Half, Storing
<1> QED
    BY <1>4, <1>5 DEF UpToDate

(* A sync that ends, and during which nobody changed a file, leaves every  *)
(* record as its file is on disk and every row as the record says,         *)
(* whatever jobs, deaths and edits came before: ExtractionOrchestrator.    *)
(* sync, but for what UpToDate names: rows of stores that were cut short,  *)
(* contents nothing is stored for, and torn reads of indexAll.             *)
THEOREM QuietSyncIsComplete == Spec => SyncIsComplete
<1>1. Init => SyncInv
    BY DEF Init, SyncInv
<1>2. StoreInv /\ SyncInv /\ [Next]_vars =>
          [job = "sync" /\ job' = "none" /\ crashes' = crashes /\ owed = "nothing"
             => \A f \in Files : UpToDate(f)]_vars
    BY SyncEnds
<1> QED
    BY <1>1, <1>2, StoreInit, StoreInductive, SyncInductive, PTL DEF Spec, SyncIsComplete
=============================================================================
