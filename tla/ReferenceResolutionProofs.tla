---------------------- MODULE ReferenceResolutionProofs ----------------------
(***************************************************************************)
(* Proofs about ReferenceResolution, for any number of files, names and    *)
(* contents, any batch size, and any number of edits and crashes.          *)
(***************************************************************************)
EXTENDS ReferenceResolution, FiniteSetTheorems, TLAPS

USE ReferenceResolutionAssumption DEF ReferenceResolutionAssumption, Node, Row, Edge

(* What a content brings into the tables of its file. *)
LEMMA ContentTypes ==
    ASSUME NEW x \in Files, NEW c \in Contents \cup {NoContent}
    PROVE  /\ NodesOf(x, c) \subseteq Node
           /\ \A n \in NodesOf(x, c) : n.file = x
           /\ RowsOf(x, c) \subseteq Row
           /\ \A r \in RowsOf(x, c) : r.source.file = x
<1>1. CASE c = NoContent
    BY <1>1 DEF NodesOf, RowsOf
<1>2. CASE c # NoContent
    <2>1. c \in Contents /\ Defines[c] \subseteq Names
        BY <1>2
    <2>2. Refers[c] \subseteq [from : Names, name : Names, site : Sites]
        BY <2>1
    <2> QED
        BY <1>2, <2>1, <2>2 DEF NodesOf, RowsOf
<1> QED
    BY <1>1, <1>2

(* The source of a reference is a node of the same content. *)
LEMMA SourcesAreNodes ==
    ASSUME NEW x \in Files, NEW c \in Contents \cup {NoContent}, NEW r \in RowsOf(x, c)
    PROVE  r.source \in NodesOf(x, c)
<1>1. c \in Contents
    BY DEF RowsOf
<1>2. PICK q \in Refers[c] :
          r = [source |-> [file |-> x, name |-> q.from], name |-> q.name, site |-> q.site]
    BY <1>1 DEF RowsOf
<1>3. q.from \in Defines[c]
    BY <1>1, <1>2
<1> QED
    BY <1>1, <1>2, <1>3 DEF NodesOf

(* A node or a row belongs to a content that its own file may have rows of. *)
LEMMA TablesByFile ==
    ASSUME TypeOK
    PROVE  /\ \A x \in Files : Traces(x) \subseteq Contents \cup {NoContent}
           /\ AllNodes \subseteq Node /\ AllRows \subseteq Row
           /\ \A n : n \in AllNodes <=>
                 n \in Node /\ \E c \in Traces(n.file) : n \in NodesOf(n.file, c)
           /\ \A r : r \in AllRows <=>
                 r \in Row /\ \E c \in Traces(r.source.file) : r \in RowsOf(r.source.file, c)
<1>1. \A x \in Files : Traces(x) \subseteq Contents \cup {NoContent}
    BY DEF TypeOK, Traces, HalfStored, Storing
<1>2. /\ \A n : n \in AllNodes <=> \E x \in Files : \E c \in Traces(x) : n \in NodesOf(x, c)
      /\ \A r : r \in AllRows <=> \E x \in Files : \E c \in Traces(x) : r \in RowsOf(x, c)
    BY DEF AllNodes, AllRows
<1>3. \A x \in Files : \A c \in Traces(x) :
         /\ NodesOf(x, c) \subseteq Node /\ \A n \in NodesOf(x, c) : n.file = x
         /\ RowsOf(x, c) \subseteq Row /\ \A r \in RowsOf(x, c) : r.source.file = x
    BY <1>1, ContentTypes
<1> QED
    BY <1>1, <1>2, <1>3

-----------------------------------------------------------------------------
(* Nodes that go take rows and edges along, and bring none. *)
LEMMA DropTypes ==
    ASSUME TypeOK, NEW gone, Drop(gone)
    PROVE  /\ refs' \subseteq refs /\ edges' \subseteq edges /\ doubled' \subseteq edges'
           /\ doubled' \subseteq doubled
    BY DEF Drop, Cascade, TypeOK

LEMMA DeleteTypes ==
    ASSUME TypeOK, NEW S \in SUBSET Files, DeleteFiles(S)
    PROVE  /\ record' \in [Files -> Contents \cup {NoContent}]
           /\ cut' \in [Files -> SUBSET Contents]
           /\ nodes' \subseteq nodes /\ refs' \subseteq refs
           /\ edges' \subseteq edges /\ doubled' \subseteq edges' /\ doubled' \subseteq doubled
           /\ \A x \in Files : /\ record'[x] = IF x \in S THEN NoContent ELSE record[x]
                              /\ cut'[x] = IF x \in S THEN {} ELSE cut[x]
           /\ nodes' = {n \in nodes : n.file \notin S}
           /\ refs' = {r \in refs : r.source \notin {n \in nodes : n.file \in S}}
           /\ edges' = {e \in edges : e.source \notin {n \in nodes : n.file \in S}
                                      /\ e.target \notin {n \in nodes : n.file \in S}}
<1>1. Drop({n \in nodes : n.file \in S})
    BY DEF DeleteFiles
<1>2. /\ refs' \subseteq refs /\ edges' \subseteq edges /\ doubled' \subseteq edges'
      /\ doubled' \subseteq doubled
    BY <1>1, DropTypes
<1>3. /\ record' \in [Files -> Contents \cup {NoContent}]
      /\ cut' \in [Files -> SUBSET Contents]
    BY DEF DeleteFiles, TypeOK
<1> QED
    BY <1>1, <1>2, <1>3 DEF DeleteFiles, Drop, Cascade

LEMMA TypeIsKept == TypeOK /\ [Next]_vars => TypeOK'
<1> SUFFICES ASSUME TypeOK, [Next]_vars PROVE TypeOK'
    OBVIOUS
<1>1. ASSUME NEW x \in Files, Edit(x) PROVE TypeOK'
    BY <1>1 DEF TypeOK, Edit, graph, result
<1>2. CASE BeginIndexAll
    BY <1>2 DEF TypeOK, BeginIndexAll, Begin, graph, result, counts, AllJobs, Phases, Storing
<1>3. CASE BeginIndexFiles
    BY <1>3 DEF TypeOK, BeginIndexFiles, Begin, graph, result, counts, AllJobs, Phases, Storing
<1>4. CASE BeginSync
    <2>1. PICK S \in SUBSET Files : DeleteFiles(S)
        BY <1>4 DEF BeginSync
    <2>2. /\ record' \in [Files -> Contents \cup {NoContent}]
          /\ cut' \in [Files -> SUBSET Contents]
          /\ nodes' \subseteq Node /\ refs' \subseteq Row
          /\ edges' \subseteq Edge /\ doubled' \subseteq edges'
        BY <2>1, DeleteTypes DEF TypeOK
    <2>3. PICK files \in SUBSET Files : Begin("sync", files, files)
        BY <1>4 DEF BeginSync
    <2> QED
        BY <2>2, <2>3 DEF TypeOK, Begin, result, counts, AllJobs, Phases, Storing
<1>5. ASSUME NEW x \in Files, IndexFile(x) PROVE TypeOK'
    <2>1. CASE UNCHANGED <<graph, phase, current>>
        BY <1>5, <2>1 DEF TypeOK, IndexFile, result, counts, graph
    <2>2. CASE /\ disk[x] \notin {NoContent, record[x]}
               /\ phase' = "nodes" /\ current' = [file |-> x, content |-> disk[x]]
               /\ DeleteFiles({x} \cap {y \in Files : record[y] # NoContent})
        <3>1. /\ record' \in [Files -> Contents \cup {NoContent}]
              /\ cut' \in [Files -> SUBSET Contents]
              /\ nodes' \subseteq Node /\ refs' \subseteq Row
              /\ edges' \subseteq Edge /\ doubled' \subseteq edges'
            BY <2>2, DeleteTypes DEF TypeOK
        <3>2. current' \in [file : Files, content : Contents] /\ current' # Nothing
            BY <2>2 DEF TypeOK, Nothing
        <3>3. job # "none" /\ job' = job
            BY <1>5 DEF IndexFile, TypeOK
        <3> QED
            BY <1>5, <2>2, <3>1, <3>2, <3>3 DEF TypeOK, IndexFile, result, counts, Phases, Storing
    <2> QED
        BY <1>5, <2>1, <2>2 DEF IndexFile
<1>6. CASE InsertNodes
    <2>1. /\ current.file \in Files /\ current.content \in Contents
        BY <1>6 DEF InsertNodes, TypeOK, Storing
    <2>2. nodes' \subseteq Node
        BY <1>6, <2>1, ContentTypes DEF InsertNodes, TypeOK
    <2>3. refs' \subseteq Row /\ edges' \subseteq Edge /\ doubled' \subseteq edges'
        BY <1>6, DropTypes DEF InsertNodes, TypeOK
    <2> QED
        BY <1>6, <2>2, <2>3 DEF InsertNodes, TypeOK, result, counts, Phases, Storing
<1>7. CASE InsertRefs
    <2>1. /\ current.file \in Files /\ current.content \in Contents
        BY <1>7 DEF InsertRefs, TypeOK, Storing
    <2>2. refs' \subseteq Row
        BY <1>7, <2>1, ContentTypes DEF InsertRefs, TypeOK
    <2> QED
        BY <1>7, <2>2 DEF InsertRefs, TypeOK, result, counts, Phases, Storing
<1>8. CASE UpsertFile
    <2>1. /\ current.file \in Files /\ current.content \in Contents
        BY <1>8 DEF UpsertFile, TypeOK, Storing
    <2> QED
        BY <1>8, <2>1 DEF UpsertFile, TypeOK, result, counts, Phases, Storing
<1>9. CASE StartResolving
    BY <1>9 DEF TypeOK, StartResolving, graph, result, counts, Phases, Storing
<1>10. CASE NothingToResolve
    BY <1>10 DEF TypeOK, NothingToResolve, graph, result, counts, Phases, Storing
<1>11. CASE ReadBatch
    <2>1. \A batch \in Batches : batch \subseteq refs
        BY DEF Batches, kSubset
    <2>2. unresolved' \subseteq Row /\ resolved' \subseteq Edge
        BY <1>11, <2>1 DEF TypeOK, ReadBatch
    <2> QED
        BY <1>11, <2>2 DEF TypeOK, ReadBatch, graph, counts, Phases, Storing
<1>12. CASE TableIsEmpty
    BY <1>12 DEF TypeOK, TableIsEmpty, graph, result, counts, Phases, Storing
<1>13. CASE InsertEdges
    BY <1>13 DEF TypeOK, InsertEdges, Insert, result, counts, Phases, Storing
<1>14. CASE DeleteResolved
    BY <1>14 DEF TypeOK, DeleteResolved, Deleted, result, counts, Phases, Storing
<1>15. CASE DiscardUnresolved
    BY <1>15 DEF TypeOK, DiscardUnresolved, Deleted, result, counts, Phases, Storing
<1>16. CASE Synthesize
    BY <1>16 DEF TypeOK, Synthesize, Insert, graph, result, counts, Phases, Storing
<1>17. CASE End
    BY <1>17 DEF TypeOK, End, Forget, graph, counts, Phases, Storing
<1>18. CASE Crash
    <2>1. cut' \in [Files -> SUBSET Contents]
        BY <1>18 DEF Crash, TypeOK, Storing, HalfStored
    <2> QED
        BY <1>18, <2>1 DEF TypeOK, Crash, Forget, Phases, Storing
<1>19. CASE UNCHANGED vars
    BY <1>19 DEF TypeOK, vars
<1> QED
    BY <1>1, <1>2, <1>3, <1>4, <1>5, <1>6, <1>7, <1>8, <1>9, <1>10, <1>11, <1>12,
       <1>13, <1>14, <1>15, <1>16, <1>17, <1>18, <1>19 DEF Next, Step

(* The tables and the state of a job keep their shape (TypeOK). *)
THEOREM ResolutionTypeOK == Spec => []TypeOK
<1>1. Init => TypeOK
    BY DEF Init, TypeOK, Phases, Storing
<1>2. TypeOK /\ [Next]_vars => TypeOK'
    BY TypeIsKept
<1> QED
    BY <1>1, <1>2, PTL DEF Spec
-----------------------------------------------------------------------------
(* While a batch waits for its edges, its references are in the table. *)
BatchWaits ==
    phase = "inserting" =>
        \A e \in resolved : e.site # Heuristic /\ Origin(e) \in refs

(* A file that is being stored has no record; what insertNodes has put in  *)
(* has no edges yet, and what insertUnresolvedRefsBatch has put in waits.  *)
StoreGoesOn ==
    /\ phase \in Storing => record[current.file] = NoContent
    /\ phase \in {"refs", "upsert"} =>
          /\ NodesOf(current.file, current.content) \subseteq nodes
          /\ \A e \in edges : e.source \notin NodesOf(current.file, current.content)
    /\ phase = "upsert" => RowsOf(current.file, current.content) \subseteq refs

GraphInv == TypeOK /\ GraphReflectsText /\ BatchWaits /\ StoreGoesOn

(* Rows stay accounted for when only the files of S lose a content that    *)
(* they may come from, and no row of theirs stays.                         *)
LEMMA ReflectsStill ==
    ASSUME TypeOK, TypeOK', GraphReflectsText, NEW S \in SUBSET Files,
           \A x \in Files \ S : Traces(x) \subseteq Traces(x)' \cup {NoContent},
           \A x \in Files : NodesOf(x, record'[x]) \subseteq nodes',
           \A n \in nodes' : (n \in nodes /\ n.file \notin S) \/ n \in AllNodes',
           \A r \in refs' : /\ r.source \in nodes'
                            /\ (r \in refs /\ r.source.file \notin S) \/ r \in AllRows',
           \A e \in edges' :
              /\ e.source \in nodes' /\ e.target \in nodes'
              /\ \/ e.site = Heuristic
                 \/ e.source.file \notin S /\ (e \in edges \/ Origin(e) \in refs)
    PROVE  GraphReflectsText'
<1> USE TablesByFile
<1>0. \A e \in Edge : Origin(e).source = e.source
    BY DEF Origin
<1>1. \A n \in AllNodes : n.file \notin S => n \in AllNodes'
    <2> SUFFICES ASSUME NEW n \in AllNodes, n.file \notin S PROVE n \in AllNodes'
        OBVIOUS
    <2>1. n \in Node /\ \E c \in Traces(n.file) : n \in NodesOf(n.file, c)
        OBVIOUS
    <2>2. PICK c \in Traces(n.file) : n \in NodesOf(n.file, c)
        BY <2>1
    <2>3. c \in Traces(n.file)'
        <3>1. n.file \in Files \ S /\ c # NoContent
            BY <2>1, <2>2 DEF NodesOf
        <3>2. Traces(n.file) \subseteq Traces(n.file)' \cup {NoContent}
            BY <3>1
        <3> QED
            BY <2>2, <3>1, <3>2
    <2> QED
        BY <2>1, <2>2, <2>3 DEF AllNodes, NodesOf
<1>2. \A r \in AllRows : r.source.file \notin S => r \in AllRows'
    <2> SUFFICES ASSUME NEW r \in AllRows, r.source.file \notin S PROVE r \in AllRows'
        OBVIOUS
    <2>1. r \in Row /\ \E c \in Traces(r.source.file) : r \in RowsOf(r.source.file, c)
        OBVIOUS
    <2>2. PICK c \in Traces(r.source.file) : r \in RowsOf(r.source.file, c)
        BY <2>1
    <2>3. c \in Traces(r.source.file)'
        <3>1. r.source.file \in Files \ S /\ c # NoContent
            BY <2>1, <2>2 DEF RowsOf
        <3>2. Traces(r.source.file) \subseteq Traces(r.source.file)' \cup {NoContent}
            BY <3>1
        <3> QED
            BY <2>2, <3>1, <3>2
    <2> QED
        BY <2>1, <2>2, <2>3 DEF AllRows, RowsOf
<1>3. nodes' \subseteq AllNodes'
    BY <1>1 DEF GraphReflectsText
<1>4. refs' \subseteq AllRows'
    BY <1>2 DEF GraphReflectsText
<1>5. \A e \in edges' : e.site # Heuristic => Origin(e) \in AllRows'
    <2> SUFFICES ASSUME NEW e \in edges', e.site # Heuristic PROVE Origin(e) \in AllRows'
        OBVIOUS
    <2>1. e \in Edge /\ e.source.file \notin S /\ (e \in edges \/ Origin(e) \in refs)
        BY DEF TypeOK
    <2>2. Origin(e) \in AllRows
        BY <2>1 DEF GraphReflectsText
    <2> QED
        BY <1>0, <1>2, <2>1, <2>2
<1> QED
    BY <1>3, <1>4, <1>5 DEF GraphReflectsText, Origin

(* Nothing is wrong that was right before, as long as nodes and their      *)
(* contents stay and only edges of waiting references or of the            *)
(* synthesizers come.                                                      *)
LEMMA SameNodesReflect ==
    ASSUME TypeOK, TypeOK', GraphReflectsText, UNCHANGED <<record, cut, nodes>>,
           phase \notin {"refs", "upsert"} \/ UNCHANGED <<phase, current>>,
           refs' \subseteq refs,
           \A e \in edges' \ edges :
              /\ e.source \in nodes /\ e.target \in nodes
              /\ e.site = Heuristic \/ Origin(e) \in refs
    PROVE  GraphReflectsText'
<1>1. \A x \in Files : Traces(x) \subseteq Traces(x)'
    BY DEF Traces, HalfStored
<1>2. \A x \in Files : NodesOf(x, record'[x]) \subseteq nodes'
    BY DEF GraphReflectsText, NodesOf
<1>3. \A r \in refs' : r \in refs /\ r.source \in nodes'
    BY DEF GraphReflectsText
<1>4. \A e \in edges' :
         /\ e.source \in nodes' /\ e.target \in nodes'
         /\ e.site = Heuristic \/ e \in edges \/ Origin(e) \in refs
    BY DEF GraphReflectsText
<1>5. {} \in SUBSET Files /\ \A y : y \notin {}
    OBVIOUS
<1> DEFINE none == {}
<1>6. /\ none \in SUBSET Files
      /\ \A x \in Files \ none : Traces(x) \subseteq Traces(x)' \cup {NoContent}
      /\ \A n \in nodes' : n \in nodes /\ n.file \notin none
      /\ \A r \in refs' : r \in refs /\ r.source.file \notin none
      /\ \A e \in edges' : e.source.file \notin none
    BY <1>1, <1>3, <1>5
<1> HIDE DEF none
<1> QED
    BY <1>2, <1>3, <1>4, <1>6, ReflectsStill

(* deleteFile takes all that hangs on the nodes of its files. *)
LEMMA DeleteReflects ==
    ASSUME TypeOK, TypeOK', GraphReflectsText, NEW S \in SUBSET Files, DeleteFiles(S),
           phase \notin {"refs", "upsert"}
    PROVE  GraphReflectsText'
<1>1. /\ \A x \in Files : /\ record'[x] = IF x \in S THEN NoContent ELSE record[x]
                          /\ cut'[x] = IF x \in S THEN {} ELSE cut[x]
      /\ nodes' = {n \in nodes : n.file \notin S}
      /\ refs' = {r \in refs : r.source \notin {n \in nodes : n.file \in S}}
      /\ edges' = {e \in edges : e.source \notin {n \in nodes : n.file \in S}
                                 /\ e.target \notin {n \in nodes : n.file \in S}}
    BY DeleteTypes
<1>2. \A x \in Files \ S : Traces(x) \subseteq Traces(x)' \cup {NoContent}
    BY <1>1 DEF Traces, HalfStored
<1>3. \A x \in Files : NodesOf(x, record'[x]) \subseteq nodes'
    <2> SUFFICES ASSUME NEW x \in Files PROVE NodesOf(x, record'[x]) \subseteq nodes'
        OBVIOUS
    <2>1. CASE x \in S
        BY <1>1, <2>1 DEF NodesOf
    <2>2. CASE x \notin S
        <3>1. NodesOf(x, record[x]) \subseteq nodes /\ record'[x] = record[x]
            BY <1>1, <2>2 DEF GraphReflectsText
        <3>2. \A n \in NodesOf(x, record[x]) : n.file = x
            BY DEF NodesOf
        <3> QED
            BY <1>1, <2>2, <3>1, <3>2
    <2> QED
        BY <2>1, <2>2
<1>4. \A r \in refs' : r.source \in nodes' /\ r \in refs /\ r.source.file \notin S
    BY <1>1 DEF GraphReflectsText
<1>5. \A e \in edges' : /\ e.source \in nodes' /\ e.target \in nodes'
                        /\ e \in edges /\ e.source.file \notin S
    BY <1>1 DEF GraphReflectsText
<1>6. \A n \in nodes' : n \in nodes /\ n.file \notin S
    BY <1>1
<1> QED
    BY <1>2, <1>3, <1>4, <1>5, <1>6, ReflectsStill

(* The steps of storeExtractionResult after deleteFile. *)
LEMMA StoringReflects ==
    ASSUME GraphInv, TypeOK', InsertNodes \/ InsertRefs \/ UpsertFile
    PROVE  GraphReflectsText' /\ StoreGoesOn'
<1>0. /\ TypeOK /\ GraphReflectsText /\ StoreGoesOn
      /\ phase \in Storing /\ current \in [file : Files, content : Contents]
    BY DEF GraphInv, TypeOK, InsertNodes, InsertRefs, UpsertFile, Storing
<1> PICK x \in Files, c \in Contents : x = current.file /\ c = current.content
    BY <1>0
<1> DEFINE new == NodesOf(x, c)
           none == {}
<1>1. TypeOK /\ GraphReflectsText /\ StoreGoesOn /\ phase \in Storing /\ record[x] = NoContent
    BY <1>0 DEF StoreGoesOn
<1>2. /\ new \subseteq Node /\ \A n \in new : n.file = x
      /\ RowsOf(x, c) \subseteq Row /\ \A r \in RowsOf(x, c) : r.source.file = x /\ r.source \in new
    BY <1>1, ContentTypes, SourcesAreNodes
<1>3. none \in SUBSET Files /\ \A y : y \notin none
    OBVIOUS
<1>4. CASE InsertNodes
    <2>1. /\ phase = "nodes" /\ phase' = "refs" /\ nodes' = nodes \cup new
          /\ UNCHANGED <<record, cut, current>>
          /\ refs' = {r \in refs : r.source \notin new}
          /\ edges' = {e \in edges : e.source \notin new /\ e.target \notin new}
        BY <1>4 DEF InsertNodes, Drop, Cascade
    <2>2. \A y \in Files \ none : Traces(y) \subseteq Traces(y)' \cup {NoContent}
        BY <2>1 DEF Traces, HalfStored
    <2>3. \A y \in Files : NodesOf(y, record'[y]) \subseteq nodes'
        BY <1>1, <2>1 DEF GraphReflectsText, NodesOf
    <2>4. c \in Traces(x)'
        BY <2>1 DEF Traces, HalfStored
    <2>5. new \subseteq AllNodes'
        BY <1>1, <2>4 DEF AllNodes, NodesOf
    <2>6. \A n \in nodes' : (n \in nodes /\ n.file \notin none) \/ n \in AllNodes'
        BY <1>3, <2>1, <2>5
    <2>7. \A r \in refs' : r.source \in nodes' /\ r \in refs /\ r.source.file \notin none
        BY <1>1, <1>3, <2>1 DEF GraphReflectsText
    <2>8. \A e \in edges' : /\ e.source \in nodes' /\ e.target \in nodes'
                            /\ e \in edges /\ e.source.file \notin none
        BY <1>1, <1>3, <2>1 DEF GraphReflectsText
    <2>9. GraphReflectsText'
        <3> HIDE DEF none
        <3> QED
            BY <1>1, <1>3, <2>2, <2>3, <2>6, <2>7, <2>8, ReflectsStill
    <2>10. StoreGoesOn'
        BY <1>1, <2>1 DEF StoreGoesOn, NodesOf
    <2> QED
        BY <2>9, <2>10
<1>5. CASE InsertRefs
    <2>1. /\ phase = "refs" /\ phase' = "upsert" /\ refs' = refs \cup RowsOf(x, c)
          /\ UNCHANGED <<record, nodes, edges, cut, current>>
        BY <1>5 DEF InsertRefs
    <2>2. \A y \in Files : Traces(y) = Traces(y)'
        BY <2>1 DEF Traces, HalfStored
    <2>3. c \in Traces(x)'
        BY <2>1 DEF Traces, HalfStored
    <2>4. RowsOf(x, c) \subseteq AllRows'
        BY <1>1, <2>3 DEF AllRows, RowsOf
    <2>5. \A y \in Files : NodesOf(y, record'[y]) \subseteq nodes'
        BY <1>1, <2>1 DEF GraphReflectsText, NodesOf
    <2>6. new \subseteq nodes
        BY <1>1, <2>1 DEF StoreGoesOn
    <2>7. \A r \in refs' : /\ r.source \in nodes'
                           /\ (r \in refs /\ r.source.file \notin none) \/ r \in AllRows'
        BY <1>1, <1>2, <1>3, <2>1, <2>4, <2>6 DEF GraphReflectsText
    <2>8. \A e \in edges' : /\ e.source \in nodes' /\ e.target \in nodes'
                            /\ e \in edges /\ e.source.file \notin none
        BY <1>1, <1>3, <2>1 DEF GraphReflectsText
    <2>9. \A n \in nodes' : n \in nodes /\ n.file \notin none
        BY <1>3, <2>1
    <2>10. GraphReflectsText'
        <3>1. \A y \in Files \ none : Traces(y) \subseteq Traces(y)' \cup {NoContent}
            BY <2>2
        <3> HIDE DEF none
        <3> QED
            BY <1>1, <1>3, <2>5, <2>7, <2>8, <2>9, <3>1, ReflectsStill
    <2>11. StoreGoesOn'
        <3>1. NodesOf(current'.file, current'.content) = new
                 /\ RowsOf(current'.file, current'.content) = RowsOf(x, c)
            BY <2>1
        <3> QED
            BY <1>1, <2>1, <2>6, <3>1 DEF StoreGoesOn, Storing
    <2> QED
        BY <2>10, <2>11
<1>6. CASE UpsertFile
    <2>1. /\ phase = "upsert" /\ phase' = "indexing" /\ record' = [record EXCEPT ![x] = c]
          /\ UNCHANGED <<nodes, refs, edges, cut>>
        BY <1>6 DEF UpsertFile
    <2>2. record'[x] = c /\ \A y \in Files : y # x => record'[y] = record[y]
        BY <1>1, <2>1 DEF TypeOK
    <2>3. \A y \in Files \ none : Traces(y) \subseteq Traces(y)' \cup {NoContent}
        BY <1>1, <2>1, <2>2 DEF Traces, HalfStored
    <2>4. \A y \in Files : NodesOf(y, record'[y]) \subseteq nodes'
        <3>1. new \subseteq nodes
            BY <1>1, <2>1 DEF StoreGoesOn
        <3>2. \A y \in Files : NodesOf(y, record[y]) \subseteq nodes
            BY <1>1 DEF GraphReflectsText
        <3> QED
            BY <2>1, <2>2, <3>1, <3>2
    <2>5. \A n \in nodes' : n \in nodes /\ n.file \notin none
        BY <1>3, <2>1
    <2>6. \A r \in refs' : r.source \in nodes' /\ r \in refs /\ r.source.file \notin none
        BY <1>1, <1>3, <2>1 DEF GraphReflectsText
    <2>7. \A e \in edges' : /\ e.source \in nodes' /\ e.target \in nodes'
                            /\ e \in edges /\ e.source.file \notin none
        BY <1>1, <1>3, <2>1 DEF GraphReflectsText
    <2>8. GraphReflectsText'
        <3> HIDE DEF none
        <3> QED
            BY <1>1, <1>3, <2>3, <2>4, <2>5, <2>6, <2>7, ReflectsStill
    <2> QED
        BY <2>1, <2>8 DEF StoreGoesOn, Storing
<1> QED
    BY <1>4, <1>5, <1>6

LEMMA GraphInvIsKept == GraphInv /\ [Next]_vars => GraphInv'
<1> SUFFICES ASSUME GraphInv, [Next]_vars PROVE GraphInv'
    OBVIOUS
<1>0. TypeOK /\ TypeOK' /\ GraphReflectsText /\ BatchWaits /\ StoreGoesOn
    BY TypeIsKept DEF GraphInv
<1>1. CASE (\E x \in Files : Edit(x)) \/ UNCHANGED vars
    <2>1. UNCHANGED <<record, nodes, refs, edges, cut, phase, current, resolved>>
        BY <1>1 DEF Edit, graph, result, vars
    <2>2. GraphReflectsText'
        BY <1>0, <2>1, SameNodesReflect
    <2>3. StoreGoesOn'
        BY <1>0, <2>1 DEF StoreGoesOn, NodesOf, RowsOf
    <2> QED
        BY <1>0, <2>1, <2>2, <2>3 DEF GraphInv, BatchWaits, Origin
<1>2. CASE BeginIndexAll \/ BeginIndexFiles
    <2>1. /\ UNCHANGED <<record, nodes, refs, edges, cut>>
          /\ phase = "idle" /\ phase' = "indexing"
        BY <1>0, <1>2 DEF BeginIndexAll, BeginIndexFiles, Begin, graph, TypeOK
    <2>2. GraphReflectsText'
        BY <1>0, <2>1, SameNodesReflect
    <2> QED
        BY <1>0, <2>1, <2>2 DEF GraphInv, BatchWaits, StoreGoesOn, Storing
<1>3. CASE BeginSync
    <2>1. PICK S \in SUBSET Files : DeleteFiles(S)
        BY <1>3 DEF BeginSync
    <2>2. phase = "idle" /\ phase' = "indexing"
        BY <1>0, <1>3 DEF BeginSync, Begin, TypeOK
    <2>3. GraphReflectsText'
        BY <1>0, <2>1, <2>2, DeleteReflects
    <2> QED
        BY <1>0, <2>2, <2>3 DEF GraphInv, BatchWaits, StoreGoesOn, Storing
<1>4. ASSUME NEW x \in Files, IndexFile(x) PROVE GraphInv'
    <2>1. phase = "indexing"
        BY <1>4 DEF IndexFile
    <2>2. CASE UNCHANGED <<graph, phase, current>>
        <3>1. GraphReflectsText'
            BY <1>0, <2>2, SameNodesReflect DEF graph
        <3> QED
            BY <1>0, <2>1, <2>2, <3>1 DEF GraphInv, BatchWaits, StoreGoesOn, Storing
    <2>3. CASE /\ phase' = "nodes" /\ current' = [file |-> x, content |-> disk[x]]
               /\ DeleteFiles({x} \cap {y \in Files : record[y] # NoContent})
        <3> DEFINE S == {x} \cap {y \in Files : record[y] # NoContent}
        <3>1. S \in SUBSET Files
            OBVIOUS
        <3>2. GraphReflectsText'
            <4> HIDE DEF S
            <4>1. DeleteFiles(S)
                BY <2>3 DEF S
            <4> QED
                BY <1>0, <2>1, <3>1, <4>1, DeleteReflects
        <3>3. record'[x] = NoContent
            BY <1>0, <2>3, DeleteTypes
        <3> QED
            BY <1>0, <2>3, <3>2, <3>3 DEF GraphInv, BatchWaits, StoreGoesOn
    <2> QED
        BY <1>4, <2>2, <2>3 DEF IndexFile
<1>5. CASE InsertNodes \/ InsertRefs \/ UpsertFile
    <2>1. phase' # "inserting"
        BY <1>5 DEF InsertNodes, InsertRefs, UpsertFile
    <2> QED
        BY <1>0, <1>5, <2>1, StoringReflects DEF GraphInv, BatchWaits
<1>6. CASE StartResolving \/ NothingToResolve \/ TableIsEmpty
    <2>1. /\ UNCHANGED graph /\ phase \notin Storing
          /\ phase' \notin Storing /\ phase' # "inserting"
        BY <1>6 DEF StartResolving, NothingToResolve, TableIsEmpty, Storing
    <2>2. GraphReflectsText'
        BY <1>0, <2>1, SameNodesReflect DEF graph, Storing
    <2> QED
        BY <1>0, <2>1, <2>2 DEF GraphInv, BatchWaits, StoreGoesOn, Storing
<1>7. CASE ReadBatch
    <2>1. UNCHANGED graph /\ phase = "reading" /\ phase' = "inserting"
        BY <1>7 DEF ReadBatch
    <2>2. GraphReflectsText'
        BY <1>0, <2>1, SameNodesReflect DEF graph
    <2>3. PICK batch \in Batches :
             LET hits == {r \in batch : Candidates(r) # {}}
             IN  \E choice \in [hits -> known] :
                    /\ \A r \in hits : choice[r] \in Candidates(r)
                    /\ resolved' = {[source |-> r.source, target |-> choice[r], site |-> r.site] :
                                       r \in hits}
        BY <1>7 DEF ReadBatch
    <2>4. batch \subseteq refs
        BY DEF Batches, kSubset
    <2>5. ASSUME NEW e \in resolved' PROVE e.site # Heuristic /\ Origin(e) \in refs
        <3> DEFINE hits == {r \in batch : Candidates(r) # {}}
        <3>0. PICK choice \in [hits -> known] :
                 /\ \A r \in hits : choice[r] \in Candidates(r)
                 /\ resolved' = {[source |-> r.source, target |-> choice[r], site |-> r.site] :
                                    r \in hits}
            BY <2>3
        <3>1. PICK r \in hits :
                 /\ choice[r] \in Candidates(r)
                 /\ e = [source |-> r.source, target |-> choice[r], site |-> r.site]
            BY <3>0, <2>5
        <3>2. r \in refs /\ r \in Row /\ choice[r].name = r.name
            BY <1>0, <2>4, <3>1 DEF TypeOK, Candidates
        <3>3. Origin(e) = r
            BY <3>1, <3>2 DEF Origin
        <3> QED
            BY <3>1, <3>2, <3>3
    <2> QED
        BY <1>0, <2>1, <2>2, <2>5 DEF GraphInv, BatchWaits, graph, Origin, StoreGoesOn, Storing
<1>8. CASE InsertEdges
    <2>1. /\ phase = "inserting" /\ phase' = "deleting"
          /\ UNCHANGED <<record, nodes, refs, cut>>
          /\ \A e \in edges' \ edges :
                e \in resolved /\ e.source \in nodes /\ e.target \in nodes
        BY <1>8 DEF InsertEdges, Insert
    <2>2. \A e \in edges' \ edges : Origin(e) \in refs
        BY <1>0, <2>1 DEF BatchWaits
    <2>3. GraphReflectsText'
        BY <1>0, <2>1, <2>2, SameNodesReflect
    <2> QED
        BY <1>0, <2>1, <2>3 DEF GraphInv, BatchWaits, StoreGoesOn, Storing
<1>9. CASE DeleteResolved \/ DiscardUnresolved
    <2>1. /\ UNCHANGED <<record, nodes, edges, cut>> /\ refs' \subseteq refs
          /\ phase \notin Storing /\ phase' \notin Storing /\ phase' # "inserting"
        BY <1>9 DEF DeleteResolved, DiscardUnresolved, Deleted, Storing
    <2>2. GraphReflectsText'
        BY <1>0, <2>1, SameNodesReflect DEF Storing
    <2> QED
        BY <1>0, <2>1, <2>2 DEF GraphInv, BatchWaits, StoreGoesOn, Storing
<1>10. CASE Synthesize
    <2>1. /\ phase = "synthesizing" /\ phase' = "ending"
          /\ UNCHANGED <<record, nodes, refs, cut>>
          /\ \A e \in edges' \ edges :
                e.site = Heuristic /\ e.source \in nodes /\ e.target \in nodes
        BY <1>10 DEF Synthesize, Insert, graph
    <2>2. GraphReflectsText'
        BY <1>0, <2>1, SameNodesReflect
    <2> QED
        BY <1>0, <2>1, <2>2 DEF GraphInv, BatchWaits, StoreGoesOn, Storing
<1>11. CASE End
    <2>1. UNCHANGED graph /\ phase = "ending" /\ phase' = "idle"
        BY <1>11 DEF End, Forget
    <2>2. GraphReflectsText'
        BY <1>0, <2>1, SameNodesReflect DEF graph
    <2> QED
        BY <1>0, <2>1, <2>2 DEF GraphInv, BatchWaits, StoreGoesOn, Storing
<1>12. CASE Crash
    <2> DEFINE none == {}
    <2>1. /\ UNCHANGED <<record, nodes, refs, edges>> /\ phase' = "idle"
          /\ cut' = [x \in Files |->
                       IF HalfStored(x) THEN cut[x] \cup {current.content} ELSE cut[x]]
        BY <1>12 DEF Crash, Forget
    <2>2. none \in SUBSET Files /\ \A y : y \notin none
        OBVIOUS
    <2>3. \A x \in Files \ none : Traces(x) \subseteq Traces(x)' \cup {NoContent}
        BY <2>1 DEF Traces
    <2>4. /\ \A x \in Files : NodesOf(x, record'[x]) \subseteq nodes'
          /\ \A n \in nodes' : n \in nodes /\ n.file \notin none
          /\ \A r \in refs' : r.source \in nodes' /\ r \in refs /\ r.source.file \notin none
          /\ \A e \in edges' : /\ e.source \in nodes' /\ e.target \in nodes'
                               /\ e \in edges /\ e.source.file \notin none
        BY <1>0, <2>1, <2>2 DEF GraphReflectsText, NodesOf
    <2>5. GraphReflectsText'
        <3> HIDE DEF none
        <3> QED
            BY <1>0, <2>2, <2>3, <2>4, ReflectsStill
    <2> QED
        BY <1>0, <2>1, <2>5 DEF GraphInv, BatchWaits, StoreGoesOn, Storing
<1> QED
    BY <1>1, <1>2, <1>3, <1>4, <1>5, <1>6, <1>7, <1>8, <1>9, <1>10, <1>11, <1>12 DEF Next, Step

LEMMA InitIsSound == Init => GraphInv
<1> SUFFICES ASSUME Init PROVE GraphInv
    OBVIOUS
<1>1. TypeOK /\ phase = "idle"
    BY DEF Init, TypeOK, Phases, Storing
<1>2. GraphReflectsText
    BY DEF Init, GraphReflectsText, NodesOf, Origin
<1> QED
    BY <1>1, <1>2 DEF GraphInv, BatchWaits, StoreGoesOn, Storing

LEMMA GraphInvIsInvariant == Spec => []GraphInv
    BY InitIsSound, GraphInvIsKept, PTL DEF Spec

(* Whatever jobs run, end or die, a record has all nodes of its content,   *)
(* edges lead from and to nodes that are there, and a node, a waiting      *)
(* reference or an edge comes from the content of the record, from the one *)
(* being stored, or from one whose store a death cut short                 *)
(* (GraphReflectsText): the order of the transactions, the cascade and the *)
(* check in insertEdges see to it.                                         *)
THEOREM GraphReflectsIndexedText == Spec => []GraphReflectsText
<1>1. GraphInv => GraphReflectsText
    BY DEF GraphInv
<1> QED
    BY <1>1, GraphInvIsInvariant, PTL
-----------------------------------------------------------------------------
(* A reference that waits has no edge yet, unless its batch has just been  *)
(* inserted and is about to be deleted; and a batch has one edge for each  *)
(* of its references.                                                      *)
EachWaitsOrIsLinked ==
    crashes = 0 =>
        /\ \A e \in edges :
              e.site # Heuristic /\ Origin(e) \in refs
                 => phase = "deleting" /\ \E d \in resolved : Origin(d) = Origin(e)
        /\ phase = "inserting" =>
              \A d, e \in resolved : Origin(d) = Origin(e) => d = e

OnceInv == NoDoubledReference /\ EachWaitsOrIsLinked
-----------------------------------------------------------------------------
(* Where a job stands with the references of the files it has written:     *)
(* they wait, are in the batch, or have their edges.                       *)
CachesAreFresh ==
    phase \in {"reading", "inserting", "deleting", "discarding"} => known = nodes

Waiting == \A f \in written : RowsOf(f, record[f]) \subseteq refs

Chosen ==
    \A f \in written : \A r \in RowsOf(f, record[f]) :
        (\E n \in nodes : n.name = r.name) =>
            \E e \in resolved : Origin(e) = r /\ e.source \in nodes /\ e.target \in nodes

Linked == \A f \in written : Complete(f)

(* A file has lost few stores. *)
CutsAreFew == \A f \in Files : IsFiniteSet(cut[f])

(* An index from scratch whose references fit in one batch. *)
Fresh == (\A f \in Files \ written : record[f] = NoContent) /\ Cardinality(AllRows) <= BatchSize

Owed == job = "sync" \/ (job = "indexAll" /\ Fresh)

WorkInv ==
    /\ CachesAreFresh
    /\ CutsAreFew
    /\ written \subseteq scope
    /\ phase \in Storing => current.file \in scope
    /\ phase \in {"indexing"} \cup Storing => Waiting
    /\ Owed /\ phase = "reading" => Waiting \/ Linked
    /\ Owed /\ phase = "inserting" => Chosen \/ Linked
    /\ Owed /\ phase \in {"deleting", "discarding", "synthesizing", "ending"} => Linked
-----------------------------------------------------------------------------
(* Where edges only go and no reference comes back, nothing is doubled. *)
LEMMA FewerStayOnce ==
    ASSUME OnceInv, crashes' = crashes,
           edges' \subseteq edges, doubled' \subseteq doubled,
           phase # "deleting", phase' # "inserting",
           \A r \in refs' : r \in refs \/ \A e \in edges' : Origin(e) # r
    PROVE  OnceInv'
<1>1. NoDoubledReference'
    BY DEF OnceInv, NoDoubledReference, Origin
<1>2. EachWaitsOrIsLinked'
    BY DEF OnceInv, EachWaitsOrIsLinked, Origin
<1> QED
    BY <1>1, <1>2 DEF OnceInv

LEMMA OnceIsKept == GraphInv /\ OnceInv /\ [Next]_vars => OnceInv'
<1> SUFFICES ASSUME GraphInv, OnceInv, [Next]_vars PROVE OnceInv'
    OBVIOUS
<1>0. /\ TypeOK /\ GraphReflectsText /\ BatchWaits /\ StoreGoesOn
      /\ NoDoubledReference /\ EachWaitsOrIsLinked
    BY DEF GraphInv, OnceInv
<1>1. CASE (\E x \in Files : Edit(x)) \/ UNCHANGED vars
    <2>1. UNCHANGED <<refs, edges, doubled, phase, resolved, crashes>>
        BY <1>1 DEF Edit, graph, result, vars
    <2> QED
        BY <1>0, <2>1 DEF OnceInv, NoDoubledReference, EachWaitsOrIsLinked, Origin
<1>2. CASE BeginIndexAll \/ BeginIndexFiles \/ BeginSync
    <2>1. crashes' = crashes /\ phase = "idle" /\ phase' = "indexing"
        BY <1>0, <1>2 DEF BeginIndexAll, BeginIndexFiles, BeginSync, Begin, counts, TypeOK
    <2>2. edges' \subseteq edges /\ doubled' \subseteq doubled /\ refs' \subseteq refs
        <3>1. CASE UNCHANGED graph
            BY <3>1 DEF graph
        <3>2. ASSUME NEW S \in SUBSET Files, DeleteFiles(S)
              PROVE  edges' \subseteq edges /\ doubled' \subseteq doubled /\ refs' \subseteq refs
            BY <1>0, <3>2, DeleteTypes
        <3> QED
            BY <1>2, <3>1, <3>2 DEF BeginIndexAll, BeginIndexFiles, BeginSync
    <2> QED
        BY <2>1, <2>2, FewerStayOnce
<1>3. CASE \/ \E x \in Files : IndexFile(x)
           \/ InsertNodes \/ InsertRefs \/ UpsertFile
    <2>1. /\ crashes' = crashes /\ phase \in {"indexing"} \cup Storing
          /\ phase' # "inserting"
        BY <1>3 DEF IndexFile, InsertNodes, InsertRefs, UpsertFile, counts, Storing
    <2>2. ASSUME NEW x \in Files, IndexFile(x)
          PROVE  edges' \subseteq edges /\ doubled' \subseteq doubled /\ refs' \subseteq refs
        <3>1. UNCHANGED graph \/ DeleteFiles({x} \cap {y \in Files : record[y] # NoContent})
            BY <2>2 DEF IndexFile
        <3> QED
            BY <1>0, <3>1, DeleteTypes DEF graph
    <2>3. ASSUME InsertNodes
          PROVE  edges' \subseteq edges /\ doubled' \subseteq doubled /\ refs' \subseteq refs
        BY <1>0, <2>3, DropTypes DEF InsertNodes
    <2>4. ASSUME InsertRefs
          PROVE  /\ edges' = edges /\ doubled' = doubled
                 /\ \A r \in refs' : r \in refs \/ \A e \in edges : Origin(e) # r
        <3>1. /\ UNCHANGED <<edges, doubled>>
              /\ refs' = refs \cup RowsOf(current.file, current.content)
              /\ phase = "refs"
            BY <2>4 DEF InsertRefs
        <3>2. current.file \in Files /\ current.content \in Contents
            BY <1>0, <3>1 DEF TypeOK, Storing
        <3>3. \A r \in RowsOf(current.file, current.content) :
                 r.source \in NodesOf(current.file, current.content)
            BY <3>2, SourcesAreNodes
        <3>4. \A e \in edges : e.source \notin NodesOf(current.file, current.content)
            BY <1>0, <3>1 DEF StoreGoesOn
        <3> QED
            BY <3>1, <3>3, <3>4 DEF Origin
    <2>5. UpsertFile => UNCHANGED <<edges, doubled, refs>>
        BY DEF UpsertFile
    <2>6. /\ edges' \subseteq edges /\ doubled' \subseteq doubled
          /\ \A r \in refs' : r \in refs \/ \A e \in edges' : Origin(e) # r
        BY <1>3, <2>2, <2>3, <2>4, <2>5
    <2>7. phase # "deleting"
        BY <2>1 DEF Storing
    <2> QED
        BY <2>1, <2>6, <2>7, FewerStayOnce
<1>4. CASE StartResolving \/ NothingToResolve \/ TableIsEmpty \/ End
    <2>1. /\ UNCHANGED <<refs, edges, doubled, crashes>>
          /\ phase # "deleting" /\ phase' # "inserting"
        BY <1>4 DEF StartResolving, NothingToResolve, TableIsEmpty, End, Forget, graph, counts
    <2> QED
        BY <2>1, FewerStayOnce
<1>5. CASE ReadBatch
    <2>1. UNCHANGED <<refs, edges, doubled, crashes>> /\ phase = "reading" /\ phase' = "inserting"
        BY <1>5 DEF ReadBatch, graph, counts
    <2>2. \A d, e \in resolved' : Origin(d) = Origin(e) => d = e
        <3>1. PICK batch \in Batches :
                 LET hits == {r \in batch : Candidates(r) # {}}
                 IN  \E choice \in [hits -> known] :
                        /\ \A r \in hits : choice[r] \in Candidates(r)
                        /\ resolved' = {[source |-> r.source, target |-> choice[r],
                                          site |-> r.site] : r \in hits}
            BY <1>5 DEF ReadBatch
        <3>2. batch \subseteq refs
            BY DEF Batches, kSubset
        <3> DEFINE hits == {r \in batch : Candidates(r) # {}}
        <3>3. PICK choice \in [hits -> known] :
                 /\ \A r \in hits : choice[r] \in Candidates(r)
                 /\ resolved' = {[source |-> r.source, target |-> choice[r], site |-> r.site] :
                                    r \in hits}
            BY <3>1
        <3>4. \A r \in hits :
                 Origin([source |-> r.source, target |-> choice[r], site |-> r.site]) = r
            <4> SUFFICES ASSUME NEW r \in hits
                         PROVE  Origin([source |-> r.source, target |-> choice[r],
                                        site |-> r.site]) = r
                OBVIOUS
            <4>1. r \in Row
                BY <1>0, <3>2 DEF TypeOK
            <4>2. choice[r].name = r.name
                BY <3>3 DEF Candidates
            <4> QED
                BY <4>1, <4>2 DEF Origin
        <3> QED
            BY <3>3, <3>4
    <2> QED
        BY <1>0, <2>1, <2>2 DEF OnceInv, NoDoubledReference, EachWaitsOrIsLinked, Origin
<1>6. CASE InsertEdges
    <2> SUFFICES ASSUME crashes = 0 PROVE OnceInv'
        BY <1>6 DEF OnceInv, NoDoubledReference, EachWaitsOrIsLinked, InsertEdges, counts
    <2>1. /\ phase = "inserting" /\ phase' = "deleting" /\ refs' = refs /\ resolved' = resolved
          /\ edges \subseteq edges' /\ edges' \subseteq edges \cup resolved
          /\ doubled' \subseteq doubled \cup (resolved \cap edges)
        BY <1>6 DEF InsertEdges, Insert, result
    <2>2. \A e \in resolved : e.site # Heuristic /\ Origin(e) \in refs
        BY <1>0, <2>1 DEF BatchWaits
    <2>3. \A e \in edges : e.site # Heuristic => Origin(e) \notin refs
        BY <1>0, <2>1 DEF EachWaitsOrIsLinked
    <2>4. \A d, e \in resolved : Origin(d) = Origin(e) => d = e
        BY <1>0, <2>1 DEF EachWaitsOrIsLinked
    <2>5. \A d, e \in edges' : Origin(d) = Origin(e) => d.site = e.site
        BY DEF Origin
    <2>6. /\ \A e \in doubled' : e.site = Heuristic
          /\ \A d, e \in edges' : d.site # Heuristic /\ Origin(d) = Origin(e) => d = e
        BY <1>0, <2>1, <2>2, <2>3, <2>4, <2>5 DEF NoDoubledReference
    <2>7. \A e \in edges' : e.site # Heuristic /\ Origin(e) \in refs => e \in resolved
        BY <2>1, <2>3
    <2> QED
        BY <2>1, <2>6, <2>7 DEF OnceInv, NoDoubledReference, EachWaitsOrIsLinked, Origin
<1>7. CASE DeleteResolved
    <2> SUFFICES ASSUME crashes = 0 PROVE OnceInv'
        BY <1>7 DEF OnceInv, NoDoubledReference, EachWaitsOrIsLinked, DeleteResolved, counts
    <2> DEFINE keys == {<<e.source, e.target.name>> : e \in resolved}
    <2>1. /\ phase' \in {"ending", "discarding"} /\ edges' = edges /\ doubled' = doubled
          /\ refs' = {r \in refs : <<r.source, r.name>> \notin keys}
        BY <1>7 DEF DeleteResolved, Deleted
    <2>2. ASSUME NEW e \in edges, e.site # Heuristic, Origin(e) \in refs'
          PROVE  FALSE
        <3>1. Origin(e) \in refs
            BY <2>1, <2>2
        <3>2. PICK d \in resolved : Origin(d) = Origin(e)
            BY <1>0, <2>2, <3>1 DEF EachWaitsOrIsLinked
        <3>3. d.source = Origin(e).source /\ d.target.name = Origin(e).name
            BY <3>2 DEF Origin
        <3>4. <<Origin(e).source, Origin(e).name>> \in keys
            BY <3>3
        <3> QED
            BY <2>1, <2>2, <3>4
    <2> HIDE DEF keys
    <2> QED
        BY <1>0, <2>1, <2>2 DEF OnceInv, NoDoubledReference, EachWaitsOrIsLinked, Origin
<1>8. CASE DiscardUnresolved
    <2>1. /\ refs' \subseteq refs /\ UNCHANGED <<edges, doubled, crashes>>
          /\ phase # "deleting" /\ phase' # "inserting"
        BY <1>8 DEF DiscardUnresolved, Deleted, counts
    <2> QED
        BY <2>1, FewerStayOnce
<1>9. CASE Synthesize
    <2>1. /\ phase = "synthesizing" /\ phase' = "ending" /\ refs' = refs /\ crashes' = crashes
          /\ \A e \in edges' \ edges : e.site = Heuristic
          /\ \A e \in doubled' \ doubled : e.site = Heuristic
        BY <1>9 DEF Synthesize, Insert, graph, counts
    <2>2. \A d, e \in edges' : Origin(d) = Origin(e) => d.site = e.site
        BY DEF Origin
    <2>3. NoDoubledReference'
        BY <1>0, <2>1, <2>2 DEF NoDoubledReference, Origin
    <2>4. EachWaitsOrIsLinked'
        BY <1>0, <2>1 DEF EachWaitsOrIsLinked, Origin
    <2> QED
        BY <2>3, <2>4 DEF OnceInv
<1>10. CASE Crash
    <2>1. crashes' # 0
        BY <1>0, <1>10 DEF Crash, TypeOK
    <2> QED
        BY <2>1 DEF OnceInv, NoDoubledReference, EachWaitsOrIsLinked
<1> QED
    BY <1>1, <1>2, <1>3, <1>4, <1>5, <1>6, <1>7, <1>8, <1>9, <1>10 DEF Next, Step
-----------------------------------------------------------------------------
(* A text makes finitely many references, and so do the files together. *)
LEMMA RowsAreFinite ==
    ASSUME TypeOK, CutsAreFew
    PROVE  IsFiniteSet(AllRows)
<1>1. ASSUME NEW x \in Files, NEW c \in Contents \cup {NoContent} PROVE IsFiniteSet(RowsOf(x, c))
    <2>1. CASE c = NoContent
        BY <2>1, FS_EmptySet DEF RowsOf
    <2>2. CASE c # NoContent
        <3> DEFINE S == Refers[c]
                   T == RowsOf(x, c)
                   f == [r \in S |-> [source |-> [file |-> x, name |-> r.from],
                                      name |-> r.name, site |-> r.site]]
        <3>1. IsFiniteSet(S)
            BY <2>2
        <3>2. f \in Surjection(S, T)
            BY <2>2 DEF Surjection, RowsOf
        <3> QED
            BY <3>1, <3>2, FS_Surjection
    <2> QED
        BY <2>1, <2>2
<1>2. ASSUME NEW x \in Files PROVE IsFiniteSet(UNION {RowsOf(x, c) : c \in Traces(x)})
    <2> DEFINE half == IF HalfStored(x) THEN {current.content} ELSE {}
               tables == {RowsOf(x, c) : c \in Traces(x)}
               table  == [c \in Traces(x) |-> RowsOf(x, c)]
    <2>1. IsFiniteSet(half) /\ IsFiniteSet(cut[x]) /\ IsFiniteSet({record[x]})
        BY FS_EmptySet, FS_Singleton DEF CutsAreFew
    <2>2. IsFiniteSet(Traces(x))
        <3> DEFINE a == {record[x]}
                   b == cut[x]
        <3>1. Traces(x) = (a \cup b) \cup half
            BY DEF Traces
        <3>2. IsFiniteSet(half) /\ IsFiniteSet(a) /\ IsFiniteSet(b)
            BY <2>1
        <3> HIDE DEF half, a, b
        <3>3. IsFiniteSet(a \cup b)
            BY <3>2, FS_Union
        <3> DEFINE ab == a \cup b
        <3> HIDE DEF ab
        <3>4. IsFiniteSet(ab \cup half)
            BY <3>2, <3>3, FS_Union DEF ab
        <3> QED
            BY <3>1, <3>4 DEF ab
    <2>3. table \in Surjection(Traces(x), tables)
        BY DEF Surjection
    <2>4. IsFiniteSet(tables)
        <3> HIDE DEF tables, table
        <3> QED
            BY <2>2, <2>3, FS_Surjection
    <2>5. \A T \in tables : IsFiniteSet(T)
        BY <1>1, TablesByFile
    <2> HIDE DEF tables
    <2>6. IsFiniteSet(UNION tables)
        BY <2>4, <2>5, FS_UNION
    <2> QED
        BY <2>6 DEF tables
<1> DEFINE rowsOf(x) == UNION {RowsOf(x, c) : c \in Traces(x)}
           tables == {rowsOf(x) : x \in Files}
           table  == [x \in Files |-> rowsOf(x)]
<1>3. table \in Surjection(Files, tables)
    <2> HIDE DEF rowsOf
    <2> QED
        BY DEF Surjection
<1>4. IsFiniteSet(tables)
    <2> HIDE DEF tables, table
    <2> QED
        BY <1>3, FS_Surjection
<1>5. \A T \in tables : IsFiniteSet(T)
    BY <1>2
<1>6. AllRows = UNION tables
    BY DEF AllRows
<1> QED
    <2> HIDE DEF tables
    <2> QED
        BY <1>4, <1>5, <1>6, FS_UNION

(* The references of a written file wait: a batch that is owed has them.   *)
LEMMA BatchHasTheWritten ==
    ASSUME TypeOK, GraphReflectsText, CutsAreFew, Owed, Waiting, written \subseteq scope,
           NEW batch \in Batches, NEW x \in written
    PROVE  RowsOf(x, record[x]) \subseteq batch
<1>0. x \in Files /\ x \in scope /\ record[x] \in Contents \cup {NoContent}
    BY DEF TypeOK
<1>1. CASE job = "sync"
    <2>1. \A r \in RowsOf(x, record[x]) : r.source.file = x
        BY <1>0, ContentTypes
    <2> QED
        BY <1>0, <1>1, <2>1 DEF Batches, Waiting
<1>2. CASE job = "indexAll" /\ Fresh
    <2>1. refs \subseteq AllRows /\ IsFiniteSet(AllRows)
        BY RowsAreFinite DEF GraphReflectsText
    <2>2. Cardinality(refs) \in Nat /\ Cardinality(AllRows) \in Nat
             /\ Cardinality(refs) <= Cardinality(AllRows)
        BY <2>1, FS_Subset, FS_CardinalityType
    <2>3. ~(Cardinality(refs) > BatchSize)
        BY <1>2, <2>2 DEF Fresh
    <2>4. batch = refs
        BY <1>2, <2>3 DEF Batches
    <2> QED
        BY <2>4 DEF Waiting
<1> QED
    BY <1>1, <1>2 DEF Owed

(* Where no text changes, edges that stay keep what they complete. *)
LEMMA LinkedGrows ==
    ASSUME Linked, UNCHANGED <<record, nodes, written>>, edges \subseteq edges'
    PROVE  Linked'
    BY DEF Linked, Complete, RowsOf, Origin

LEMMA OwedStays ==
    ASSUME UNCHANGED <<job, record, cut, written>>,
           \/ phase \notin {"refs", "upsert"} /\ phase' \notin {"refs", "upsert"}
           \/ UNCHANGED <<phase, current>>
    PROVE  Owed' <=> Owed
<1>1. \A x \in Files : Traces(x)' = Traces(x)
    BY DEF Traces, HalfStored
<1>2. AllRows' = AllRows
    BY <1>1 DEF AllRows, RowsOf
<1>3. Fresh' <=> Fresh
    BY <1>2 DEF Fresh
<1> QED
    BY <1>3 DEF Owed

(* A delete forgets the stores that were cut short. *)
LEMMA DeletedCutsAreFew ==
    ASSUME TypeOK, CutsAreFew, NEW S \in SUBSET Files, DeleteFiles(S)
    PROVE  CutsAreFew'
<1>1. \A x \in Files : cut'[x] = IF x \in S THEN {} ELSE cut[x]
    BY DeleteTypes
<1> QED
    BY <1>1, FS_EmptySet DEF CutsAreFew

LEMMA WorkIsKept == GraphInv /\ WorkInv /\ [Next]_vars => WorkInv'
<1> SUFFICES ASSUME GraphInv, WorkInv, [Next]_vars PROVE WorkInv'
    OBVIOUS
<1>0. /\ TypeOK /\ TypeOK' /\ GraphReflectsText /\ StoreGoesOn
      /\ CachesAreFresh /\ CutsAreFew /\ written \subseteq scope
    BY TypeIsKept DEF GraphInv, WorkInv
<1>1. CASE (\E x \in Files : Edit(x)) \/ UNCHANGED vars
    <2>1. UNCHANGED <<record, nodes, cut, refs, edges, known, job, phase, current, scope,
                      resolved, written>>
        BY <1>1 DEF Edit, graph, result, vars
    <2>2. /\ (Owed' <=> Owed) /\ (Waiting' <=> Waiting)
          /\ (Chosen' <=> Chosen) /\ (Linked => Linked')
        BY <2>1, OwedStays, LinkedGrows DEF Waiting, Chosen, Origin, RowsOf
    <2> QED
        BY <2>1, <2>2 DEF WorkInv, CachesAreFresh, CutsAreFew
<1>2. CASE BeginIndexAll \/ BeginIndexFiles \/ BeginSync
    <2>1. phase' = "indexing" /\ written' = {}
        BY <1>2 DEF BeginIndexAll, BeginIndexFiles, BeginSync, Begin
    <2>2. CutsAreFew'
        <3>1. cut' = cut \/ \E S \in SUBSET Files : DeleteFiles(S)
            BY <1>2 DEF BeginIndexAll, BeginIndexFiles, BeginSync, graph
        <3> QED
            BY <1>0, <3>1, DeletedCutsAreFew DEF CutsAreFew
    <2> QED
        BY <2>1, <2>2 DEF WorkInv, CachesAreFresh, Waiting, Storing
<1>3. ASSUME NEW x \in Files, IndexFile(x) PROVE WorkInv'
    <2>1. /\ phase = "indexing" /\ phase' \in {"indexing", "nodes"} /\ scope \subseteq scope'
          /\ written' = written /\ Waiting
        BY <1>3 DEF IndexFile, WorkInv
    <2>2. CASE UNCHANGED <<graph, phase, current>>
        BY <1>0, <2>1, <2>2 DEF WorkInv, CachesAreFresh, CutsAreFew, Waiting, RowsOf, graph,
                                Storing
    <2>3. CASE /\ disk[x] \notin {NoContent, record[x]}
               /\ current' = [file |-> x, content |-> disk[x]]
               /\ DeleteFiles({x} \cap {y \in Files : record[y] # NoContent})
        <3> DEFINE S == {x} \cap {y \in Files : record[y] # NoContent}
        <3>1. DeleteFiles(S) /\ S \in SUBSET Files
            BY <2>3
        <3>2. current'.file = x /\ x \in scope'
            BY <1>3, <2>3 DEF IndexFile
        <3> HIDE DEF S
        <3>3. CutsAreFew'
            BY <1>0, <3>1, DeletedCutsAreFew
        <3>4. /\ \A y \in Files : record'[y] = IF y \in S THEN NoContent ELSE record[y]
              /\ refs' = {r \in refs : r.source \notin {n \in nodes : n.file \in S}}
            BY <1>0, <3>1, DeleteTypes
        <3>5. ASSUME NEW y \in written PROVE RowsOf(y, record'[y]) \subseteq refs'
            <4>1. y \in Files
                BY <1>0 DEF TypeOK
            <4>2. CASE y \in S
                BY <3>4, <4>1, <4>2 DEF RowsOf
            <4>3. CASE y \notin S
                <5>1. record'[y] = record[y] /\ record[y] \in Contents \cup {NoContent}
                    BY <1>0, <3>4, <4>1, <4>3 DEF TypeOK
                <5>2. \A r \in RowsOf(y, record[y]) : r.source.file = y
                    BY <4>1, <5>1, ContentTypes
                <5> QED
                    BY <2>1, <3>4, <4>3, <5>1, <5>2 DEF Waiting
            <4> QED
                BY <4>2, <4>3
        <3>6. Waiting'
            BY <2>1, <3>5 DEF Waiting, RowsOf
        <3> QED
            BY <1>0, <2>1, <3>2, <3>3, <3>6 DEF WorkInv, CachesAreFresh
    <2> QED
        BY <1>3, <2>2, <2>3 DEF IndexFile
<1>11. CASE InsertNodes
    <2>1. phase \in Storing /\ phase' = "refs" /\ Waiting /\ current.file \in scope
        BY <1>11 DEF InsertNodes, WorkInv, Storing
    <2>2. current.file \in Files /\ current.content \in Contents
        BY <1>0, <2>1 DEF TypeOK
    <2>3. PICK new : /\ new = NodesOf(current.file, current.content)
                     /\ refs' = {r \in refs : r.source \notin new}
        BY <1>11 DEF InsertNodes, Drop
    <2>4. /\ UNCHANGED <<record, cut, current, scope, written>>
          /\ record[current.file] = NoContent
          /\ \A n \in new : n.file = current.file
        BY <1>0, <1>11, <2>1, <2>2, <2>3, ContentTypes DEF InsertNodes, StoreGoesOn
    <2>5. ASSUME NEW y \in written PROVE RowsOf(y, record[y]) \subseteq refs'
        <3>1. y \in Files
            BY <1>0 DEF TypeOK
        <3>2. CASE y = current.file
            BY <2>4, <3>2 DEF RowsOf
        <3>3. CASE y # current.file
            <4>1. record[y] \in Contents \cup {NoContent}
                BY <1>0, <3>1 DEF TypeOK
            <4>2. \A r \in RowsOf(y, record[y]) : r.source.file = y
                BY <3>1, <4>1, ContentTypes
            <4> QED
                BY <2>1, <2>3, <2>4, <3>3, <4>2 DEF Waiting
        <3> QED
            BY <3>2, <3>3
    <2>6. Waiting'
        BY <2>4, <2>5 DEF Waiting, RowsOf
    <2> QED
        BY <1>0, <2>1, <2>4, <2>6 DEF WorkInv, CachesAreFresh, CutsAreFew
<1>12. CASE InsertRefs
    <2>1. /\ phase \in Storing /\ phase' = "upsert" /\ Waiting /\ current.file \in scope
          /\ UNCHANGED <<record, cut, current, scope, written>> /\ refs \subseteq refs'
        BY <1>12 DEF InsertRefs, WorkInv, Storing
    <2>2. Waiting'
        BY <2>1 DEF Waiting, RowsOf
    <2> QED
        BY <1>0, <2>1, <2>2 DEF WorkInv, CachesAreFresh, CutsAreFew
<1>13. CASE UpsertFile
    <2>1. /\ phase \in Storing /\ phase' = "indexing" /\ Waiting /\ current.file \in scope
          /\ record' = [record EXCEPT ![current.file] = current.content]
          /\ written' = written \cup {current.file}
          /\ UNCHANGED <<refs, cut, scope>>
          /\ RowsOf(current.file, current.content) \subseteq refs
        BY <1>0, <1>13 DEF UpsertFile, WorkInv, Storing, StoreGoesOn
    <2>2. current.file \in Files /\ written \subseteq Files
        BY <1>0, <2>1 DEF TypeOK
    <2>3. /\ record'[current.file] = current.content
          /\ \A y \in Files : y # current.file => record'[y] = record[y]
        BY <1>0, <2>1, <2>2 DEF TypeOK
    <2>4. \A y \in written' : RowsOf(y, record'[y]) \subseteq refs
        <3> SUFFICES ASSUME NEW y \in written' PROVE RowsOf(y, record'[y]) \subseteq refs
            OBVIOUS
        <3>1. CASE y = current.file
            BY <2>1, <2>3, <3>1
        <3>2. CASE y # current.file
            BY <2>1, <2>2, <2>3, <3>2 DEF Waiting
        <3> QED
            BY <3>1, <3>2
    <2>5. Waiting'
        BY <2>1, <2>4 DEF Waiting, RowsOf
    <2> QED
        BY <1>0, <2>1, <2>5 DEF WorkInv, CachesAreFresh, CutsAreFew, Storing
<1>4. CASE StartResolving
    <2>1. /\ UNCHANGED <<record, nodes, cut, refs, written, scope>> /\ Waiting
          /\ phase' = "reading" /\ known' = nodes
        BY <1>4 DEF StartResolving, WorkInv, graph
    <2>2. Waiting'
        BY <2>1 DEF Waiting, RowsOf
    <2> QED
        BY <1>0, <2>1, <2>2 DEF WorkInv, CachesAreFresh, CutsAreFew, Storing
<1>5. CASE NothingToResolve
    <2>1. /\ UNCHANGED <<record, nodes, cut, edges, job, written, scope>> /\ phase' = "ending"
          /\ scope = {} \/ job = "indexFiles"
        BY <1>5 DEF NothingToResolve, graph
    <2>2. Owed' => written' = {}
        BY <1>0, <2>1 DEF Owed
    <2> QED
        BY <1>0, <2>1, <2>2 DEF WorkInv, CachesAreFresh, CutsAreFew, Linked, Storing
<1>6. CASE ReadBatch
    <2>1. /\ UNCHANGED <<record, nodes, cut, refs, edges, known, job, written, scope>>
          /\ phase = "reading" /\ phase' = "inserting"
        BY <1>6 DEF ReadBatch, graph
    <2>2. (Owed' <=> Owed) /\ (Linked => Linked')
        BY <2>1, OwedStays, LinkedGrows DEF Storing
    <2>3. ASSUME Owed, Waiting PROVE Chosen'
        <3>1. PICK batch \in Batches :
                 LET hits == {r \in batch : Candidates(r) # {}}
                 IN  \E choice \in [hits -> known] :
                        /\ \A r \in hits : choice[r] \in Candidates(r)
                        /\ resolved' = {[source |-> r.source, target |-> choice[r],
                                          site |-> r.site] : r \in hits}
            BY <1>6 DEF ReadBatch
        <3> DEFINE hits == {r \in batch : Candidates(r) # {}}
        <3>2. PICK choice \in [hits -> known] :
                 /\ \A r \in hits : choice[r] \in Candidates(r)
                 /\ resolved' = {[source |-> r.source, target |-> choice[r], site |-> r.site] :
                                    r \in hits}
            BY <3>1
        <3>3. ASSUME NEW x \in written, NEW r \in RowsOf(x, record[x]),
                     NEW n \in nodes, n.name = r.name
              PROVE  \E e \in resolved' :
                        Origin(e) = r /\ e.source \in nodes /\ e.target \in nodes
            <4>1. r \in batch
                BY <1>0, <2>3, <3>3, BatchHasTheWritten
            <4>2. known = nodes
                BY <1>0, <2>1 DEF CachesAreFresh
            <4>3. r \in hits
                BY <3>3, <4>1, <4>2 DEF Candidates
            <4>5. r \in Row /\ r.source \in nodes
                BY <1>0, <2>3, <3>3 DEF Waiting, GraphReflectsText, TypeOK
            <4>6. choice[r] \in nodes /\ choice[r].name = r.name
                BY <3>2, <4>2, <4>3 DEF Candidates
            <4> DEFINE e == [source |-> r.source, target |-> choice[r], site |-> r.site]
            <4>7. e \in resolved'
                BY <3>2, <4>3
            <4>8. Origin(e) = r
                BY <4>5, <4>6 DEF Origin
            <4> QED
                BY <4>5, <4>6, <4>7, <4>8
        <3> HIDE DEF hits
        <3> QED
            BY <2>1, <2>2, <3>3 DEF Chosen, Origin, RowsOf
    <2> QED
        BY <1>0, <2>1, <2>2, <2>3 DEF WorkInv, CachesAreFresh, CutsAreFew, Storing
<1>7. CASE TableIsEmpty
    <2>1. /\ UNCHANGED <<record, nodes, cut, refs, edges, job, written, scope>>
          /\ phase = "reading" /\ phase' = "synthesizing" /\ refs = {}
        BY <1>7 DEF TableIsEmpty, graph
    <2>2. Waiting => Linked
        BY <2>1 DEF Waiting, Linked, Complete
    <2>3. (Owed' <=> Owed) /\ (Linked => Linked')
        BY <2>1, OwedStays, LinkedGrows DEF Storing
    <2> QED
        BY <1>0, <2>1, <2>2, <2>3 DEF WorkInv, CachesAreFresh, CutsAreFew, Storing
<1>8. CASE InsertEdges
    <2>1. /\ UNCHANGED <<record, nodes, cut, refs, known, job, written, scope>>
          /\ phase = "inserting" /\ phase' = "deleting"
          /\ edges' = edges \cup {e \in resolved : e.source \in nodes /\ e.target \in nodes}
        BY <1>8 DEF InsertEdges, Insert
    <2>2. (Owed' <=> Owed) /\ (Linked => Linked')
        BY <2>1, OwedStays, LinkedGrows DEF Storing
    <2>3. Chosen => Linked'
        BY <2>1, <2>2 DEF Chosen, Linked, Complete, Origin, RowsOf
    <2> QED
        BY <1>0, <2>1, <2>2, <2>3 DEF WorkInv, CachesAreFresh, CutsAreFew, Storing
<1>9. CASE DeleteResolved \/ DiscardUnresolved \/ Synthesize
    <2>1. /\ UNCHANGED <<record, nodes, cut, known, job, written, scope>> /\ edges \subseteq edges'
          /\ phase \in {"deleting", "discarding", "synthesizing"}
          /\ phase' \in {"reading", "discarding", "synthesizing", "ending"}
          /\ phase' \in {"reading", "discarding"} => phase # "synthesizing"
        BY <1>9 DEF DeleteResolved, DiscardUnresolved, Synthesize, Deleted, Insert, graph
    <2>2. (Owed' <=> Owed) /\ (Linked => Linked')
        BY <2>1, OwedStays, LinkedGrows DEF Storing
    <2> QED
        BY <1>0, <2>1, <2>2 DEF WorkInv, CachesAreFresh, CutsAreFew, Storing
<1>10. CASE End \/ Crash
    <2>1. phase' = "idle" /\ written' = {}
        BY <1>10 DEF End, Crash, Forget
    <2>2. CutsAreFew'
        <3>1. CASE End
            BY <1>0, <3>1 DEF End, graph, CutsAreFew
        <3>2. CASE Crash
            <4> SUFFICES ASSUME NEW x \in Files PROVE IsFiniteSet(cut'[x])
                BY DEF CutsAreFew
            <4>1. cut'[x] = cut[x] \/ cut'[x] = cut[x] \cup {current.content}
                BY <3>2 DEF Crash
            <4> PICK old, more : old = cut[x] /\ more = current.content
                OBVIOUS
            <4>2. IsFiniteSet(old) /\ (cut'[x] = old \/ cut'[x] = old \cup {more})
                BY <1>0, <4>1 DEF CutsAreFew
            <4>3. IsFiniteSet(old \cup {more})
                BY <4>2, FS_AddElement
            <4> QED
                BY <4>2, <4>3
        <3> QED
            BY <1>10, <3>1, <3>2
    <2> QED
        BY <2>1, <2>2 DEF WorkInv, CachesAreFresh, Storing
<1> QED
    BY <1>1, <1>2, <1>3, <1>4, <1>5, <1>6, <1>7, <1>8, <1>9, <1>10, <1>11, <1>12, <1>13
       DEF Next, Step

IndexingInv == GraphInv /\ OnceInv /\ WorkInv

LEMMA IndexingInvIsInvariant == Spec => []IndexingInv
<1>1. Init => IndexingInv
    <2>1. ASSUME Init PROVE GraphInv
        BY <2>1, InitIsSound
    <2>2. ASSUME Init PROVE OnceInv
        BY <2>2 DEF Init, OnceInv, NoDoubledReference, EachWaitsOrIsLinked
    <2>3. ASSUME Init PROVE WorkInv
        BY <2>3, FS_EmptySet DEF Init, WorkInv, CachesAreFresh, CutsAreFew, Storing
    <2> QED
        BY <2>1, <2>2, <2>3 DEF IndexingInv
<1>2. IndexingInv /\ [Next]_vars => IndexingInv'
    BY GraphInvIsKept, OnceIsKept, WorkIsKept DEF IndexingInv
<1> QED
    BY <1>1, <1>2, PTL DEF Spec

(* A job that ends by itself has linked what it owes. *)
LEMMA EndingIsLinked ==
    ASSUME IndexingInv, [Next]_vars, job # "none", job' = "none", crashes' = crashes, Owed
    PROVE  Linked
<1>1. ~Crash
    BY DEF IndexingInv, GraphInv, TypeOK, Crash
<1>2. ~UNCHANGED vars /\ \A x \in Files : ~Edit(x)
    BY DEF vars, Edit
<1>3. ~BeginIndexAll /\ ~BeginIndexFiles /\ ~BeginSync
    BY DEF BeginIndexAll, BeginIndexFiles, BeginSync, Begin
<1>4. /\ \A x \in Files : ~IndexFile(x)
      /\ ~InsertNodes /\ ~InsertRefs /\ ~UpsertFile
      /\ ~StartResolving /\ ~NothingToResolve /\ ~ReadBatch /\ ~TableIsEmpty
      /\ ~InsertEdges /\ ~DeleteResolved /\ ~DiscardUnresolved /\ ~Synthesize
    BY DEF IndexFile, InsertNodes, InsertRefs, UpsertFile, StartResolving, NothingToResolve,
           ReadBatch, TableIsEmpty,
           InsertEdges, DeleteResolved, DiscardUnresolved, Synthesize
<1>5. End
    BY <1>1, <1>2, <1>3, <1>4 DEF Next, Step
<1> QED
    BY <1>5 DEF End, IndexingInv, WorkInv

(* A sync and a fresh index give every reference of what they wrote its    *)
(* edge, in whatever order the files came and however the batches fell,    *)
(* and no job that is not cut short makes two of one (IndexingIsExact):    *)
(* the rows of a written file wait until the batch that takes them, the    *)
(* caches are filled after the last file, and rows go only after their     *)
(* edges are in.                                                           *)
THEOREM IndexingStaysExact == Spec => IndexingIsExact
<1>1. ASSUME IndexingInv, [Next]_vars, Ends("sync")
      PROVE  \A x \in written : Complete(x)
    <2>1. Owed /\ job # "none" /\ job' = "none" /\ crashes' = crashes
        BY <1>1 DEF Ends, Owed
    <2> QED
        BY <1>1, <2>1, EndingIsLinked DEF Linked
<1>2. ASSUME IndexingInv, [Next]_vars, Ends("indexAll"),
             \A x \in Files \ written : record[x] = NoContent,
             Cardinality(AllRows) <= BatchSize
      PROVE  \A x \in Files : Complete(x)
    <2>1. Owed /\ job # "none" /\ job' = "none" /\ crashes' = crashes
        BY <1>2 DEF Ends, Owed, Fresh
    <2>2. \A x \in written : Complete(x)
        BY <1>2, <2>1, EndingIsLinked DEF Linked
    <2>3. \A x \in Files \ written : Complete(x)
        BY <1>2 DEF Complete, RowsOf
    <2> QED
        BY <2>2, <2>3
<1>3. IndexingInv => NoDoubledReference
    BY DEF IndexingInv, OnceInv
<1>4. IndexingInv /\ [Next]_vars => [Ends("sync") => \A f \in written : Complete(f)]_vars
    BY <1>1
<1>5. IndexingInv /\ [Next]_vars =>
         [Ends("indexAll") /\ (\A f \in Files \ written : record[f] = NoContent)
             /\ Cardinality(AllRows) <= BatchSize
         => \A f \in Files : Complete(f)]_vars
    BY <1>2
<1>6. Spec => SyncResolvesWhatItIndexed
    BY <1>4, IndexingInvIsInvariant, PTL DEF Spec, SyncResolvesWhatItIndexed
<1>7. Spec => FreshIndexIsComplete
    BY <1>5, IndexingInvIsInvariant, PTL DEF Spec, FreshIndexIsComplete
<1>8. Spec => []NoDoubledReference
    BY <1>3, IndexingInvIsInvariant, PTL
<1> QED
    BY <1>6, <1>7, <1>8 DEF IndexingIsExact
=============================================================================
