------------------------ MODULE ReferenceResolution -------------------------
(***************************************************************************)
(* How references become edges: ReferenceResolver of                       *)
(* src/src/resolution/index.ts on the nodes, edges and unresolved_refs     *)
(* tables, driven by indexAll, indexFiles and sync of src/src/index.ts.    *)
(* Every transaction of storeExtractionResult and of the resolver is a     *)
(* step; how sync finds what to index is one (ExtractionStore has it all). *)
(*                                                                         *)
(* A content defines names and refers to names from some of its            *)
(* definitions, at sites; a node is a name defined in a file (its id is    *)
(* made of the file, kind, name and line: a name keeps them here when the  *)
(* content changes, so that it is replaced when it is inserted again, and  *)
(* a symbol that moves is one name that goes and one that comes).          *)
(* A reference resolves to some node with its name if there is one: which  *)
(* one is best depends on paths, kinds and lines, and is left open.        *)
(***************************************************************************)
EXTENDS Naturals, FiniteSets, FiniteSetsExt

CONSTANTS
    Files, Names, Sites,
    Contents,
    NoContent,      \* what a file that is not there holds
    Defines,        \* the names each content defines
    Refers,         \* its references: from, name, site
    Dispatch,       \* <<m, n>>: the synthesizers link m to callback n
    Heuristic,      \* the site of a synthesized edge
    Jobs,           \* which of the jobs below are run
    BatchSize,      \* rows that one pass of the batched loop reads
    MaxEdits,       \* bound: changes on disk
    MaxCrashes      \* bound: crashes and statements that throw

AllJobs == {"indexAll", "indexFiles", "sync"}

ASSUME ReferenceResolutionAssumption ==
    /\ IsFiniteSet(Files)
    /\ NoContent \notin Contents
    /\ Heuristic \notin Sites
    /\ Defines \in [Contents -> SUBSET Names]
    /\ Refers \in [Contents -> SUBSET [from : Names, name : Names, site : Sites]]
    /\ \A c \in Contents : IsFiniteSet(Refers[c])
    /\ \A c \in Contents : \A r \in Refers[c] : r.from \in Defines[c]
    /\ Dispatch \subseteq Names \X Names
    /\ Jobs \subseteq AllJobs
    /\ BatchSize \in Nat \ {0}
    /\ MaxEdits \in Nat
    /\ MaxCrashes \in Nat

VARIABLES
    disk,       \* the content of each file
    record,     \* the files table: the content each file was indexed with
    nodes,      \* the nodes table
    refs,       \* the unresolved_refs table
    edges,      \* the edges table, without the edges inside a file
    doubled,    \* the edges that are in the table more than once
    known,      \* the resolver's caches: the nodes they answer with
    job,        \* the job that runs, or "none"
    phase,      \* where it stands
    todo,       \* files it has still to index
    current,    \* the file that is being stored, and its content
    scope,      \* files it has indexed, or will: sync's changedFilePaths
    resolved,   \* the batch at hand: the edges to be
    unresolved, \* and the references that resolved to nothing
    written,    \* files the job has stored (auxiliary)
    cut,        \* contents whose store was cut short since the nodes of the
                \* file were last deleted (auxiliary)
    edits, crashes

graph  == <<record, nodes, refs, edges, doubled, cut>>
result == <<resolved, unresolved>>
counts == <<disk, edits, crashes>>
vars == <<disk, record, nodes, refs, edges, doubled, known, job, phase, todo, current,
          scope, resolved, unresolved, written, cut, edits, crashes>>

Node == [file : Files, name : Names]
Row  == [source : Node, name : Names, site : Sites]
Edge == [source : Node, target : Node, site : Sites \cup {Heuristic}]

Storing == {"nodes", "refs", "upsert"}

Phases == Storing \cup
          {"idle", "indexing", "reading", "inserting", "deleting",
           "discarding", "synthesizing", "ending"}

Nothing == [file |-> NoContent, content |-> NoContent]

TypeOK ==
    /\ disk \in [Files -> Contents \cup {NoContent}]
    /\ record \in [Files -> Contents \cup {NoContent}]
    /\ nodes \subseteq Node
    /\ refs \subseteq Row
    /\ edges \subseteq Edge
    /\ doubled \subseteq edges
    /\ known \subseteq Node
    /\ job \in Jobs \cup {"none"}
    /\ phase \in Phases
    /\ (job = "none") <=> (phase = "idle")
    /\ todo \subseteq Files
    /\ current \in [file : Files, content : Contents] \cup {Nothing}
    /\ (phase \in Storing) <=> (current # Nothing)
    /\ scope \subseteq Files
    /\ resolved \subseteq Edge
    /\ unresolved \subseteq Row
    /\ written \subseteq Files
    /\ cut \in [Files -> SUBSET Contents]
    /\ edits \in 0 .. MaxEdits
    /\ crashes \in 0 .. MaxCrashes

NodesOf(f, c) ==
    IF c = NoContent THEN {} ELSE {[file |-> f, name |-> n] : n \in Defines[c]}

RowsOf(f, c) ==
    IF c = NoContent THEN {}
    ELSE {[source |-> [file |-> f, name |-> r.from], name |-> r.name, site |-> r.site] :
             r \in Refers[c]}

\* Some rows of the content that is being stored are there already.
HalfStored(f) == phase \in {"refs", "upsert"} /\ current.file = f

\* The contents that rows of a file may come from: that of its record, those
\* that a store cut short has left, and the one that is half stored.
Traces(f) ==
    {record[f]} \cup cut[f] \cup (IF HalfStored(f) THEN {current.content} ELSE {})

AllNodes == UNION {UNION {NodesOf(f, c) : c \in Traces(f)} : f \in Files}
AllRows  == UNION {UNION {RowsOf(f, c) : c \in Traces(f)} : f \in Files}

\* The reference that an edge was made from.
Origin(e) == [source |-> e.source, name |-> e.target.name, site |-> e.site]

Init ==
    /\ disk \in [Files -> Contents \cup {NoContent}]
    /\ record = [f \in Files |-> NoContent]
    /\ nodes = {}
    /\ refs = {}
    /\ edges = {}
    /\ doubled = {}
    /\ known = {}
    /\ job = "none"
    /\ phase = "idle"
    /\ todo = {}
    /\ current = Nothing
    /\ scope = {}
    /\ resolved = {}
    /\ unresolved = {}
    /\ written = {}
    /\ cut = [f \in Files |-> {}]
    /\ edits = 0
    /\ crashes = 0

Edit(f) ==
    /\ edits < MaxEdits
    /\ edits' = edits + 1
    /\ \E c \in (Contents \cup {NoContent}) \ {disk[f]} : disk' = [disk EXCEPT ![f] = c]
    /\ UNCHANGED <<graph, known, job, phase, todo, current, scope, result, written, crashes>>
-----------------------------------------------------------------------------
\* Mutation: the edges into a deleted node stay.
CascadeFromOnly(gone, links) == {e \in links : e.source \notin gone}

\* What ON DELETE CASCADE leaves of the edges.
Cascade(gone, links) == {e \in links : e.source \notin gone /\ e.target \notin gone}

(* Nodes leave their table, or are replaced in it: their references and    *)
(* all edges from and to them go with them.                                *)
Drop(gone) ==
    /\ refs' = {r \in refs : r.source \notin gone}
    /\ edges' = Cascade(gone, edges)
    /\ doubled' = Cascade(gone, doubled)

(* deleteFile, for each file of a set that has a record. *)
DeleteFiles(S) ==
    LET gone == {n \in nodes : n.file \in S}
    IN  /\ record' = [f \in Files |-> IF f \in S THEN NoContent ELSE record[f]]
        /\ nodes' = nodes \ gone
        /\ Drop(gone)
        /\ cut' = [f \in Files |-> IF f \in S THEN {} ELSE cut[f]]

Begin(j, files, indexed) ==
    /\ job = "none"
    /\ j \in Jobs
    /\ job' = j
    /\ phase' = "indexing"
    /\ todo' = files
    /\ scope' = indexed
    /\ written' = {}
    /\ UNCHANGED <<counts, known, current, result>>

BeginIndexAll ==
    /\ Begin("indexAll", {f \in Files : disk[f] # NoContent}, {})
    /\ UNCHANGED graph

BeginIndexFiles ==
    /\ \E S \in SUBSET Files : S # {} /\ Begin("indexFiles", S, {})
    /\ UNCHANGED graph

(* sync, up to its loop: files that are gone leave the database, and the   *)
(* files that differ from it are to be indexed.                            *)
BeginSync ==
    LET gone    == {f \in Files : disk[f] = NoContent /\ record[f] # NoContent}
        changed == {f \in Files : disk[f] \notin {NoContent, record[f]}}
    IN  Begin("sync", changed, changed) /\ DeleteFiles(gone)

(* A file is read, and storeExtractionResult begins: deleteFile drops the  *)
(* former rows, if the file has a record.  Nothing is stored for a file    *)
(* that is gone or unchanged.                                              *)
IndexFile(f) ==
    /\ phase = "indexing"
    /\ f \in todo
    /\ todo' = todo \ {f}
    /\ \/ /\ disk[f] \notin {NoContent, record[f]}
          /\ phase' = "nodes"
          /\ current' = [file |-> f, content |-> disk[f]]
          /\ DeleteFiles({f} \cap {x \in Files : record[x] # NoContent})
       \/ disk[f] \in {NoContent, record[f]} /\ UNCHANGED <<graph, phase, current>>
    /\ scope' = IF disk[f] = NoContent THEN scope ELSE scope \cup {f}
    /\ UNCHANGED <<counts, known, job, result, written>>

(* insertNodes: INSERT OR REPLACE. *)
InsertNodes ==
    LET new == NodesOf(current.file, current.content)
    IN  /\ phase = "nodes"
        /\ phase' = "refs"
        /\ nodes' = nodes \cup new
        /\ Drop(new)
        /\ UNCHANGED <<counts, record, cut, known, job, todo, current, scope, result, written>>

(* insertUnresolvedRefsBatch: the references wait for the resolver. *)
InsertRefs ==
    /\ phase = "refs"
    /\ phase' = "upsert"
    /\ refs' = refs \cup RowsOf(current.file, current.content)
    /\ UNCHANGED <<counts, record, nodes, edges, doubled, cut, known, job, todo, current,
                   scope, result, written>>

(* upsertFile comes last. *)
UpsertFile ==
    /\ phase = "upsert"
    /\ phase' = "indexing"
    /\ record' = [record EXCEPT ![current.file] = current.content]
    /\ written' = written \cup {current.file}
    /\ current' = Nothing
    /\ UNCHANGED <<counts, nodes, refs, edges, doubled, cut, known, job, todo, scope, result>>

\* Mutation: the caches of an earlier job are taken for warm.
StartResolvingWarm ==
    /\ phase = "indexing"
    /\ todo = {}
    /\ scope # {}
    /\ job # "indexFiles"
    /\ phase' = "reading"
    /\ known' = IF known = {} THEN nodes ELSE known
    /\ UNCHANGED <<counts, graph, job, todo, current, scope, result, written>>

(* runPostExtract clears the resolver's caches and warmCaches fills them.  *)
StartResolving ==
    /\ phase = "indexing"
    /\ todo = {}
    /\ scope # {}
    /\ job # "indexFiles"
    /\ phase' = "reading"
    /\ known' = nodes
    /\ UNCHANGED <<counts, graph, job, todo, current, scope, result, written>>

\* Nothing was indexed, or the job is indexFiles, which resolves nothing.
NothingToResolve ==
    /\ phase = "indexing"
    /\ todo = {}
    /\ scope = {} \/ job = "indexFiles"
    /\ phase' = "ending"
    /\ UNCHANGED <<counts, graph, known, job, todo, current, scope, result, written>>
-----------------------------------------------------------------------------
\* indexAll reads the first rows of the table, in no stated order; sync
\* reads all rows of the files it has changed.
Batches ==
    IF job = "indexAll"
    THEN IF Cardinality(refs) > BatchSize THEN kSubset(BatchSize, refs) ELSE {refs}
    ELSE {{r \in refs : r.source.file \in scope}}

\* Mutation: only symbols of the same file are candidates.
CandidatesLocal(r) == {n \in known : n.name = r.name /\ n.file = r.source.file}

Candidates(r) == {n \in known : n.name = r.name}

(* One batch and resolveAll. *)
ReadBatch ==
    /\ phase = "reading"
    /\ job = "indexAll" => refs # {}
    /\ \E batch \in Batches :
          LET hits == {r \in batch : Candidates(r) # {}}
          IN  /\ unresolved' = batch \ hits
              /\ \E choice \in [hits -> known] :
                    /\ \A r \in hits : choice[r] \in Candidates(r)
                    /\ resolved' = {[source |-> r.source, target |-> choice[r], site |-> r.site] :
                                       r \in hits}
    /\ phase' = "inserting"
    /\ UNCHANGED <<counts, graph, known, job, todo, current, scope, written>>

TableIsEmpty ==
    /\ phase = "reading"
    /\ job = "indexAll"
    /\ refs = {}
    /\ phase' = "synthesizing"
    /\ UNCHANGED <<counts, graph, known, job, todo, current, scope, result, written>>

\* insertEdges: an edge whose ends are not both there is skipped; there is
\* no key that would make INSERT OR IGNORE ignore anything.
Insert(links) ==
    LET new == {e \in links : e.source \in nodes /\ e.target \in nodes}
    IN  /\ edges' = edges \cup new
        /\ doubled' = doubled \cup (new \cap edges)
        /\ UNCHANGED <<record, nodes, refs, cut>>

InsertEdges ==
    /\ phase = "inserting"
    /\ phase' = "deleting"
    /\ Insert(resolved)
    /\ UNCHANGED <<counts, known, job, todo, current, scope, result, written>>

\* Rows are deleted by (from_node_id, reference_name, reference_kind).
Deleted(keys) ==
    /\ refs' = {r \in refs : <<r.source, r.name>> \notin keys}
    /\ UNCHANGED <<record, nodes, edges, doubled, cut>>

\* Mutation: the rows of resolved references stay in the table.
DeleteResolvedKeeps ==
    /\ phase = "deleting"
    /\ phase' = IF job = "sync" THEN "ending" ELSE "discarding"
    /\ UNCHANGED <<counts, graph, known, job, todo, current, scope, result, written>>

DeleteResolved ==
    /\ phase = "deleting"
    /\ phase' = IF job = "sync" THEN "ending" ELSE "discarding"
    /\ Deleted({<<e.source, e.target.name>> : e \in resolved})
    /\ UNCHANGED <<counts, known, job, todo, current, scope, result, written>>

\* Mutation: the loop goes on and unresolvable rows stay in the table.
DiscardNothing ==
    /\ phase = "discarding"
    /\ phase' = "reading"
    /\ UNCHANGED <<counts, graph, known, job, todo, current, scope, result, written>>

(* The batched loop drops what did not resolve, and the test at its end    *)
(* leaves the loop when the whole batch was like that.                     *)
DiscardUnresolved ==
    /\ phase = "discarding"
    /\ phase' = IF resolved = {} THEN "synthesizing" ELSE "reading"
    /\ Deleted({<<r.source, r.name>> : r \in unresolved})
    /\ UNCHANGED <<counts, known, job, todo, current, scope, result, written>>

(* synthesizeCallbackEdges; its failures are ignored.                      *)
Synthesize ==
    /\ phase = "synthesizing"
    /\ phase' = "ending"
    /\ \/ Insert({e \in [source : nodes, target : nodes, site : {Heuristic}] :
                     <<e.source.name, e.target.name>> \in Dispatch})
       \/ UNCHANGED graph
    /\ UNCHANGED <<counts, known, job, todo, current, scope, result, written>>

\* What a job forgets when it ends.
Forget ==
    /\ job' = "none"
    /\ phase' = "idle"
    /\ todo' = {}
    /\ current' = Nothing
    /\ scope' = {}
    /\ resolved' = {}
    /\ unresolved' = {}
    /\ written' = {}

(* The job returns; the resolver's caches stay. *)
End ==
    /\ phase = "ending"
    /\ Forget
    /\ UNCHANGED <<counts, graph, known>>

(* A statement throws, or the process dies and its caches with it.         *)
Crash ==
    /\ job # "none"
    /\ crashes < MaxCrashes
    /\ crashes' = crashes + 1
    /\ Forget
    /\ known' \in {known, {}}
    /\ cut' = [f \in Files |-> IF HalfStored(f) THEN cut[f] \cup {current.content} ELSE cut[f]]
    /\ UNCHANGED <<disk, edits, record, nodes, refs, edges, doubled>>
-----------------------------------------------------------------------------
Step ==
    \/ \E f \in Files : IndexFile(f)
    \/ InsertNodes \/ InsertRefs \/ UpsertFile
    \/ StartResolving \/ NothingToResolve
    \/ ReadBatch \/ TableIsEmpty \/ InsertEdges \/ DeleteResolved \/ DiscardUnresolved
    \/ Synthesize \/ End

Next ==
    \/ \E f \in Files : Edit(f)
    \/ BeginIndexAll \/ BeginIndexFiles \/ BeginSync
    \/ Step \/ Crash

Spec == Init /\ [][Next]_vars

(* A job that runs goes on. *)
FairSpec == Spec /\ WF_vars(Step)
-----------------------------------------------------------------------------
Ends(j) == job = j /\ job' = "none" /\ crashes' = crashes

Complete(f) ==
    \A r \in RowsOf(f, record[f]) :
        (\E n \in nodes : n.name = r.name) => \E e \in edges : Origin(e) = r

(* A record has all the nodes of its content, and references and edges     *)
(* hang on nodes that are there.  Every node, every waiting reference and  *)
(* the reference of every edge comes from the content of the record, from  *)
(* the one being stored, or from one whose store was cut short since the   *)
(* rows of its file were last deleted: nothing else of an earlier content  *)
(* survives, whatever jobs, edits and deaths there were.                   *)
GraphReflectsText ==
    /\ \A f \in Files : NodesOf(f, record[f]) \subseteq nodes
    /\ nodes \subseteq AllNodes
    /\ \A r \in refs : r.source \in nodes
    /\ \A e \in edges : e.source \in nodes /\ e.target \in nodes
    /\ refs \subseteq AllRows
    /\ {Origin(e) : e \in {d \in edges : d.site # Heuristic}} \subseteq AllRows

(* Unless a job was cut short, no reference is turned into an edge twice,  *)
(* neither into the same edge nor into edges to different symbols.         *)
NoDoubledReference ==
    crashes = 0 =>
        /\ \A e \in doubled : e.site = Heuristic
        /\ \A d, e \in edges : d.site # Heuristic /\ Origin(d) = Origin(e) => d = e

(* After a sync every reference of the files it has written that can be    *)
(* resolved has its edge, in whatever order the files were indexed.        *)
SyncResolvesWhatItIndexed ==
    [][Ends("sync") => \A f \in written : Complete(f)]_vars

(* A full index that has written every file in the database leaves no      *)
(* reference without an edge that has a target, as long as one batch holds *)
(* all references, those that a store cut short has left included.         *)
FreshIndexIsComplete ==
    [][Ends("indexAll") /\ (\A f \in Files \ written : record[f] = NoContent)
             /\ Cardinality(AllRows) <= BatchSize
         => \A f \in Files : Complete(f)]_vars

(* Resolution neither loses nor doubles a reference it answers for: what a *)
(* sync wrote, what a fresh index holds, and every edge exactly once.      *)
IndexingIsExact == SyncResolvesWhatItIndexed /\ FreshIndexIsComplete /\ []NoDoubledReference

(* Every job ends: the batched loop does not read the same rows for ever.  *)
JobsEnd == job # "none" ~> job = "none"

(* The README's promise that "the graph stays current as you code": after  *)
(* a sync that leaves no file behind, the graph has what an index from     *)
(* scratch would have.                                                     *)
SyncKeepsGraphCurrent ==
    [][Ends("sync") /\ record = disk => \A f \in Files : Complete(f)]_vars
=============================================================================
