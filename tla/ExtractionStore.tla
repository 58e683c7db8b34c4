-------------------------- MODULE ExtractionStore ---------------------------
(***************************************************************************)
(* ExtractionOrchestrator of src/src/extraction/index.ts and the tables it *)
(* writes: which contents of a file the database holds rows for, and what  *)
(* its file record says.  indexAll, indexFiles and sync are the jobs; the  *)
(* mutex and the file lock let one run at a time.  Files change on disk at *)
(* any moment between two steps of a job, and the process may die, or a    *)
(* statement may throw, between any two transactions.                      *)
(*                                                                         *)
(* A content stands for everything extraction derives from it, its hash    *)
(* included.  A modification time stands for the (size, mtime) pair that   *)
(* sync's pre-filter compares; every write has a new one.                  *)
(***************************************************************************)
EXTENDS Naturals

CONSTANTS
    Files,
    Contents,
    Unparseable,    \* contents that give errors and no nodes, or too large
    NoContent,      \* what a file that is not there holds
    Jobs,           \* which of the jobs below are run
    MaxEdits,       \* bound: writes and deletions on disk
    MaxCrashes      \* bound: crashes and statements that throw

AllJobs == {"indexAll", "indexFiles", "sync"}

ASSUME ExtractionStoreAssumption ==
    /\ Files # {}
    /\ Unparseable \subseteq Contents
    /\ NoContent \notin Contents
    /\ Jobs \subseteq AllJobs
    /\ MaxEdits \in Nat
    /\ MaxCrashes \in Nat

VARIABLES
    disk,       \* content and mtime of each file
    record,     \* the files table: content hash and mtime
    rows,       \* what the nodes, edges and unresolved_refs tables hold
    job,        \* the job that runs, or "none"
    phase,      \* where it stands
    todo,       \* the files its current loop has still to visit
    listed,     \* sync: what scanDirectory returned
    trackedMap, \* sync: the records as they were when it began
    current,    \* the file at hand: its name, and what was read of it
    edits, crashes,
    owed,       \* "sync" when the watcher has still to call it, "start" when
                \* a server will at its start, "unseen" when nobody will
    torn,       \* files whose present stat the batch reader has read after
                \* an earlier content (auxiliary)
    cut         \* contents whose store was cut short since the rows of the
                \* file were last deleted (auxiliary)

dbVars   == <<record, rows, cut>>
jobVars  == <<job, phase, todo, listed, trackedMap, current>>
diskVars == <<disk, edits, owed, torn>>
vars == <<disk, record, rows, job, phase, todo, listed, trackedMap, current,
          edits, crashes, owed, torn, cut>>

Tables == {"nodes", "edges", "refs"}

Phases == {"idle", "removing", "checking", "picking", "reading", "reading2",
           "storing", "nodes", "edges", "refs", "upsert"}

Versions == [content : Contents \cup {NoContent}, mtime : 0 .. MaxEdits]

NoRecord == [content |-> NoContent, mtime |-> 0]

TypeOK ==
    /\ disk \in [Files -> Versions]
    /\ record \in [Files -> Versions]
    /\ rows \in [Files -> SUBSET (Contents \X Tables)]
    /\ job \in Jobs \cup {"none"}
    /\ phase \in Phases
    /\ (job = "none") <=> (phase = "idle")
    /\ todo \subseteq Files
    /\ listed \subseteq Files
    /\ trackedMap \in [Files -> Versions]
    /\ current \in [file : Files, content : Contents \cup {NoContent}, mtime : 0 .. MaxEdits]
    /\ edits \in 0 .. MaxEdits
    /\ crashes \in 0 .. MaxCrashes
    /\ owed \in {"nothing", "sync", "start", "unseen"}
    /\ torn \subseteq Files
    /\ cut \in [Files -> SUBSET Contents]

OnDisk(f)  == disk[f].content # NoContent
Tracked(f) == record[f].content # NoContent
InMap(f)   == trackedMap[f].content # NoContent

Nothing == [file |-> CHOOSE f \in Files : TRUE, content |-> NoContent, mtime |-> 0]

Init ==
    /\ disk \in [Files -> {NoRecord} \cup [content : Contents, mtime : {0}]]
    /\ record = [f \in Files |-> NoRecord]
    /\ rows = [f \in Files |-> {}]
    /\ job = "none"
    /\ phase = "idle"
    /\ todo = {}
    /\ listed = {}
    /\ trackedMap = [f \in Files |-> NoRecord]
    /\ current = Nothing
    /\ edits = 0
    /\ crashes = 0
    /\ owed = "start"
    /\ torn = {}
    /\ cut = [f \in Files |-> {}]

(* Somebody writes, touches or deletes a file; the watcher sees it, or it  *)
(* is left to the sync at the next start of a server.                      *)
Edit(f) ==
    /\ edits < MaxEdits
    /\ edits' = edits + 1
    /\ \/ \E c \in Contents : disk' = [disk EXCEPT ![f] = [content |-> c, mtime |-> edits + 1]]
       \/ OnDisk(f) /\ disk' = [disk EXCEPT ![f] = NoRecord]
    /\ owed' \in IF owed = "start" THEN {"start", "sync"} ELSE {"sync"}
    /\ torn' = torn \ {f}
    /\ UNCHANGED <<dbVars, jobVars, crashes>>
-----------------------------------------------------------------------------
Begin(j, ph, files) ==
    /\ job = "none"
    /\ j \in Jobs
    /\ job' = j
    /\ phase' = ph
    /\ todo' = files
    /\ UNCHANGED <<disk, dbVars, current, edits, crashes, torn>>

(* indexAll: every file scanDirectory finds; nothing is removed.           *)
BeginIndexAll ==
    /\ Begin("indexAll", "picking", {f \in Files : OnDisk(f)})
    /\ UNCHANGED <<listed, trackedMap, owed>>

(* indexFiles: whatever paths the caller names.                            *)
BeginIndexFiles ==
    /\ \E S \in SUBSET Files : S # {} /\ Begin("indexFiles", "picking", S)
    /\ UNCHANGED <<listed, trackedMap, owed>>

(* sync: scanDirectory asks git, which still lists a file that is deleted  *)
(* but not staged; then all records are read.                              *)
BeginSync ==
    /\ Begin("sync", "removing", {f \in Files : Tracked(f)})
    /\ \E gone \in SUBSET {f \in Files : ~OnDisk(f) /\ Tracked(f)} :
          listed' = gone \cup {f \in Files : OnDisk(f)}
    /\ trackedMap' = record
    /\ owed' = "nothing"

(* The sync at the start of a server finds the lock file taken by another  *)
(* process.  It returns as if nothing had changed, and is not tried again. *)
StartIsRefused ==
    /\ owed = "start"
    /\ job # "none"
    /\ owed' = "unseen"
    /\ UNCHANGED <<disk, edits, torn, dbVars, jobVars, crashes>>

(* Removals: a tracked file that is not listed, or not there any more.     *)
Remove(f) ==
    /\ phase = "removing"
    /\ f \in todo
    /\ todo' = todo \ {f}
    /\ \/ /\ f \notin listed \/ ~OnDisk(f)
          /\ record' = [record EXCEPT ![f] = NoRecord]
          /\ rows' = [rows EXCEPT ![f] = {}]
          /\ cut' = [cut EXCEPT ![f] = {}]
       \/ f \in listed /\ OnDisk(f) /\ UNCHANGED dbVars
    /\ UNCHANGED <<diskVars, job, phase, listed, trackedMap, current, crashes>>

RemovalsDone ==
    /\ phase = "removing"
    /\ todo = {}
    /\ phase' = "checking"
    /\ todo' = listed
    /\ listed' = {}
    /\ UNCHANGED <<diskVars, dbVars, job, trackedMap, current, crashes>>

\* Mutation: a file without a record is not taken for a new one.
ChangedTrackedOnly(f) ==
    /\ OnDisk(f)
    /\ InMap(f) /\ disk[f].mtime # trackedMap[f].mtime

\* The pre-filter on (size, mtime), then the hash.
Changed(f) ==
    /\ OnDisk(f)
    /\ InMap(f) => /\ disk[f].mtime # trackedMap[f].mtime
                   /\ disk[f].content # trackedMap[f].content

(* Adds and modifications: listed becomes filesToIndex.                    *)
Check(f) ==
    /\ phase = "checking"
    /\ f \in todo
    /\ todo' = todo \ {f}
    /\ listed' = IF Changed(f) THEN listed \cup {f} ELSE listed
    /\ UNCHANGED <<diskVars, dbVars, job, phase, trackedMap, current, crashes>>

ChecksDone ==
    /\ phase = "checking"
    /\ todo = {}
    /\ phase' = "picking"
    /\ todo' = listed
    /\ listed' = {}
    /\ trackedMap' = [f \in Files |-> NoRecord]
    /\ UNCHANGED <<diskVars, dbVars, job, current, crashes>>
-----------------------------------------------------------------------------
(* The next file of the loop; indexing goes on when one fails.             *)
Pick(f) ==
    /\ phase = "picking"
    /\ f \in todo
    /\ todo' = todo \ {f}
    /\ phase' = "reading"
    /\ current' = [file |-> f, content |-> NoContent, mtime |-> 0]
    /\ UNCHANGED <<diskVars, dbVars, job, listed, trackedMap, crashes>>

File == current.file

ReadContent == current' = [current EXCEPT !.content = disk[File].content]
ReadStat    == current' = [current EXCEPT !.mtime = disk[File].mtime]

\* Mutation: indexFile reads in the batch reader's order.
ReadFirstContent ==
    /\ phase = "reading"
    /\ \/ OnDisk(File) /\ phase' = "reading2" /\ ReadContent
       \/ ~OnDisk(File) /\ phase' = "picking" /\ UNCHANGED current
    /\ UNCHANGED <<diskVars, dbVars, job, todo, listed, trackedMap, crashes>>

(* The batch reader of indexAll awaits readFile and then stat; indexFile   *)
(* awaits stat and then readFile.  A file that is gone is an error.        *)
ReadFirst ==
    /\ phase = "reading"
    /\ \/ OnDisk(File) /\ phase' = "reading2" /\
          (IF job = "indexAll" THEN ReadContent ELSE ReadStat)
       \/ ~OnDisk(File) /\ phase' = "picking" /\ UNCHANGED current
    /\ UNCHANGED <<diskVars, dbVars, job, todo, listed, trackedMap, crashes>>

\* The part that is still missing.
ReadSecond ==
    /\ phase = "reading2"
    /\ \/ OnDisk(File) /\ phase' = "storing" /\
          (IF current.content = NoContent THEN ReadContent ELSE ReadStat)
       \/ ~OnDisk(File) /\ phase' = "picking" /\ UNCHANGED current
    /\ torn' = IF job = "indexAll" /\ OnDisk(File) /\ disk[File].content # current.content
               THEN torn \cup {File} ELSE torn
    /\ UNCHANGED <<disk, edits, owed, dbVars, job, todo, listed, trackedMap, crashes>>

\* Mutation: the rows of the file's former content are left in place.
ReplaceWithoutDelete ==
    /\ phase = "storing"
    /\ LET same == current.content = record[File].content
           skip == current.content \in Unparseable \/ same
       IN  \/ skip /\ phase' = "picking"
           \/ ~skip /\ phase' = "nodes"
    /\ UNCHANGED <<dbVars, diskVars, job, todo, listed, trackedMap, current, crashes>>

(* Extraction, and the first half of storeExtractionResult: nothing is     *)
(* stored for a content that gives only errors, or that the record already *)
(* has; otherwise deleteFile drops the record and, by cascade, all rows.   *)
Replace ==
    /\ phase = "storing"
    /\ LET same == current.content = record[File].content
           skip == current.content \in Unparseable \/ same
       IN  \/ skip /\ phase' = "picking" /\ UNCHANGED dbVars
           \/ /\ ~skip
              /\ phase' = "nodes"
              /\ \/ /\ Tracked(File)
                    /\ record' = [record EXCEPT ![File] = NoRecord]
                    /\ rows' = [rows EXCEPT ![File] = {}]
                    /\ cut' = [cut EXCEPT ![File] = {}]
                 \/ ~Tracked(File) /\ UNCHANGED dbVars
    /\ UNCHANGED <<diskVars, job, todo, listed, trackedMap, current, crashes>>

(* insertNodes: INSERT OR REPLACE, and a node that is replaced takes the   *)
(* edges and references that hang on it along.                             *)
InsertNodes ==
    /\ phase = "nodes"
    /\ phase' = "edges"
    /\ rows' = [rows EXCEPT ![File] =
                   (@ \ ({current.content} \X Tables)) \cup {<<current.content, "nodes">>}]
    /\ UNCHANGED <<diskVars, record, cut, job, todo, listed, trackedMap, current, crashes>>

InsertLinks(from, table, to) ==
    /\ phase = from
    /\ phase' = to
    /\ rows' = [rows EXCEPT ![File] = @ \cup {<<current.content, table>>}]
    /\ UNCHANGED <<diskVars, record, cut, job, todo, listed, trackedMap, current, crashes>>

\* Mutation: the record is written before the references.
InsertEdgesThenRecord ==
    /\ phase = "edges"
    /\ phase' = "refs"
    /\ rows' = [rows EXCEPT ![File] = @ \cup {<<current.content, "edges">>}]
    /\ record' = [record EXCEPT ![File] = [content |-> current.content, mtime |-> current.mtime]]
    /\ UNCHANGED <<diskVars, cut, job, todo, listed, trackedMap, current, crashes>>

InsertEdges == InsertLinks("edges", "edges", "refs")
InsertRefs  == InsertLinks("refs", "refs", "upsert")

(* upsertFile comes last. *)
UpsertFile ==
    /\ phase = "upsert"
    /\ phase' = "picking"
    /\ record' = [record EXCEPT ![File] = [content |-> current.content, mtime |-> current.mtime]]
    /\ UNCHANGED <<diskVars, rows, cut, job, todo, listed, trackedMap, current, crashes>>

\* Mutation: the next file of the loop is never fetched.
EndWithLeftovers ==
    /\ phase = "picking"
    /\ job' = "none"
    /\ phase' = "idle"
    /\ todo' = {}
    /\ current' = Nothing
    /\ UNCHANGED <<diskVars, dbVars, listed, trackedMap, crashes>>

(* The job returns its result. *)
End ==
    /\ phase = "picking"
    /\ todo = {}
    /\ job' = "none"
    /\ phase' = "idle"
    /\ current' = Nothing
    /\ UNCHANGED <<diskVars, dbVars, todo, listed, trackedMap, crashes>>

(* The process dies, the caller aborts, or a statement throws.  The        *)
(* watcher calls a sync that failed again, and a server that died syncs    *)
(* when it starts again; of a job of another process that died nobody      *)
(* learns, unless a sync is owed anyway.                                   *)
Crash ==
    /\ job # "none"
    /\ crashes < MaxCrashes
    /\ crashes' = crashes + 1
    /\ job' = "none"
    /\ phase' = "idle"
    /\ todo' = {}
    /\ listed' = {}
    /\ trackedMap' = [f \in Files |-> NoRecord]
    /\ current' = Nothing
    /\ owed' \in CASE owed = "start" -> {"start"}
                    [] owed = "sync"  -> {"sync", "start"}
                    [] OTHER          -> {"sync", "start", "unseen"}
    /\ cut' = IF phase \in {"edges", "refs", "upsert"}
              THEN [cut EXCEPT ![File] = @ \cup {current.content}] ELSE cut
    /\ UNCHANGED <<disk, edits, torn, record, rows>>
-----------------------------------------------------------------------------
Store == Replace \/ InsertNodes \/ InsertEdges \/ InsertRefs \/ UpsertFile

Step ==
    \/ \E f \in Files : Remove(f) \/ Check(f) \/ Pick(f)
    \/ RemovalsDone \/ ChecksDone \/ ReadFirst \/ ReadSecond
    \/ Store \/ End

Next ==
    \/ \E f \in Files : Edit(f)
    \/ BeginIndexAll \/ BeginIndexFiles \/ BeginSync \/ StartIsRefused
    \/ Step \/ Crash

Spec == Init /\ [][Next]_vars

(* A job runs to its end.  A sync that is owed begins at last, though      *)
(* others may run first: the mutex serves the calls of a process in turn,  *)
(* the watcher comes again when another process has the file lock, and a   *)
(* server starts some day, but what it does then may be refused.  Nothing  *)
(* makes a sync begin that nobody owes.                                    *)
BeginOwedSync == owed \in {"sync", "start"} /\ BeginSync

FairSpec == Spec /\ WF_vars(Step) /\ SF_vars(BeginOwedSync)
-----------------------------------------------------------------------------
RecordRows(f) == IF Tracked(f) THEN {record[f].content} \X Tables ELSE {}

(* No row of a file is missing, and none is of another content but those   *)
(* of stores that were cut short: without a record there is nothing that   *)
(* deleteFile would be called for, so they stay until the file has one and *)
(* is stored or removed again.                                             *)
RowsMatchRecord(f) ==
    /\ RecordRows(f) \subseteq rows[f]
    /\ rows[f] \subseteq RecordRows(f) \cup (cut[f] \X Tables)

(* The record names what is on disk.  It does not, and no sync sees to it, *)
(* when nothing is stored for what is there now, or when indexAll has read *)
(* its stat after an earlier content.                                      *)
RecordIsCurrent(f) ==
    \/ record[f].content = disk[f].content
    \/ disk[f].content \in Unparseable
    \/ f \in torn /\ Tracked(f)

UpToDate(f) == RecordIsCurrent(f) /\ RowsMatchRecord(f)

(* The record is the commit point of a file: when it names a content, the  *)
(* rows of that content are all there, wherever the process died.          *)
RecordImpliesRows ==
    \A f \in Files : Tracked(f) => {record[f].content} \X Tables \subseteq rows[f]

(* What sync's comment relies on: "an already-indexed file whose size AND  *)
(* mtime both match the DB is unchanged".                                  *)
MatchingStatMeansUnchanged ==
    \A f \in Files :
        Tracked(f) /\ OnDisk(f) /\ record[f].mtime = disk[f].mtime =>
            record[f].content = disk[f].content

(* That the pre-filter is right except for one race: only a change between *)
(* the two reads of indexAll's batch reader makes a matching stat lie, and *)
(* only until the file changes again.                                      *)
OnlyTornReadsDeceive ==
    \A f \in Files \ torn :
        Tracked(f) /\ OnDisk(f) /\ record[f].mtime = disk[f].mtime =>
            record[f].content = disk[f].content

(* Between jobs the rows of a file are those of its record and of stores   *)
(* that were cut short: no other symbol of an earlier content survives.    *)
OnlyCutStoresLeaveGhosts == job = "none" => \A f \in Files : RowsMatchRecord(f)

(* The file tables between any two transactions: records, rows and stats   *)
(* agree as far as stores cut short and torn reads let them.               *)
TablesAreConsistent ==
    TypeOK /\ RecordImpliesRows /\ OnlyTornReadsDeceive /\ OnlyCutStoresLeaveGhosts

(* A sync during which nothing changed on disk leaves the records as the   *)
(* files are on disk, and the rows as the records say, whatever jobs,      *)
(* crashes and edits came before it.  Three things it does not repair, and *)
(* UpToDate names them: the rows that a store cut short left when the file *)
(* changed before the next store (cut), a file for whose content nothing   *)
(* is stored, which keeps its earlier rows (Unparseable), and a torn read. *)
SyncIsComplete ==
    [][job = "sync" /\ job' = "none" /\ crashes' = crashes /\ owed = "nothing"
         => \A f \in Files : UpToDate(f)]_vars

(* Once the disk is quiet the index comes to that state and stays there,   *)
(* unless the job of another process died and nobody learnt of it, or the  *)
(* only sync that was to come was refused at the start of a server.        *)
SyncConverges == <>[](owed = "unseen" \/ \A f \in Files : UpToDate(f))
=============================================================================
