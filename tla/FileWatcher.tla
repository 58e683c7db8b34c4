---------------------------- MODULE FileWatcher -----------------------------
(***************************************************************************)
(* The FileWatcher of src/src/sync/watcher.ts with the syncFn that         *)
(* CodeGraph.watch gives it, and the part of ExtractionOrchestrator.sync   *)
(* that decides which contents reach the index.                            *)
(*                                                                         *)
(* Not every content does.  A file that cannot be read is skipped, and of  *)
(* one that is too large, in no supported language, or that yields errors  *)
(* and no node, nothing is stored: the rows of the earlier content stay,   *)
(* sync succeeds all the same, and the watcher takes the file off its      *)
(* list.  `refused` remembers these files; what the code promises of the   *)
(* others is stated with that exception.                                   *)
(*                                                                         *)
(* The contents of a file is a version number; 0 is a file that is not     *)
(* there.  The wall clock is abstracted to what flush compares: whether an *)
(* entry of pendingFiles was last seen at or before the start of the sync  *)
(* in flight ("before") or after it ("after").                             *)
(*                                                                         *)
(* chokidar is external: every change of a watched file is followed by at  *)
(* least one event, delivered at any later time, and several changes may   *)
(* share one; the initial crawl reports the files that are there; `ready`  *)
(* may come before the last of these reports.                              *)
(***************************************************************************)
EXTENDS Naturals, FiniteSets

CONSTANTS
    Files,
    MaxEdits,       \* bound: changes on disk
    MaxFailures,    \* bound: syncs that fail or do not get the file lock
    CoarseClock     \* an event during a sync may carry the ms it began in

ASSUME FileWatcherAssumption ==
    /\ MaxEdits \in Nat
    /\ MaxFailures \in Nat
    /\ CoarseClock \in BOOLEAN

VARIABLES
    disk,           \* the version of each file on disk
    index,          \* the version of each file in the database
    refused,        \* files whose present version a sync has met and stored
                    \* nothing of (auxiliary)
    edits,          \* changes so far
    undelivered,    \* files chokidar has still to report
    preReady,       \* files not reported since `ready` (auxiliary)
    active,         \* started and not stopped
    chokidarReady,
    pendingFiles,   \* "none", or when the file was last seen
    debounceTimer,  \* is the timer armed?
    syncPhase,      \* where flush stands; `syncing` is syncPhase # "idle"
    filesToIndex,   \* what the running sync has still to index
    failures        \* failed syncs so far

disks   == <<disk, edits>>
indexed == <<index, refused>>
signals == <<undelivered, preReady, chokidarReady>>
vars == <<disk, index, refused, edits, undelivered, preReady, active, chokidarReady,
          pendingFiles, debounceTimer, syncPhase, filesToIndex, failures>>

Absent == 0
syncing == syncPhase # "idle"

TypeOK ==
    /\ disk \in [Files -> Nat]
    /\ index \in [Files -> Nat]
    /\ refused \subseteq Files
    /\ edits \in 0 .. MaxEdits
    /\ undelivered \subseteq Files
    /\ preReady \subseteq Files
    /\ active \in BOOLEAN
    /\ chokidarReady \in BOOLEAN
    /\ pendingFiles \in [Files -> {"none", "before", "after"}]
    /\ debounceTimer \in BOOLEAN
    /\ syncPhase \in {"idle", "acquiring", "indexing"}
    /\ filesToIndex \subseteq Files
    /\ syncPhase # "indexing" => filesToIndex = {}
    /\ failures \in 0 .. MaxFailures

\* The watcher may be started on an index of any age.
Init ==
    /\ disk = [f \in Files |-> 1]
    /\ index \in [Files -> {Absent, 1}]
    /\ refused = {}
    /\ edits = 0
    /\ undelivered = {}
    /\ preReady = Files
    /\ active = FALSE
    /\ chokidarReady = FALSE
    /\ pendingFiles = [f \in Files |-> "none"]
    /\ debounceTimer = FALSE
    /\ syncPhase = "idle"
    /\ filesToIndex = {}
    /\ failures = 0

Pending == {f \in Files : pendingFiles[f] # "none"}
-----------------------------------------------------------------------------
(* A file is written, created or deleted.  Nobody sees it while no watcher *)
(* is running.                                                             *)
Edit(f) ==
    /\ edits < MaxEdits
    /\ edits' = edits + 1
    /\ \E v \in {Absent, edits + 2} :
          /\ v # disk[f]
          /\ disk' = [disk EXCEPT ![f] = v]
    /\ undelivered' = IF active THEN undelivered \cup {f} ELSE undelivered
    /\ refused' = refused \ {f}
    /\ UNCHANGED <<index, preReady, active, chokidarReady, pendingFiles,
                   debounceTimer, syncPhase, filesToIndex, failures>>

(* start: a new chokidar instance crawls the tree.                         *)
Start ==
    /\ ~active
    /\ active' = TRUE
    /\ undelivered' = {f \in Files : disk[f] # Absent}
    /\ preReady' = Files
    /\ UNCHANGED <<disks, indexed, chokidarReady, pendingFiles,
                   debounceTimer, syncPhase, filesToIndex, failures>>

(* A file that is gone before the crawl reaches it is never reported.      *)
CrawlMisses(f) ==
    /\ active /\ ~chokidarReady
    /\ f \in undelivered
    /\ disk[f] = Absent
    /\ undelivered' = undelivered \ {f}
    /\ UNCHANGED <<disks, indexed, preReady, active, chokidarReady, pendingFiles,
                   debounceTimer, syncPhase, filesToIndex, failures>>

(* chokidar's `ready` event. *)
Ready ==
    /\ active /\ ~chokidarReady
    /\ chokidarReady' = TRUE
    /\ pendingFiles' = [f \in Files |-> "none"]
    /\ UNCHANGED <<disks, indexed, undelivered, preReady, active,
                   debounceTimer, syncPhase, filesToIndex, failures>>

\* An event is stamped with the current ms.
Stamps == IF ~syncing THEN {"before"}
          ELSE IF CoarseClock THEN {"before", "after"} ELSE {"after"}

(* Mutation: a file already on the list keeps the time it was first seen.  *)
OnAllKeepsFirstSeen(f) ==
    /\ active
    /\ f \in undelivered
    /\ undelivered' = undelivered \ {f}
    /\ IF chokidarReady
       THEN /\ \E s \in Stamps :
                  pendingFiles' = [pendingFiles EXCEPT ![f] = IF @ = "none" THEN s ELSE @]
            /\ preReady' = preReady \ {f}
       ELSE /\ preReady' = preReady \cup {f}
            /\ UNCHANGED pendingFiles
    /\ debounceTimer' = TRUE
    /\ UNCHANGED <<disks, indexed, active, chokidarReady, syncPhase, filesToIndex, failures>>

(* The handler of chokidar's 'all' event, for a source file: list the file *)
(* once the crawl is over, and (re)arm the debounce timer in any case.     *)
OnAll(f) ==
    /\ active
    /\ f \in undelivered
    /\ undelivered' = undelivered \ {f}
    /\ \/ /\ chokidarReady
          /\ \E s \in Stamps : pendingFiles' = [pendingFiles EXCEPT ![f] = s]
          /\ preReady' = preReady \ {f}
       \/ /\ ~chokidarReady
          /\ preReady' = preReady \cup {f}
          /\ UNCHANGED pendingFiles
    /\ debounceTimer' = TRUE
    /\ UNCHANGED <<disks, indexed, active, chokidarReady, syncPhase, filesToIndex, failures>>

(* stop: a sync in flight goes on.                                         *)
Stop ==
    /\ active
    /\ active' = FALSE
    /\ debounceTimer' = FALSE
    /\ pendingFiles' = [f \in Files |-> "none"]
    /\ chokidarReady' = FALSE
    /\ undelivered' = {}
    /\ preReady' = Files
    /\ UNCHANGED <<disks, indexed, syncPhase, filesToIndex, failures>>
-----------------------------------------------------------------------------
(* The debounce timer fires while a sync runs: flush returns at once.      *)
FlushWhileSyncing ==
    /\ debounceTimer /\ syncing
    /\ debounceTimer' = FALSE
    /\ UNCHANGED <<disks, indexed, signals, active, pendingFiles, syncPhase,
                   filesToIndex, failures>>

(* The timer fires and flush takes the time and calls syncFn, which waits  *)
(* for the mutex and then tries the file lock.  Everything listed by now   *)
(* was last seen at or before this moment.                                 *)
Flush ==
    /\ debounceTimer /\ ~syncing
    /\ debounceTimer' = FALSE
    /\ syncPhase' = "acquiring"
    /\ pendingFiles' = [f \in Files |->
                           IF pendingFiles[f] = "none" THEN "none" ELSE "before"]
    /\ UNCHANGED <<disks, indexed, signals, active, filesToIndex, failures>>

(* orchestrator.sync, up to its first await after the scan: deleted files  *)
(* leave the index, and the files whose contents differ are to be indexed, *)
(* but for those that cannot be read.                                      *)
Scan ==
    /\ syncPhase = "acquiring"
    /\ syncPhase' = "indexing"
    /\ LET changed == {f \in Files : disk[f] # index[f] /\ disk[f] # Absent}
       IN  \E unreadable \in SUBSET changed :
              /\ filesToIndex' = changed \ unreadable
              /\ refused' = refused \cup unreadable
    /\ index' = [f \in Files |-> IF disk[f] = Absent THEN Absent ELSE index[f]]
    /\ UNCHANGED <<disks, signals, active, pendingFiles, debounceTimer, failures>>

(* indexFile reads the file as it is by now.  When it cannot, or nothing   *)
(* of the file is stored, the index keeps what it has; that is at most a   *)
(* warning or an error in the result, which sync does not look at.         *)
IndexFile(f) ==
    /\ syncPhase = "indexing"
    /\ f \in filesToIndex
    /\ filesToIndex' = filesToIndex \ {f}
    /\ \/ disk[f] = Absent /\ UNCHANGED indexed
       \/ /\ disk[f] # Absent
          /\ \/ index' = [index EXCEPT ![f] = disk[f]] /\ refused' = refused \ {f}
             \/ refused' = refused \cup {f} /\ UNCHANGED index
    /\ UNCHANGED <<disks, signals, active, pendingFiles, debounceTimer, syncPhase, failures>>

\* The finally block: another pass when something is still listed.
FinallyWith(pending) ==
    /\ syncPhase' = "idle"
    /\ debounceTimer' = (debounceTimer \/ (active /\ \E f \in Files : pending[f] # "none"))

(* Mutation: the whole list is cleared, late events included.              *)
SyncDoneClearsAll ==
    /\ syncPhase = "indexing"
    /\ filesToIndex = {}
    /\ pendingFiles' = [f \in Files |-> "none"]
    /\ FinallyWith(pendingFiles')
    /\ UNCHANGED <<disks, indexed, signals, active, filesToIndex, failures>>

(* Mutation: entries that remain do not arm the timer again.               *)
SyncDoneNoReschedule ==
    /\ syncPhase = "indexing"
    /\ filesToIndex = {}
    /\ pendingFiles' = [f \in Files |->
                           IF pendingFiles[f] = "before" THEN "none" ELSE pendingFiles[f]]
    /\ syncPhase' = "idle"
    /\ UNCHANGED <<disks, indexed, signals, active, debounceTimer, filesToIndex, failures>>

(* syncFn resolves: what was last seen by its start is taken off the list. *)
SyncDone ==
    /\ syncPhase = "indexing"
    /\ filesToIndex = {}
    /\ pendingFiles' = [f \in Files |->
                           IF pendingFiles[f] = "before" THEN "none" ELSE pendingFiles[f]]
    /\ FinallyWith(pendingFiles')
    /\ UNCHANGED <<disks, indexed, signals, active, filesToIndex, failures>>

(* syncFn rejects: the file lock is taken (LockUnavailableError), or sync  *)
(* throws at any point.  The list is left alone.                           *)
SyncFails ==
    /\ syncing
    /\ failures < MaxFailures
    /\ failures' = failures + 1
    /\ filesToIndex' = {}
    /\ FinallyWith(pendingFiles)
    /\ UNCHANGED <<disks, indexed, signals, active, pendingFiles>>

(* Somebody else who has the lock brings a file up to date: an indexAll or *)
(* sync of the same CodeGraph, or of another process.                      *)
OtherSync(f) ==
    /\ syncPhase # "indexing"
    /\ index[f] # disk[f]
    /\ index' = [index EXCEPT ![f] = disk[f]]
    /\ refused' = refused \ {f}
    /\ UNCHANGED <<disks, signals, active, pendingFiles, debounceTimer, syncPhase,
                   filesToIndex, failures>>
-----------------------------------------------------------------------------
SyncStep == Scan \/ SyncDone \/ \E f \in Files : IndexFile(f)

Next ==
    \/ \E f \in Files : Edit(f) \/ CrawlMisses(f) \/ OnAll(f) \/ IndexFile(f) \/ OtherSync(f)
    \/ Start \/ Ready \/ Stop
    \/ FlushWhileSyncing \/ Flush
    \/ Scan \/ SyncDone \/ SyncFails

Spec == Init /\ [][Next]_vars

(* Timers fire, chokidar delivers, and a sync that was let in runs to its  *)
(* end.  Nothing obliges anybody to start, stop, edit or sync elsewhere.   *)
Fairness ==
    /\ WF_vars(Flush \/ FlushWhileSyncing)
    /\ WF_vars(SyncStep)
    /\ WF_vars(Ready)
    /\ \A f \in Files : WF_vars(OnAll(f) \/ CrawlMisses(f))

FairSpec == Spec /\ Fairness
-----------------------------------------------------------------------------
lagging == {f \in Files : index[f] # disk[f]}

(* The promise of getPendingFiles: a file whose last change was reported   *)
(* after `ready` and is not in the index is on the list, whatever edits,   *)
(* events, failed syncs and other writers came in between, unless a sync   *)
(* has met this very version and stored nothing of it.                     *)
NoSilentStaleness ==
    lagging \subseteq Pending \cup undelivered \cup preReady \cup refused

(* `indexing: true` promises that the sync in flight absorbs the edit: the *)
(* file is up to date by now, or refused as it is, or among those the sync *)
(* still has to index.                                                     *)
IndexingIsAbsorbing ==
    \A f \in lagging :
        syncPhase = "indexing" /\ pendingFiles[f] = "before" =>
            f \in filesToIndex \cup undelivered \cup refused

(* While anything is listed, a sync is running or on its way.              *)
PendingIsScheduled == Pending # {} => debounceTimer \/ syncing

(* What the list tells a client it can rely on: an edit is on it until it  *)
(* is indexed or refused, "indexing" means it is being looked at, and what *)
(* is listed is worked off.                                                *)
StalenessIsShown == NoSilentStaleness /\ IndexingIsAbsorbing /\ PendingIsScheduled

(* A reported edit is in the index sooner or later, or a sync has tried to *)
(* index it and extraction has stored nothing, although syncs fail, timers *)
(* fire during syncs and the file goes on changing.                        *)
ReportedEditIsIndexed ==
    \A f \in Files :
        (f \in lagging /\ active /\ f \notin preReady) ~>
            (f \notin lagging \/ f \in refused \/ ~active)

Signal == INSTANCE StalenessSignal
              WITH unreported <- undelivered \cup preReady, flagged <- Pending

(* The watcher's list implements the staleness signal. *)
ImplementsStalenessSignal == Signal!Spec
=============================================================================
