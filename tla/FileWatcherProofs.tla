------------------------- MODULE FileWatcherProofs --------------------------
(***************************************************************************)
(* What TLAPS proves of the FileWatcher, for every set of files and every  *)
(* number of edits and failures, when the clock ticks between the start of *)
(* a sync and the events that follow it.  Files that extraction stores     *)
(* nothing of are excepted by name: they are the ones in `refused`.        *)
(***************************************************************************)
EXTENDS FileWatcher, TLAPS

(* Nothing is listed, and everything counts as unreported, unless a        *)
(* watcher is running and past its crawl.                                  *)
BlindUntilReady ==
    /\ ~active => ~chokidarReady
    /\ ~chokidarReady => preReady = Files /\ Pending = {}

(* A file that is deleted between the scan and its turn is reported late.  *)
DeletedSinceScan ==
    \A f \in filesToIndex :
        disk[f] = Absent /\ pendingFiles[f] = "before" => f \in undelivered

\* Whoever deletes a refused file edits it.
RefusedIsThere == \A f \in refused : disk[f] # Absent

IInv ==
    /\ TypeOK
    /\ RefusedIsThere
    /\ BlindUntilReady
    /\ DeletedSinceScan
    /\ NoSilentStaleness
    /\ IndexingIsAbsorbing
    /\ PendingIsScheduled

USE FileWatcherAssumption DEF Absent

LEMMA InitIInv == Init => IInv
<1> SUFFICES ASSUME Init PROVE IInv
  OBVIOUS
<1>1. TypeOK
  <2>1. index \in [Files -> Nat] /\ refused \subseteq Files
    BY DEF Init
  <2>2. disk \in [Files -> Nat] /\ pendingFiles \in [Files -> {"none", "before", "after"}]
    BY DEF Init
  <2>3. edits \in 0 .. MaxEdits /\ failures \in 0 .. MaxFailures
    BY DEF Init
  <2> QED BY <2>1, <2>2, <2>3 DEF Init, TypeOK
<1>2. Pending = {}
  BY DEF Init, Pending
<1>3. RefusedIsThere /\ BlindUntilReady /\ DeletedSinceScan /\ PendingIsScheduled
  BY <1>2 DEF Init, RefusedIsThere, BlindUntilReady, DeletedSinceScan, PendingIsScheduled
<1>4. NoSilentStaleness
  <2>1. preReady = Files
    BY DEF Init
  <2> QED BY <2>1 DEF NoSilentStaleness, lagging
<1>5. IndexingIsAbsorbing
  BY DEF Init, IndexingIsAbsorbing
<1> QED BY <1>1, <1>3, <1>4, <1>5 DEF IInv

LEMMA NextTypeOK == TypeOK /\ [Next]_vars => TypeOK'
<1> SUFFICES ASSUME TypeOK, [Next]_vars PROVE TypeOK'
  OBVIOUS
<1> USE DEF TypeOK, disks, indexed, signals, syncing, FinallyWith
<1>1. ASSUME NEW f \in Files, Edit(f) PROVE TypeOK'
  BY <1>1 DEF Edit
<1>2. ASSUME NEW f \in Files, CrawlMisses(f) PROVE TypeOK'
  BY <1>2 DEF CrawlMisses
<1>3. ASSUME NEW f \in Files, OnAll(f) PROVE TypeOK'
  BY <1>3 DEF OnAll, Stamps
<1>4. ASSUME NEW f \in Files, IndexFile(f) PROVE TypeOK'
  BY <1>4 DEF IndexFile
<1>5. ASSUME NEW f \in Files, OtherSync(f) PROVE TypeOK'
  BY <1>5 DEF OtherSync
<1>6. CASE Start \/ Ready \/ Stop
  BY <1>6 DEF Start, Ready, Stop
<1>7. CASE Flush \/ FlushWhileSyncing
  BY <1>7 DEF Flush, FlushWhileSyncing
<1>8. CASE Scan
  BY <1>8 DEF Scan
<1>9. CASE SyncDone
  BY <1>9 DEF SyncDone
<1>10. CASE SyncFails
  BY <1>10 DEF SyncFails
<1>11. CASE UNCHANGED vars
  BY <1>11 DEF vars
<1> QED BY <1>1, <1>2, <1>3, <1>4, <1>5, <1>6, <1>7, <1>8, <1>9, <1>10, <1>11 DEF Next

(* The variables of the watcher keep their types in every behaviour.       *)
THEOREM FileWatcherTypeOK == Spec => []TypeOK
<1>1. Init => TypeOK
  BY InitIInv DEF IInv
<1> QED BY <1>1, NextTypeOK, PTL DEF Spec
-----------------------------------------------------------------------------
(* What the environment does: edits, chokidar's events, start and stop.    *)
LEMMA WorldStep ==
    ASSUME IInv, ~CoarseClock,
           \/ \E f \in Files : Edit(f) \/ CrawlMisses(f) \/ OnAll(f)
           \/ Start \/ Ready \/ Stop
    PROVE  /\ RefusedIsThere' /\ BlindUntilReady' /\ DeletedSinceScan' /\ NoSilentStaleness'
           /\ IndexingIsAbsorbing' /\ PendingIsScheduled'
<1> DEFINE Goal == /\ RefusedIsThere /\ BlindUntilReady /\ DeletedSinceScan /\ NoSilentStaleness
                   /\ IndexingIsAbsorbing /\ PendingIsScheduled
<1> USE DEF IInv, TypeOK, disks, indexed, signals, syncing, RefusedIsThere,
            BlindUntilReady, DeletedSinceScan, NoSilentStaleness, IndexingIsAbsorbing,
            PendingIsScheduled, lagging, Pending
<1>1. ASSUME NEW f \in Files, Edit(f) PROVE Goal'
  BY <1>1 DEF Edit
<1>2. ASSUME NEW f \in Files, CrawlMisses(f) PROVE Goal'
  BY <1>2 DEF CrawlMisses
<1>3. ASSUME NEW f \in Files, OnAll(f) PROVE Goal'
  BY <1>3 DEF OnAll, Stamps
<1>4. CASE Start
  BY <1>4 DEF Start
<1>5. CASE Ready
  BY <1>5 DEF Ready
<1>6. CASE Stop
  BY <1>6 DEF Stop
<1> QED BY <1>1, <1>2, <1>3, <1>4, <1>5, <1>6

(* What flush and sync do, and other writers of the index.                 *)
LEMMA SyncingStep ==
    ASSUME IInv,
           \/ \E f \in Files : IndexFile(f) \/ OtherSync(f)
           \/ FlushWhileSyncing \/ Flush \/ Scan \/ SyncDone \/ SyncFails
    PROVE  /\ RefusedIsThere' /\ BlindUntilReady' /\ DeletedSinceScan' /\ NoSilentStaleness'
           /\ IndexingIsAbsorbing' /\ PendingIsScheduled'
<1> DEFINE Goal == /\ RefusedIsThere /\ BlindUntilReady /\ DeletedSinceScan /\ NoSilentStaleness
                   /\ IndexingIsAbsorbing /\ PendingIsScheduled
<1> USE DEF IInv, TypeOK, disks, indexed, signals, syncing, RefusedIsThere,
            BlindUntilReady, DeletedSinceScan, NoSilentStaleness, IndexingIsAbsorbing,
            PendingIsScheduled, lagging, Pending
<1>1. ASSUME NEW f \in Files, IndexFile(f) PROVE Goal'
  BY <1>1 DEF IndexFile
<1>2. ASSUME NEW f \in Files, OtherSync(f) PROVE Goal'
  BY <1>2 DEF OtherSync
<1>3. CASE FlushWhileSyncing
  BY <1>3 DEF FlushWhileSyncing
<1>4. CASE Flush
  BY <1>4 DEF Flush
<1>5. CASE Scan
  BY <1>5 DEF Scan
<1>6. CASE SyncDone
  BY <1>6 DEF SyncDone, FinallyWith
<1>7. CASE SyncFails
  BY <1>7 DEF SyncFails, FinallyWith
<1> QED BY <1>1, <1>2, <1>3, <1>4, <1>5, <1>6, <1>7

LEMMA NextIInv ==
    ASSUME ~CoarseClock
    PROVE  IInv /\ [Next]_vars => IInv'
<1> SUFFICES ASSUME IInv, [Next]_vars PROVE IInv'
  OBVIOUS
<1>1. TypeOK'
  BY NextTypeOK DEF IInv
<1>2. CASE UNCHANGED vars
  BY <1>1, <1>2 DEF vars, IInv, RefusedIsThere, BlindUntilReady, DeletedSinceScan,
                    NoSilentStaleness, IndexingIsAbsorbing,
            PendingIsScheduled, lagging, Pending, syncing
<1>3. CASE Next
  BY <1>1, <1>3, WorldStep, SyncingStep DEF Next, IInv
<1> QED BY <1>2, <1>3

LEMMA SpecIInv ==
    ASSUME ~CoarseClock
    PROVE  Spec => []IInv
  BY InitIInv, NextIInv, PTL DEF Spec

(* A file whose last change was reported and is not in the index is on the *)
(* list of pending files, unless a sync has refused it as it is.           *)
THEOREM StalenessIsNeverSilent ==
    ASSUME ~CoarseClock
    PROVE  Spec => []NoSilentStaleness
<1>1. IInv => NoSilentStaleness
  BY DEF IInv
<1> QED BY <1>1, SpecIInv, PTL

(* A file shown as "indexing" is in the index or refused by the time the   *)
(* sync in flight is through with it.                                      *)
THEOREM IndexingMeansAbsorbing ==
    ASSUME ~CoarseClock
    PROVE  Spec => []IndexingIsAbsorbing
<1>1. IInv => IndexingIsAbsorbing
  BY DEF IInv
<1> QED BY <1>1, SpecIInv, PTL

(* Whatever is listed has a sync running or a timer armed.                 *)
THEOREM PendingWorkIsScheduled ==
    ASSUME ~CoarseClock
    PROVE  Spec => []PendingIsScheduled
<1>1. IInv => PendingIsScheduled
  BY DEF IInv
<1> QED BY <1>1, SpecIInv, PTL

(* StalenessIsShown: what getPendingFiles shows can be relied on, for any  *)
(* number of files, edits and failing syncs.                               *)
THEOREM StalenessIsAlwaysShown ==
    ASSUME ~CoarseClock
    PROVE  Spec => []StalenessIsShown
<1>1. IInv => StalenessIsShown
  BY DEF IInv, StalenessIsShown
<1> QED BY <1>1, SpecIInv, PTL

-----------------------------------------------------------------------------
(* The steps of the watcher as steps of the staleness signal.              *)
unseen == undelivered \cup preReady

LEMMA WorldRefines ==
    ASSUME IInv, IInv',
           \/ \E f \in Files : Edit(f) \/ CrawlMisses(f) \/ OnAll(f)
           \/ Start \/ Ready \/ Stop
    PROVE  [Signal!Next]_(Signal!vars)
<1> USE DEF IInv, TypeOK, disks, indexed, signals, BlindUntilReady, lagging, Pending, Signal!vars
<1>1. ASSUME NEW f \in Files, Edit(f) PROVE Signal!Edit(f)
  <2>1. lagging' \in {lagging \cup {f}, lagging \ {f}}
    <3>1. \A g \in Files \ {f} : index'[g] # disk'[g] <=> index[g] # disk[g]
      BY <1>1 DEF Edit
    <3> QED BY <3>1
  <2>2. unseen' = unseen \cup {f} /\ Pending' = Pending /\ refused' = refused \ {f}
    BY <1>1 DEF Edit, unseen
  <2> QED BY <2>1, <2>2 DEF Signal!Edit, unseen
<1>2. ASSUME NEW f \in Files, CrawlMisses(f) PROVE UNCHANGED Signal!vars
  BY <1>2 DEF CrawlMisses
<1>3. ASSUME NEW f \in Files, OnAll(f) PROVE [Signal!Next]_(Signal!vars)
  <2>1. CASE chokidarReady
    <3>1. Signal!Report(f)
      BY <1>3, <2>1 DEF OnAll, Stamps, Signal!Report
    <3> QED BY <3>1 DEF Signal!Next
  <2>2. CASE ~chokidarReady
    <3>1. UNCHANGED Signal!vars
      BY <1>3, <2>2 DEF OnAll
    <3> QED BY <3>1
  <2> QED BY <2>1, <2>2
<1>4. CASE Start
  <2>1. UNCHANGED Signal!vars
    BY <1>4 DEF Start
  <2> QED BY <2>1
<1>5. CASE Ready
  <2>1. UNCHANGED Signal!vars
    BY <1>5 DEF Ready
  <2> QED BY <2>1
<1>6. CASE Stop
  <2>1. Signal!LookAway
    BY <1>6 DEF Stop, Signal!LookAway
  <2> QED BY <2>1 DEF Signal!Next
<1>7. ASSUME NEW f \in Files, Edit(f) \/ CrawlMisses(f) PROVE [Signal!Next]_(Signal!vars)
  BY <1>1, <1>2, <1>7 DEF Signal!Next
<1> QED BY <1>3, <1>4, <1>5, <1>6, <1>7

LEMMA SyncingRefines ==
    ASSUME IInv,
           \/ \E f \in Files : IndexFile(f) \/ OtherSync(f)
           \/ FlushWhileSyncing \/ Flush \/ Scan \/ SyncDone \/ SyncFails
    PROVE  [Signal!Next]_(Signal!vars)
<1> USE DEF IInv, TypeOK, disks, indexed, signals, lagging, Pending, Signal!vars
<1>1. ASSUME NEW f \in Files, IndexFile(f) \/ OtherSync(f)
      PROVE  [Signal!Next]_(Signal!vars)
  <2>1. UNCHANGED <<disk, undelivered, preReady, pendingFiles>>
    BY <1>1 DEF IndexFile, OtherSync
  <2>2. CASE UNCHANGED indexed
    BY <2>1, <2>2
  <2>3. CASE index' = [index EXCEPT ![f] = disk[f]] /\ refused' = refused \ {f}
    <3>1. lagging' = lagging \ {f}
      BY <2>1, <2>3
    <3>2. Signal!CatchUp({f}, {})
      BY <2>1, <2>3, <3>1 DEF Signal!CatchUp
    <3> QED BY <3>2 DEF Signal!Next
  <2>4. CASE refused' = refused \cup {f} /\ UNCHANGED index
    <3>1. Signal!CatchUp({}, {f})
      BY <2>1, <2>4 DEF Signal!CatchUp
    <3> QED BY <3>1 DEF Signal!Next
  <2> QED BY <1>1, <2>2, <2>3, <2>4 DEF IndexFile, OtherSync
<1>2. CASE FlushWhileSyncing \/ Flush \/ SyncFails
  <2>1. UNCHANGED Signal!vars
    BY <1>2 DEF FlushWhileSyncing, Flush, SyncFails
  <2> QED BY <2>1
<1>3. CASE Scan
  <2>1. PICK S \in SUBSET Files : S = {f \in Files : disk[f] = Absent}
    OBVIOUS
  <2>2. PICK R \in SUBSET Files : R \cap S = {} /\ refused' = refused \cup R
    BY <1>3, <2>1 DEF Scan
  <2>3. /\ UNCHANGED <<disk, undelivered, preReady, pendingFiles>>
        /\ \A f \in Files : index'[f] = IF f \in S THEN disk[f] ELSE index[f]
    BY <1>3, <2>1 DEF Scan
  <2>4. lagging' = lagging \ S
    BY <2>1, <2>3
  <2>5. refused \ S = refused
    BY <2>1 DEF RefusedIsThere
  <2>6. Signal!CatchUp(S, R)
    BY <2>2, <2>3, <2>4, <2>5 DEF Signal!CatchUp
  <2>7. Signal!Next
    BY <2>6 DEF Signal!Next
  <2> QED BY <2>7
<1>4. CASE SyncDone
  <2>1. PICK S \in SUBSET Files : S = {f \in Files : pendingFiles[f] = "before"}
    OBVIOUS
  <2>2. S \cap lagging \subseteq undelivered \cup refused
    BY <1>4, <2>1 DEF SyncDone, IndexingIsAbsorbing
  <2>3. Pending' = Pending \ S
    BY <1>4, <2>1 DEF SyncDone
  <2>4. Signal!Unflag(S)
    BY <1>4, <2>2, <2>3 DEF SyncDone, Signal!Unflag
  <2>5. Signal!Next
    BY <2>4 DEF Signal!Next
  <2> QED BY <2>5
<1> QED BY <1>1, <1>2, <1>3, <1>4

(* getPendingFiles implements the staleness signal agents rely on.         *)
THEOREM WatcherImplementsStalenessSignal ==
    ASSUME ~CoarseClock
    PROVE  Spec => ImplementsStalenessSignal
<1>1. Init => Signal!Init
  BY DEF Init, Signal!Init, lagging, Pending
<1>2. IInv /\ IInv' /\ [Next]_vars => [Signal!Next]_(Signal!vars)
  <2>1. ASSUME UNCHANGED vars PROVE UNCHANGED Signal!vars
    BY <2>1 DEF vars, Signal!vars, lagging, Pending
  <2> QED BY <2>1, WorldRefines, SyncingRefines DEF Next
<1> QED BY <1>1, <1>2, SpecIInv, PTL DEF Spec, ImplementsStalenessSignal, Signal!Spec
=============================================================================
