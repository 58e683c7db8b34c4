-------------------------- MODULE StalenessSignal ---------------------------
(***************************************************************************)
(* What an agent may rely on when it reads the index beside a list of      *)
(* pending files (getPendingFiles in src/src/sync/watcher.ts): a file      *)
(* whose edit has been reported is on the list until the index has it, or  *)
(* the indexer has refused it.  A file can be out of date off the list     *)
(* only while the edit has not been reported to a watcher that lists it,   *)
(* or when nothing of its present contents can be indexed.                 *)
(***************************************************************************)
CONSTANT Files

VARIABLES
    lagging,      \* files the index has not caught up with
    refused,      \* files the indexer has met as they are and not indexed
    unreported,   \* files an edit of which may not have been reported
    flagged       \* files on the list

vars == <<lagging, refused, unreported, flagged>>

Init ==
    /\ lagging \subseteq Files
    /\ refused = {}
    /\ unreported = Files
    /\ flagged = {}

Edit(f) ==
    /\ lagging' \in {lagging \cup {f}, lagging \ {f}}
    /\ refused' = refused \ {f}
    /\ unreported' = unreported \cup {f}
    /\ UNCHANGED flagged

Report(f) ==
    /\ flagged' = flagged \cup {f}
    /\ unreported' = unreported \ {f}
    /\ UNCHANGED <<lagging, refused>>

\* The indexer has met some files: S is indexed, R refused.
CatchUp(S, R) ==
    /\ lagging' = lagging \ S
    /\ refused' = (refused \ S) \cup R
    /\ UNCHANGED <<unreported, flagged>>

\* Only a file that is up to date, refused, or edited again unnoticed, is
\* taken off.
Unflag(S) ==
    /\ S \cap lagging \subseteq unreported \cup refused
    /\ flagged' = flagged \ S
    /\ UNCHANGED <<lagging, refused, unreported>>

\* Nobody watches: the list says nothing any more.
LookAway ==
    /\ flagged' = {}
    /\ unreported' = Files
    /\ UNCHANGED <<lagging, refused>>

Next ==
    \/ \E f \in Files : Edit(f) \/ Report(f)
    \/ \E S, R \in SUBSET Files : CatchUp(S, R)
    \/ \E S \in SUBSET Files : Unflag(S)
    \/ LookAway

Spec == Init /\ [][Next]_vars

(* Off the list and reported means up to date, or refused.                 *)
SignalIsSound == lagging \subseteq flagged \cup unreported \cup refused
=============================================================================
