------------------------- MODULE MCExtractionStore --------------------------
(* Two files, two contents that parse and one that does not, which a file  *)
(* gets by an edit only.  Files and contents can be told apart by nothing  *)
(* but their names, so of initial states that differ in them one will do.  *)
EXTENDS ExtractionStore, TLC

first  == CHOOSE f \in Files : TRUE
second == CHOOSE f \in Files : f # first
plain  == CHOOSE c \in Contents : c \notin Unparseable

MCInit ==
    /\ Init
    /\ \A f \in Files : disk[f].content \notin Unparseable
    /\ disk[first].content \in {NoContent, plain}
    /\ disk[first].content = NoContent => disk[second].content \in {NoContent, plain}
    /\ disk[second].content = NoContent => disk[first].content = NoContent

MCSpec == MCInit /\ [][Next]_vars /\ WF_vars(Step) /\ SF_vars(BeginOwedSync)
=============================================================================
