----------------------------- MODULE MCHistory ------------------------------
(***************************************************************************)
(* Small instances of History and LiveTail for TLC.  They share no         *)
(* variable: `part` explores one at a time.                                *)
(***************************************************************************)
EXTENDS History, LiveTail

VARIABLE part

Init == HistoryInit /\ TailInit /\ part \in {"pages", "tail"}
        /\ (part = "tail" => kind = [i \in Ids |-> "start"])

Next ==
  \/ part = "pages" /\ HistoryNext /\ UNCHANGED <<tvars, part>>
  \/ part = "tail" /\ TailNext /\ UNCHANGED <<kvars, part>>

Spec == Init /\ [][Next]_<<kvars, tvars, part>> /\ TailFairness
=============================================================================
