------------------------------ MODULE MCUpkeep ------------------------------
(***************************************************************************)
(* Small instances of Sessions and Retention for TLC.  The two share no    *)
(* variable, so the product of their behaviours holds nothing that their   *)
(* own behaviours do not: `part` explores one at a time, and two sides of  *)
(* Retention apart.                                                        *)
(***************************************************************************)
EXTENDS Sessions, Retention, TLC

VARIABLE part

TwoTables == <<"pings", "audit">>

Init ==
  /\ SessionsInit /\ RetentionInit
  /\ part \in {"sessions", "rows", "trail"}
  /\ part # "sessions" => \A s \in Sessions : ~sess[s].live

Next ==
  \/ part = "sessions" /\ SessionsNext /\ UNCHANGED <<rvars, part>>
  \/ part # "sessions" /\ RetentionNext /\ UNCHANGED <<svars, part>>

Spec == Init /\ [][Next]_<<svars, rvars, part>>

\* "rows": a pass meets rows and one save, under way with it or days
\* before.  "trail": saves
\* meet each other and a pass meets the entries they leave, without other rows.  Days out
\* of range are tried for the rows of one table.
Bounds ==
  /\ part = "rows" =>
       /\ \A a \in Admins : save[a].form["audit"] <= MaxDays
       /\ \E a \in Admins : \A b \in Admins \ {a} : save[b].pc = "idle"
       /\ day = (IF pass.pc = "sleep" THEN 0 ELSE LastDay) \/ \A a \in Admins : save[a].pc = "idle"
       /\ \A k \in Keys : last[k].clean /\ rows[k] < LastDay
  /\ part = "trail" =>
       /\ \A a \in Admins, k \in Keys : save[a].form[k] <= MaxDays
       /\ \A k \in Keys : rows[k] = None
       /\ pass.pc # "sleep" \/ day > 0 =>
            \E a \in Admins : \A b \in Admins \ {a} : save[b].pc = "idle"

Symmetry == Permutations(Admins)
=============================================================================
