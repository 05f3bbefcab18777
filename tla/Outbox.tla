------------------------------- MODULE Outbox -------------------------------
(***************************************************************************)
(* What notification delivery promises for one event and one channel, seen *)
(* from outside: the receiver may get several copies, but never more than  *)
(* MaxCopies; the notifications table gets at most one row; a row that     *)
(* says "ok" is never a lie; and nothing more is sent once the row is      *)
(* there.  Delivery implements it.                                         *)
(***************************************************************************)
EXTENDS Naturals

CONSTANTS Events, Channels, MaxCopies

VARIABLES
  copies,  \* per event and channel: copies that reached the receiver
  row      \* per event and channel: "none", "ok", "error", "pruned" by age, "gone" for good

vars == <<copies, row>>

Init ==
  /\ copies = [e \in Events |-> [c \in Channels |-> 0]]
  /\ row = [e \in Events |-> [c \in Channels |-> "none"]]

Arrive(e, c) ==
  /\ row[e][c] \in {"none", "gone"}
  /\ copies[e][c] < MaxCopies
  /\ copies' = [copies EXCEPT ![e][c] = @ + 1]
  /\ UNCHANGED row

Settle(e, c) ==
  /\ row[e][c] = "none"
  /\ \/ copies[e][c] > 0 /\ row' = [row EXCEPT ![e][c] = "ok"]
     \/ row' = [row EXCEPT ![e][c] = "error"]
  /\ UNCHANGED copies

\* A channel or the check is deleted, and its rows with it.
Forget(pairs) ==
  /\ row' = [e \in Events |-> [c \in Channels |-> IF <<e, c>> \in pairs THEN "gone" ELSE row[e][c]]]
  /\ UNCHANGED copies

\* Rows past their retention go; a row that was never there stays to be written.
Expire(pairs) ==
  /\ row' = [e \in Events |-> [c \in Channels |->
       IF <<e, c>> \in pairs /\ row[e][c] \in {"ok", "error"} THEN "pruned" ELSE row[e][c]]]
  /\ UNCHANGED copies

Next ==
  \/ \E e \in Events, c \in Channels : Arrive(e, c) \/ Settle(e, c)
  \/ \E pairs \in SUBSET (Events \X Channels) : Forget(pairs) \/ Expire(pairs)

Spec == Init /\ [][Next]_vars
=============================================================================
