----------------------------- MODULE MCAccounts ------------------------------
(* A small instance of Accounts for TLC. *)
EXTENDS Accounts, TLC

Symmetry == Permutations(Users) \cup Permutations(Sessions) \cup Permutations(Handlers)

\* Keys meet only the deletion of their user, one handler of one step: what follows a
\* state with a key is explored for one request in flight, not for two.
KeysApart ==
  (\E k \in Keys : key[k] # None) => Cardinality({h \in Handlers : req[h].pc # "idle"}) <= 1
=============================================================================
