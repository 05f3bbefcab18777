----------------------------- MODULE MCWorkspace -----------------------------
(* A small instance of Workspace for TLC. *)
EXTENDS Workspace, TLC

\* No guard reads `last`, and the properties that do are about single steps, which
\* TLC evaluates for every step it generates.
WithoutLast == <<rows, req, owed>>

\* Both instances have channels of one kind.
Symmetry ==
  Permutations(Users) \cup Permutations(Projects) \cup Permutations(Checks)
    \cup Permutations(Channels) \cup Permutations(Requests)
=============================================================================
