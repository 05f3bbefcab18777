---------------------------- MODULE MCRateLimiter ----------------------------
(* A small instance of RateLimiter for TLC. *)
EXTENDS RateLimiter, TLC

Symmetry == Permutations(Attempts)

\* Bound: refunds to the shared bucket that it did not pay for.
FewLate == overflow.late <= 2 /\ \A k \in Keys : late[k] <= 2
=============================================================================
