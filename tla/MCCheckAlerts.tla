---------------------------- MODULE MCCheckAlerts ----------------------------
(* Small instances of CheckAlerts for TLC. *)
EXTENDS CheckAlerts, TLC

\* Everything is due one tick after what it counts from: the next ping, the end
\* of a run, a reminder.
Tight == [kind |-> "period", every |-> 1, grace |-> 0, max_runtime |-> 1, nag |-> 1]

\* The same with a tick of grace, and a cron expression that ticks on even ticks
\* for a check without max_runtime and without an interval of its own.
Graced == [Tight EXCEPT !.grace = 1]
Cron   == [kind |-> "cron", every |-> 2, grace |-> 0, max_runtime |-> 0, nag |-> 0]

\* The default: reminders are off.
NoNag == [Tight EXCEPT !.nag = 0]

TightOnly == {Tight}
Edited    == {Graced, Cron}
NoNagOnly == {NoNag}

\* The properties say nothing of a check once it is disturbed, and it stays so:
\* its later states need not be explored.
SomeUndisturbed == \E c \in Checks : ~disturbed[c]

Symmetry == Permutations(Requests)
=============================================================================
