------------------------------ MODULE Sessions ------------------------------
(***************************************************************************)
(* How long a session lives: the idle window that slides with use, the     *)
(* absolute cap, the sweeps (auth.rs, the session half of store.rs,        *)
(* prune_once).  A request takes its time, then reads the row, then writes *)
(* it: other requests, the sweeps and the clock run in between.  A row may *)
(* also come from an older build or a second instance with another idle    *)
(* window.  Who may open and end sessions is the subject of Accounts.      *)
(***************************************************************************)
EXTENDS Integers

CONSTANTS
  Sessions,    \* session rows
  Uses,        \* slots for requests that carry a session cookie
  Half,        \* half of SESSION_IDLE_TTL_HOURS
  Cap,         \* SESSION_ABSOLUTE_MAX_DAYS
  MaxStall,    \* bound: ticks a request may take to reach its UPDATE
  MaxExpiry,   \* bound: expiries written by another build
  LastTick     \* bound: the clock stops here

Idle == 2 * Half

\* The idle window is shorter than the cap, and no request hangs for half of it.
ASSUME WindowsAssumption ==
  /\ Half \in Nat \ {0} /\ Cap \in Nat /\ Idle <= Cap
  /\ MaxStall \in 0 .. Half
  /\ MaxExpiry \in Nat /\ LastTick \in Nat
ASSUME ASession == Sessions # {}

VARIABLES
  clock,
  sess,   \* the sessions table
  use     \* the requests under way

svars == <<clock, sess, use>>

Never == -1

\* Histories: `used`, the latest time with which a request was let in, Never if there was
\* none since this build runs; `came`, the expiry the row had when it was made.
Row == [live : BOOLEAN, created : Nat, expires : Nat, used : Nat \cup {Never}, came : Nat]
Use == [pc : {"idle", "read", "write"}, sess : Sessions, at : Nat, next : Nat]

NoRow == [live |-> FALSE, created |-> 0, expires |-> 0, used |-> Never, came |-> 0]
NoUse == [pc |-> "idle", sess |-> CHOOSE s \in Sessions : TRUE, at |-> 0, next |-> 0]

SessionsTypeOK ==
  /\ clock \in Nat
  /\ sess \in [Sessions -> Row]
  /\ use \in [Uses -> Use]

AtMost(a, b) == IF a < b THEN a ELSE b
AtLeast(a, b) == IF a > b THEN a ELSE b

SessionsInit ==
  /\ clock = 0
  /\ sess \in [Sessions -> {NoRow} \cup
                 {[NoRow EXCEPT !.live = TRUE, !.expires = x, !.came = x] : x \in 0 .. MaxExpiry}]
  /\ use = [u \in Uses |-> NoUse]

-----------------------------------------------------------------------------
CapOf(row) == row.created + Cap

is_past_absolute_cap(row, now) == now >= CapOf(row)

\* Mutant: renews at the last moment only.
RenewsLate(row, now) ==
  LET next == AtMost(now + Idle, CapOf(row))
  IN IF row.expires >= CapOf(row) THEN {}
     ELSE IF row.expires > next THEN {next}
     ELSE IF row.expires - now >= 1 THEN {} ELSE {next}

\* The expiry to write, if any.
refreshed_expiry(row, now) ==
  LET next == AtMost(now + Idle, CapOf(row))
  IN IF row.expires >= CapOf(row) THEN {}
     ELSE IF row.expires > next THEN {next}              \* clamped
     ELSE IF row.expires - now >= Half THEN {} ELSE {next}   \* slid

\* resolve_user takes the time, and with it a slot.
resolve_user(u, s) ==
  /\ use[u].pc = "idle"
  /\ use' = [use EXCEPT ![u] = [pc |-> "read", sess |-> s, at |-> clock, next |-> 0]]
  /\ UNCHANGED <<clock, sess>>

LetIn(row, t) == [row EXCEPT !.used = AtLeast(@, t)]

\* The SELECT and the check of the cap; a request that need not renew is through.
find_session_user(u) ==
  /\ use[u].pc = "read"
  /\ LET s == use[u].sess
         t == use[u].at
         found == sess[s].live /\ sess[s].expires > t /\ ~is_past_absolute_cap(sess[s], t)
         renewal == refreshed_expiry(sess[s], t)
     IN \/ ~found /\ use' = [use EXCEPT ![u] = NoUse] /\ UNCHANGED sess
        \/ /\ found /\ renewal = {}
           /\ use' = [use EXCEPT ![u] = NoUse]
           /\ sess' = [sess EXCEPT ![s] = LetIn(@, t)]
        \/ /\ found
           /\ \E x \in renewal : use' = [use EXCEPT ![u].pc = "write", ![u].next = x]
           /\ UNCHANGED sess
  /\ UNCHANGED clock

\* The UPDATE: it hits no row when the session is gone by now, and the request is let
\* in all the same; when it fails, the request is not.
Renew(u) ==
  /\ use[u].pc = "write"
  /\ LET s == use[u].sess
     IN sess' \in {sess,
                   IF sess[s].live
                   THEN [sess EXCEPT ![s] = [LetIn(@, use[u].at) EXCEPT !.expires = use[u].next]]
                   ELSE sess}
  /\ use' = [use EXCEPT ![u] = NoUse]
  /\ UNCHANGED clock

\* Session ids are random and never come back: only a row no request holds is reused.
open_session(s) ==
  /\ ~sess[s].live /\ \A u \in Uses : use[u].sess # s \/ use[u].pc = "idle"
  /\ sess' = [sess EXCEPT ![s] =
       [live |-> TRUE, created |-> clock, expires |-> clock + Idle, used |-> clock,
        came |-> clock + Idle]]
  /\ UNCHANGED <<clock, use>>

\* Mutant: sweeps what is past its half-life.
SweepsStale(row, t) == row.expires <= t + Half \/ is_past_absolute_cap(row, t)

\* What delete_expired_sessions deletes.
Expired(row, t) == row.expires <= t \/ is_past_absolute_cap(row, t)

\* The sweep of a prune pass that began at t.
delete_expired_sessions(t) ==
  /\ sess' = [s \in Sessions |-> IF sess[s].live /\ Expired(sess[s], t) THEN NoRow ELSE sess[s]]
  /\ UNCHANGED <<clock, use>>

\* The account page deletes the capped rows of its user before it lists them.
delete_capped_sessions_for_user(ss) ==
  /\ sess' = [s \in Sessions |-> IF s \in ss /\ sess[s].live /\ is_past_absolute_cap(sess[s], clock)
                                 THEN NoRow ELSE sess[s]]
  /\ UNCHANGED <<clock, use>>

\* Logout, revocation: see Accounts.
EndSession(s) ==
  /\ sess[s].live
  /\ sess' = [sess EXCEPT ![s] = NoRow]
  /\ UNCHANGED <<clock, use>>

Tick ==
  /\ clock < LastTick
  /\ \A u \in Uses : use[u].pc # "idle" => clock < use[u].at + MaxStall
  /\ clock' = clock + 1
  /\ UNCHANGED <<sess, use>>

UseNext(u) == (\E s \in Sessions : resolve_user(u, s)) \/ find_session_user(u) \/ Renew(u)

SweepNext ==
  \/ \E t \in 0 .. clock : delete_expired_sessions(t)
  \/ \E ss \in SUBSET Sessions : delete_capped_sessions_for_user(ss)

SessionsNext ==
  \/ \E u \in Uses : UseNext(u)
  \/ \E s \in Sessions : open_session(s) \/ EndSession(s)
  \/ SweepNext \/ Tick

SessionsSpec == SessionsInit /\ [][SessionsNext]_svars

-----------------------------------------------------------------------------
(* Properties. *)

Usable(s) == sess[s].live /\ sess[s].expires > clock /\ ~is_past_absolute_cap(sess[s], clock)

\* The expiry of a row follows the requests that were let in, in whatever order their
\* writes land: it is never less than half a window, or the cap, after the latest of
\* them, and never more than a window after it, nor past the cap.  Only a row that was made
\* with an expiry past its cap, by another build, keeps that expiry; it ends at the cap.
ExpiryTracksUse ==
  \A s \in Sessions :
    LET row == sess[s]
    IN row.live /\ row.used # Never =>
         /\ row.expires >= AtMost(row.used + Half, CapOf(row))
         /\ \/ row.expires <= AtMost(row.used + Idle, CapOf(row))
            \/ row.expires = row.came /\ row.came >= CapOf(row)
         /\ row.used < CapOf(row)

\* The requests under way took their time recently, and hold a renewal made from it.
Pending ==
  \A u \in Uses :
    LET w == use[u]
    IN w.pc # "idle" =>
         /\ w.at <= clock /\ clock <= w.at + MaxStall
         /\ w.pc = "write" =>
              \/ ~sess[w.sess].live
              \/ /\ w.next = AtMost(w.at + Idle, CapOf(sess[w.sess]))
                 /\ w.at < CapOf(sess[w.sess])

\* What a row is, whoever wrote it last.
RowsAreSound ==
  \A s \in Sessions :
    sess[s].live => /\ sess[s].created <= clock /\ sess[s].used <= clock
                    /\ sess[s].used = Never => sess[s].expires = sess[s].came

SessionsInv == SessionsTypeOK /\ Pending /\ ExpiryTracksUse /\ RowsAreSound

\* A sweep never ends a session that could still be used, and whose owner would be
\* logged out by it.
SweptWereDead ==
  [][SweepNext => \A s \in Sessions : Usable(s) => sess'[s].live]_svars
=============================================================================
