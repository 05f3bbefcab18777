---------------------------- MODULE UpkeepProofs ----------------------------
(***************************************************************************)
(* Proofs about Sessions and Retention: the expiry of a row follows its    *)
(* use, for any number of sessions and requests and any windows; a pass of *)
(* the prune loop deletes what it should, and saves of the settings leave  *)
(* a trace, for any number of tables, admins and days.                     *)
(***************************************************************************)
EXTENDS Sessions, Retention, TLAPS

USE DEF Never, Idle

-----------------------------------------------------------------------------
(* Sessions. *)

\* A row whose histories and expiry agree: the body of ExpiryTracksUse and RowsAreSound.
Sound(row, now) ==
  row.live =>
    /\ row.created <= now /\ row.used <= now
    /\ row.used = Never => row.expires = row.came
    /\ row.used # Never =>
         /\ row.expires >= AtMost(row.used + Half, CapOf(row))
         /\ \/ row.expires <= AtMost(row.used + Idle, CapOf(row))
            \/ row.expires = row.came /\ row.came >= CapOf(row)
         /\ row.used < CapOf(row)

\* The row that a renewal leaves.
Renewed(row, t, x) == [LetIn(row, t) EXCEPT !.expires = x]

\* A request under way.
Timely(w, now) ==
  w.pc # "idle" =>
    /\ w.at <= now /\ now <= w.at + MaxStall
    /\ w.pc = "write" =>
         \/ ~sess[w.sess].live
         \/ /\ w.next = AtMost(w.at + Idle, CapOf(sess[w.sess]))
            /\ w.at < CapOf(sess[w.sess])

\* The invariant, row by row and request by request.
LEMMA InvByParts ==
  SessionsInv <=> /\ SessionsTypeOK
                  /\ \A u \in Uses : Timely(use[u], clock)
                  /\ \A s \in Sessions : Sound(sess[s], clock)
  BY DEF SessionsInv, Pending, ExpiryTracksUse, RowsAreSound, Timely, Sound

\* Rows and slots have values of their types.
LEMMA BlankTypes == NoRow \in Row /\ NoUse \in Use
  BY ASession DEF NoRow, NoUse, Row, Use

\* The fields of a row that a request was let in with, and of a renewed one.
LEMMA LetInFields ==
  ASSUME NEW row \in Row, NEW t \in Nat
  PROVE  LET new == LetIn(row, t)
         IN /\ new \in Row /\ new.used = AtLeast(row.used, t)
            /\ new.live = row.live /\ new.created = row.created
            /\ new.expires = row.expires /\ new.came = row.came
  BY DEF LetIn, Row, AtLeast

LEMMA RenewedFields ==
  ASSUME NEW row \in Row, NEW t \in Nat, NEW x \in Nat
  PROVE  LET new == Renewed(row, t, x)
         IN /\ new \in Row /\ new.used = AtLeast(row.used, t)
            /\ new.live = row.live /\ new.created = row.created
            /\ new.expires = x /\ new.came = row.came
  BY LetInFields DEF Row, Renewed

\* A request that is let in without a renewal leaves its row sound: refreshed_expiry
\* writes nothing only when the expiry is far enough away, or at the cap.
LEMMA LetInSound ==
  ASSUME NEW row \in Row, NEW t \in Nat, NEW now \in Nat, t <= now,
         row.live, Sound(row, now), ~is_past_absolute_cap(row, t), row.expires > t,
         refreshed_expiry(row, t) = {}
  PROVE  LetIn(row, t) \in Row /\ Sound(LetIn(row, t), now)
  <1> DEFINE new == LetIn(row, t)
  <1>1. /\ new \in Row /\ new.used = AtLeast(row.used, t)
        /\ new.live = row.live /\ new.created = row.created
        /\ new.expires = row.expires /\ new.came = row.came
    BY LetInFields
  <1>2. /\ row.created \in Nat /\ row.expires \in Nat /\ row.came \in Nat
        /\ row.used \in Int /\ row.used >= -1
    BY DEF Row
  <1>3. new.used \in Nat /\ new.used <= now /\ new.used >= t /\ new.used >= row.used
        /\ new.used \in {row.used, t}
    BY <1>1, <1>2 DEF AtLeast, Sound
  <1>4. /\ new.expires >= AtMost(new.used + Half, CapOf(new))
        /\ \/ new.expires <= AtMost(new.used + Idle, CapOf(new))
           \/ new.expires = new.came /\ new.came >= CapOf(new)
        /\ new.used < CapOf(new)
    <2> HIDE DEF new
    <2>1. CASE row.expires >= CapOf(row)
      BY <2>1, <1>1, <1>2, <1>3, WindowsAssumption
      DEF Sound, AtMost, CapOf, is_past_absolute_cap
    <2>2. CASE row.expires < CapOf(row)
      <3>1. row.expires <= AtMost(t + Idle, CapOf(row)) /\ row.expires - t >= Half
        <4> DEFINE next == AtMost(t + Idle, CapOf(row))
        <4>1. next \in Int /\ ~(row.expires >= CapOf(row))
          BY <2>2, <1>2, WindowsAssumption DEF AtMost, CapOf
        <4>2. refreshed_expiry(row, t) =
                IF row.expires > next THEN {next}
                ELSE IF row.expires - t >= Half THEN {} ELSE {next}
          BY <4>1, Zenon DEF refreshed_expiry
        <4> HIDE DEF next
        <4>3. {next} # {}
          OBVIOUS
        <4>4. ~(row.expires > next)
          BY <4>2, <4>3, Zenon
        <4>5. row.expires - t >= Half
          BY <4>2, <4>3, <4>4, Zenon
        <4>6. row.expires <= next
          BY <4>1, <4>4, <1>2
        <4> QED BY <4>5, <4>6 DEF next
      <3> QED
        BY <3>1, <2>2, <1>1, <1>2, <1>3, WindowsAssumption
        DEF Sound, AtMost, CapOf, is_past_absolute_cap
    <2> QED BY <2>1, <2>2, <1>2, WindowsAssumption DEF CapOf
  <1> HIDE DEF new
  <1>5. Sound(new, now)
    BY <1>1, <1>2, <1>3, <1>4 DEF Sound
  <1> QED BY <1>1, <1>5 DEF new

\* What refreshed_expiry asks to be written.
LEMMA RenewalIsNext ==
  ASSUME NEW row, NEW t, NEW x \in refreshed_expiry(row, t)
  PROVE  x = AtMost(t + Idle, CapOf(row))
  BY DEF refreshed_expiry

\* A renewal leaves its row sound although its request is late: no other request can
\* have been let in more than half a window after it.
LEMMA RenewedSound ==
  ASSUME NEW row \in Row, NEW t \in Nat, NEW now \in Nat, t <= now, now <= t + MaxStall,
         row.live, Sound(row, now), t < CapOf(row),
         NEW x, x = AtMost(t + Idle, CapOf(row))
  PROVE  Renewed(row, t, x) \in Row /\ Sound(Renewed(row, t, x), now)
  <1> DEFINE new == Renewed(row, t, x)
  <1>1. /\ row.created \in Nat /\ row.expires \in Nat /\ row.came \in Nat
        /\ row.used \in Int /\ row.used >= -1
    BY DEF Row
  <1>2. x \in Nat
    BY <1>1, WindowsAssumption DEF AtMost, CapOf
  <1>3. /\ new \in Row /\ new.used = AtLeast(row.used, t)
        /\ new.live = row.live /\ new.created = row.created
        /\ new.expires = x /\ new.came = row.came
    BY <1>2, RenewedFields
  <1> HIDE DEF new
  <1>4. new.used \in Nat /\ new.used <= now /\ new.used >= t /\ new.used >= row.used
        /\ new.used \in {row.used, t}
    BY <1>1, <1>3 DEF AtLeast, Sound
  <1>5. /\ new.expires >= AtMost(new.used + Half, CapOf(new))
        /\ new.expires <= AtMost(new.used + Idle, CapOf(new))
        /\ new.used < CapOf(new)
    BY <1>1, <1>3, <1>4, WindowsAssumption DEF Sound, AtMost, CapOf
  <1>6. Sound(new, now)
    BY <1>1, <1>3, <1>4, <1>5 DEF Sound
  <1> QED BY <1>3, <1>6 DEF new

\* The fields of a row that another build has left.
LEMMA LeftOverFields ==
  ASSUME NEW row \in Row, NEW x \in Nat
  PROVE  LET new == [row EXCEPT !.live = TRUE, !.expires = x, !.came = x]
         IN /\ new \in Row /\ new.created = row.created /\ new.used = row.used
            /\ new.expires = x /\ new.came = x
  BY DEF Row

\* The invariant holds at the start, whatever rows an earlier build has left.
LEMMA InitInv == SessionsInit => SessionsInv
  <1> SUFFICES ASSUME SessionsInit PROVE SessionsInv OBVIOUS
  <1> DEFINE Old(x) == [NoRow EXCEPT !.live = TRUE, !.expires = x, !.came = x]
  <1>a. ASSUME NEW x \in 0 .. MaxExpiry
        PROVE  /\ Old(x) \in Row /\ Old(x).created = 0 /\ Old(x).used = Never
               /\ Old(x).expires = Old(x).came
    <2>1. x \in Nat
      BY WindowsAssumption
    <2>2. NoRow \in Row /\ NoRow.created = 0 /\ NoRow.used = Never
      BY BlankTypes DEF NoRow
    <2> QED BY <2>1, <2>2, LeftOverFields
  <1>b. \A s \in Sessions : sess[s] = NoRow \/ \E x \in 0 .. MaxExpiry : sess[s] = Old(x)
    BY DEF SessionsInit
  <1>c. sess = [s \in Sessions |-> sess[s]] /\ clock = 0 /\ use = [u \in Uses |-> NoUse]
    BY DEF SessionsInit
  <1> HIDE DEF Old
  <1>1. SessionsTypeOK
    BY <1>a, <1>b, <1>c, BlankTypes DEF SessionsTypeOK
  <1>2. \A u \in Uses : Timely(use[u], clock)
    BY DEF SessionsInit, Timely, NoUse
  <1>3. \A s \in Sessions : Sound(sess[s], clock)
    <2>1. Sound(NoRow, 0)
      BY DEF Sound, NoRow
    <2>2. \A x \in 0 .. MaxExpiry : Sound(Old(x), 0)
      BY <1>a DEF Sound
    <2> QED BY <2>1, <2>2, <1>b, <1>c
  <1> QED BY <1>1, <1>2, <1>3, InvByParts

\* The same for the primed state.
LEMMA InvByPartsPrime ==
  SessionsInv' <=> /\ SessionsTypeOK'
                   /\ \A u \in Uses : Timely(use[u], clock)'
                   /\ \A s \in Sessions : Sound(sess[s], clock)'
  BY DEF SessionsInv, Pending, ExpiryTracksUse, RowsAreSound, Timely, Sound

\* A request takes the time and a slot.
LEMMA ResolveInv ==
  ASSUME SessionsInv, NEW u \in Uses, NEW s \in Sessions, resolve_user(u, s)
  PROVE  SessionsInv'
  <1> DEFINE w == [pc |-> "read", sess |-> s, at |-> clock, next |-> 0]
  <1>1. SessionsTypeOK /\ (\A v \in Uses : Timely(use[v], clock))
        /\ \A r \in Sessions : Sound(sess[r], clock)
    BY InvByParts
  <1>2. /\ w \in Use /\ use' = [use EXCEPT ![u] = w] /\ UNCHANGED <<clock, sess>>
    BY <1>1 DEF resolve_user, SessionsTypeOK, Use
  <1>3. SessionsTypeOK'
    BY <1>1, <1>2 DEF SessionsTypeOK
  <1>4. Timely(w, clock)
    BY <1>1, WindowsAssumption DEF Timely, SessionsTypeOK
  <1> HIDE DEF w
  <1>5. \A v \in Uses : use'[v] = IF v = u THEN w ELSE use[v]
    BY <1>1, <1>2 DEF SessionsTypeOK
  <1>6. \A v \in Uses : Timely(use[v], clock)'
    BY <1>1, <1>2, <1>4, <1>5 DEF Timely
  <1>7. \A r \in Sessions : Sound(sess[r], clock)'
    BY <1>1, <1>2 DEF Sound
  <1> QED BY <1>3, <1>6, <1>7, InvByPartsPrime

\* The other slots are not affected by a step of request u that leaves the rows alone,
\* or changes only rows that are as good as before.
LEMMA Elsewhere ==
  ASSUME SessionsInv, NEW u \in Uses, NEW w \in Use,
         use' = [use EXCEPT ![u] = w], clock' = clock, Timely(w, clock)',
         sess' \in [Sessions -> Row],
         \A s \in Sessions : /\ sess'[s].live = sess[s].live
                             /\ sess'[s].created = sess[s].created
                             /\ Sound(sess'[s], clock)
  PROVE  SessionsInv'
  <1>1. SessionsTypeOK /\ (\A v \in Uses : Timely(use[v], clock))
    BY InvByParts
  <1>2. SessionsTypeOK'
    BY <1>1 DEF SessionsTypeOK
  <1>3. \A v \in Uses : use'[v] = IF v = u THEN w ELSE use[v]
    BY <1>1 DEF SessionsTypeOK
  <1>4. \A v \in Uses : use[v].sess \in Sessions
    BY <1>1 DEF SessionsTypeOK, Use
  <1>5. ASSUME NEW v \in Uses PROVE Timely(use[v], clock)'
    <2>1. CASE v = u
      BY <2>1, <1>3 DEF Timely
    <2>2. CASE v # u
      BY <2>2, <1>1, <1>3, <1>4 DEF Timely, CapOf
    <2> QED BY <2>1, <2>2
  <1>6. \A s \in Sessions : Sound(sess[s], clock)'
    BY DEF Sound
  <1> QED BY <1>2, <1>5, <1>6, InvByPartsPrime

\* A free slot promises nothing.
LEMMA FreeIsTimely == Timely(NoUse, clock)'
  BY DEF Timely, NoUse

\* A request is refused, let in, or on its way to a renewal.
LEMMA FindInv ==
  ASSUME SessionsInv, NEW u \in Uses, find_session_user(u)
  PROVE  SessionsInv'
  <1> DEFINE s == use[u].sess
             t == use[u].at
             row == sess[s]
  <1>1. SessionsTypeOK /\ (\A v \in Uses : Timely(use[v], clock))
        /\ \A r \in Sessions : Sound(sess[r], clock)
    BY InvByParts
  <1>2. /\ s \in Sessions /\ t \in Nat /\ row \in Row /\ clock \in Nat
        /\ use[u] \in Use /\ use[u].pc = "read" /\ t <= clock /\ clock <= t + MaxStall
    BY <1>1 DEF find_session_user, SessionsTypeOK, Use, Timely
  <1>3. clock' = clock
    BY DEF find_session_user
  <1>4. CASE use' = [use EXCEPT ![u] = NoUse] /\ UNCHANGED sess
    BY <1>1, <1>3, <1>4, BlankTypes, FreeIsTimely, Elsewhere DEF SessionsTypeOK
  <1>5. CASE /\ row.live /\ row.expires > t /\ ~is_past_absolute_cap(row, t)
             /\ refreshed_expiry(row, t) = {}
             /\ use' = [use EXCEPT ![u] = NoUse]
             /\ sess' = [sess EXCEPT ![s] = LetIn(row, t)]
    <2>1. LetIn(row, t) \in Row /\ Sound(LetIn(row, t), clock)
      BY <1>1, <1>2, <1>5, LetInSound
    <2>2. LetIn(row, t).live = row.live /\ LetIn(row, t).created = row.created
      BY <1>2, LetInFields
    <2>3. /\ sess' \in [Sessions -> Row]
          /\ \A r \in Sessions : sess'[r] = IF r = s THEN LetIn(row, t) ELSE sess[r]
      BY <1>1, <1>2, <1>5, <2>1 DEF SessionsTypeOK
    <2>4. \A r \in Sessions : /\ sess'[r].live = sess[r].live
                              /\ sess'[r].created = sess[r].created
                              /\ Sound(sess'[r], clock)
      BY <1>1, <2>1, <2>2, <2>3
    <2> QED BY <1>3, <1>5, <2>3, <2>4, BlankTypes, FreeIsTimely, Elsewhere
  <1>6. ASSUME NEW x \in refreshed_expiry(row, t),
               row.live, ~is_past_absolute_cap(row, t),
               use' = [use EXCEPT ![u].pc = "write", ![u].next = x], UNCHANGED sess
        PROVE  SessionsInv'
    <2>1. x = AtMost(t + Idle, CapOf(row)) /\ t < CapOf(row)
      BY <1>2, <1>6, RenewalIsNext, WindowsAssumption DEF is_past_absolute_cap, CapOf, Row
    <2>2. x \in Nat
      BY <2>1, <1>2, WindowsAssumption DEF AtMost, CapOf, Row
    <2>a. PICK w : w = [use[u] EXCEPT !.pc = "write", !.next = x]
      OBVIOUS
    <2>3. w \in Use /\ w.pc = "write" /\ w.next = x /\ w.at = t /\ w.sess = s
      BY <1>2, <2>2, <2>a DEF Use
    <2>4. use' = [use EXCEPT ![u] = w]
      BY <1>1, <1>6, <2>a DEF SessionsTypeOK
    <2>5. Timely(w, clock)'
      BY <1>2, <1>3, <1>6, <2>1, <2>3 DEF Timely
    <2> QED BY <1>1, <1>3, <1>6, <2>3, <2>4, <2>5, Elsewhere DEF SessionsTypeOK
  <1> QED BY <1>4, <1>5, <1>6 DEF find_session_user

\* A renewal lands.
LEMMA RenewInv ==
  ASSUME SessionsInv, NEW u \in Uses, Renew(u)
  PROVE  SessionsInv'
  <1> DEFINE s == use[u].sess
             t == use[u].at
             x == use[u].next
             row == sess[s]
  <1>1. SessionsTypeOK /\ (\A v \in Uses : Timely(use[v], clock))
        /\ \A r \in Sessions : Sound(sess[r], clock)
    BY InvByParts
  <1>2. /\ s \in Sessions /\ t \in Nat /\ row \in Row /\ clock \in Nat
        /\ use[u].pc = "write" /\ t <= clock /\ clock <= t + MaxStall
    BY <1>1 DEF Renew, SessionsTypeOK, Use, Timely
  <1>3. clock' = clock /\ use' = [use EXCEPT ![u] = NoUse]
    BY DEF Renew
  <1>4. CASE UNCHANGED sess
    BY <1>1, <1>3, <1>4, BlankTypes, FreeIsTimely, Elsewhere DEF SessionsTypeOK
  <1>5. CASE row.live /\ sess' = [sess EXCEPT ![s] = Renewed(row, t, x)]
    <2>1. x = AtMost(t + Idle, CapOf(row)) /\ t < CapOf(row)
      BY <1>1, <1>2, <1>5 DEF Timely
    <2>2. Renewed(row, t, x) \in Row /\ Sound(Renewed(row, t, x), clock)
      BY <1>1, <1>2, <1>5, <2>1, RenewedSound
    <2>3. x \in Nat
      BY <1>1 DEF SessionsTypeOK, Use
    <2>4. Renewed(row, t, x).live = row.live /\ Renewed(row, t, x).created = row.created
      BY <1>2, <2>3, RenewedFields
    <2>5. /\ sess' \in [Sessions -> Row]
          /\ \A r \in Sessions : sess'[r] = IF r = s THEN Renewed(row, t, x) ELSE sess[r]
      BY <1>1, <1>2, <1>5, <2>2 DEF SessionsTypeOK
    <2>6. \A r \in Sessions : /\ sess'[r].live = sess[r].live
                              /\ sess'[r].created = sess[r].created
                              /\ Sound(sess'[r], clock)
      BY <1>1, <2>2, <2>4, <2>5
    <2> QED BY <1>3, <2>5, <2>6, BlankTypes, FreeIsTimely, Elsewhere
  <1> QED BY <1>4, <1>5 DEF Renew, Renewed

\* Rows that come or go do not touch the requests under way: a renewal of a row that
\* is gone is void, and no request holds the row of a new session.
LEMMA RowsComeAndGo ==
  ASSUME SessionsInv, UNCHANGED <<clock, use>>, sess' \in [Sessions -> Row],
         \A s \in Sessions :
           \/ sess'[s] = sess[s]
           \/ sess'[s] = NoRow
           \/ /\ Sound(sess'[s], clock)
              /\ \A u \in Uses : use[u].sess # s \/ use[u].pc = "idle"
  PROVE  SessionsInv'
  <1>1. SessionsTypeOK /\ (\A v \in Uses : Timely(use[v], clock))
        /\ \A r \in Sessions : Sound(sess[r], clock)
    BY InvByParts
  <1>2. SessionsTypeOK'
    BY <1>1 DEF SessionsTypeOK
  <1>3. \A v \in Uses : use[v].sess \in Sessions
    BY <1>1 DEF SessionsTypeOK, Use
  <1>4. ~NoRow.live
    BY DEF NoRow
  <1>5. ASSUME NEW v \in Uses PROVE Timely(use[v], clock)'
    <2> DEFINE s == use[v].sess
    <2>1. CASE sess'[s] = sess[s]
      BY <2>1, <1>1 DEF Timely
    <2>2. CASE sess'[s] = NoRow
      BY <2>2, <1>1, <1>4 DEF Timely
    <2>3. CASE use[v].pc = "idle"
      BY <2>3 DEF Timely
    <2> QED BY <1>3, <2>1, <2>2, <2>3
  <1>6. \A s \in Sessions : Sound(sess[s], clock)'
    BY <1>1, <1>4 DEF Sound
  <1> QED BY <1>2, <1>5, <1>6, InvByPartsPrime

\* A new session starts with a full window.
LEMMA OpenInv ==
  ASSUME SessionsInv, NEW s \in Sessions, open_session(s)
  PROVE  SessionsInv'
  <1> DEFINE new == [live |-> TRUE, created |-> clock, expires |-> clock + Idle,
                     used |-> clock, came |-> clock + Idle]
  <1>1. SessionsTypeOK
    BY InvByParts
  <1>2. clock \in Nat
    BY <1>1 DEF SessionsTypeOK
  <1>3. new \in Row /\ Sound(new, clock)
    BY <1>2, WindowsAssumption DEF Row, Sound, AtMost, CapOf
  <1>4. sess' = [sess EXCEPT ![s] = new] /\ UNCHANGED <<clock, use>>
        /\ \A u \in Uses : use[u].sess # s \/ use[u].pc = "idle"
    BY DEF open_session
  <1> HIDE DEF new
  <1>5. /\ sess' \in [Sessions -> Row]
        /\ \A r \in Sessions : sess'[r] = IF r = s THEN new ELSE sess[r]
    BY <1>1, <1>3, <1>4 DEF SessionsTypeOK
  <1> QED BY <1>3, <1>4, <1>5, RowsComeAndGo

\* A step that only deletes rows.
LEMMA DeletionInv ==
  ASSUME SessionsInv, UNCHANGED <<clock, use>>, NEW gone,
         sess' = [s \in Sessions |-> IF s \in gone THEN NoRow ELSE sess[s]]
  PROVE  SessionsInv'
  <1>1. SessionsTypeOK
    BY InvByParts
  <1>2. /\ sess' \in [Sessions -> Row]
        /\ \A s \in Sessions : sess'[s] = sess[s] \/ sess'[s] = NoRow
    BY <1>1, BlankTypes DEF SessionsTypeOK
  <1> QED BY <1>2, RowsComeAndGo

\* Sweeps and logouts delete rows and nothing else.
LEMMA SweepsInv ==
  ASSUME SessionsInv, SweepNext \/ \E s \in Sessions : EndSession(s)
  PROVE  SessionsInv'
  <1>1. ASSUME NEW t \in 0 .. clock, delete_expired_sessions(t) PROVE SessionsInv'
    <2> DEFINE gone == {s \in Sessions : sess[s].live /\ Expired(sess[s], t)}
    <2>1. sess' = [s \in Sessions |-> IF s \in gone THEN NoRow ELSE sess[s]]
      BY <1>1 DEF delete_expired_sessions
    <2> QED BY <1>1, <2>1, DeletionInv DEF delete_expired_sessions
  <1>2. ASSUME NEW ss \in SUBSET Sessions, delete_capped_sessions_for_user(ss) PROVE SessionsInv'
    <2> DEFINE gone == {s \in Sessions : s \in ss /\ sess[s].live /\ is_past_absolute_cap(sess[s], clock)}
    <2>1. sess' = [s \in Sessions |-> IF s \in gone THEN NoRow ELSE sess[s]]
      BY <1>2 DEF delete_capped_sessions_for_user
    <2> QED BY <1>2, <2>1, DeletionInv DEF delete_capped_sessions_for_user
  <1>3. ASSUME NEW s \in Sessions, EndSession(s) PROVE SessionsInv'
    <2>1. sess \in [Sessions -> Row]
      BY InvByParts DEF SessionsTypeOK
    <2>2. sess' = [r \in Sessions |-> IF r \in {s} THEN NoRow ELSE sess[r]]
      BY <1>3, <2>1 DEF EndSession
    <2> QED BY <1>3, <2>2, DeletionInv DEF EndSession
  <1> QED BY <1>1, <1>2, <1>3 DEF SweepNext

\* Time passes, but no request is left behind by more than MaxStall.
LEMMA TickInv ==
  ASSUME SessionsInv, Tick
  PROVE  SessionsInv'
  <1>1. SessionsTypeOK /\ (\A v \in Uses : Timely(use[v], clock))
        /\ \A r \in Sessions : Sound(sess[r], clock)
    BY InvByParts
  <1>2. clock \in Nat /\ clock' = clock + 1 /\ UNCHANGED <<sess, use>>
        /\ \A u \in Uses : use[u].pc # "idle" => clock < use[u].at + MaxStall
    BY <1>1 DEF Tick, SessionsTypeOK
  <1>3. SessionsTypeOK'
    BY <1>1, <1>2 DEF SessionsTypeOK
  <1>4. ASSUME NEW v \in Uses PROVE Timely(use[v], clock)'
    <2>1. use[v].at \in Nat
      BY <1>1 DEF SessionsTypeOK, Use
    <2> QED BY <2>1, <1>1, <1>2, WindowsAssumption DEF Timely
  <1>5. ASSUME NEW s \in Sessions PROVE Sound(sess[s], clock)'
    <2>1. sess[s].created \in Nat /\ sess[s].used \in Int
      BY <1>1 DEF SessionsTypeOK, Row
    <2> QED BY <2>1, <1>1, <1>2 DEF Sound
  <1> QED BY <1>3, <1>4, <1>5, InvByPartsPrime

\* The invariant is inductive.
LEMMA NextInv == SessionsInv /\ [SessionsNext]_svars => SessionsInv'
  <1> SUFFICES ASSUME SessionsInv, [SessionsNext]_svars PROVE SessionsInv' OBVIOUS
  <1>1. CASE \E u \in Uses : UseNext(u)
    BY <1>1, ResolveInv, FindInv, RenewInv DEF UseNext
  <1>2. CASE \E s \in Sessions : open_session(s)
    BY <1>2, OpenInv
  <1>3. CASE SweepNext \/ \E s \in Sessions : EndSession(s)
    BY <1>3, SweepsInv
  <1>4. CASE Tick
    BY <1>4, TickInv
  <1>5. CASE UNCHANGED svars
    BY <1>5 DEF svars, SessionsInv, SessionsTypeOK, Pending, ExpiryTracksUse, RowsAreSound
  <1> QED BY <1>1, <1>2, <1>3, <1>4, <1>5 DEF SessionsNext

\* SessionsInv is an invariant: rows, requests and clock stay coherent for any number of
\* sessions and of requests in flight (find_session_user, refreshed_expiry, the sweeps).
THEOREM SessionsInvariant == SessionsSpec => []SessionsInv
  BY InitInv, NextInv, PTL DEF SessionsSpec

\* The expiry of every session stays within its idle window and its cap, whatever order
\* the renewals of find_session_user land in.
THEOREM ExpiryAlwaysTracksUse == SessionsSpec => []ExpiryTracksUse
  <1>1. SessionsInv => ExpiryTracksUse
    BY DEF SessionsInv
  <1> QED BY <1>1, SessionsInvariant, PTL

\* No sweep of delete_expired_sessions or delete_capped_sessions_for_user ends a usable
\* session.
THEOREM SweptAlwaysDead == SessionsSpec => SweptWereDead
  <1>1. SessionsInv /\ [SessionsNext]_svars
          => [SweepNext => \A s \in Sessions : Usable(s) => sess'[s].live]_svars
    <2> SUFFICES ASSUME SessionsInv, SweepNext, NEW s \in Sessions, Usable(s)
                 PROVE  sess'[s].live
      OBVIOUS
    <2>1. clock \in Nat /\ sess[s] \in Row
      BY InvByParts DEF SessionsTypeOK
    <2>2. ASSUME NEW t \in 0 .. clock, delete_expired_sessions(t) PROVE sess'[s] = sess[s]
      <3>1. ~Expired(sess[s], t)
        BY <2>1, WindowsAssumption DEF Usable, Expired, is_past_absolute_cap, CapOf, Row
      <3> QED BY <2>2, <3>1 DEF delete_expired_sessions
    <2>3. ASSUME NEW ss \in SUBSET Sessions, delete_capped_sessions_for_user(ss)
          PROVE sess'[s] = sess[s]
      BY <2>3 DEF Usable, delete_capped_sessions_for_user
    <2> QED BY <2>2, <2>3 DEF SweepNext, Usable
  <1> QED BY <1>1, SessionsInvariant, PTL DEF SessionsSpec, SweptWereDead

-----------------------------------------------------------------------------
(* Retention: the prune loop. *)

LEMMA TablesAre ==
  /\ Len(Tables) \in Nat \ {0} /\ DOMAIN Tables = 1 .. Len(Tables)
  /\ \A i \in DOMAIN Tables : Tables[i] \in Keys
  /\ \A k \in Keys : \E i \in DOMAIN Tables : k = Tables[i]
  BY TablesAssumption DEF Keys

Old(t, d, at) == d > 0 /\ d <= MaxDays /\ t # None /\ t + d < at

\* A table as a pass must leave it: `had` is what it held when the pass came to it.
Exact(t, had, d, at) == ~Old(t, d, at) /\ (had # None /\ ~Old(had, d, at) => t = had)

\* A pass p is past table i.
Past(p, i) == p.pc # "sleep" /\ (i < p.i \/ p.pc \in {"sweep", "beat"})

\* What is true of a pass p when the tables hold rs.
Pruned(p, rs) ==
  p.ok => \A i \in DOMAIN Tables :
            Past(p, i) => Exact(rs[Tables[i]], p.had[Tables[i]], p.cut[Tables[i]], p.at)

LEMMA ExactByParts ==
  (PassIsExact <=> Pruned(pass, rows)) /\ (PassIsExact' <=> Pruned(pass', rows'))
  BY DEF PassIsExact, Pruned, Past, Exact, Old, Behind, TooOld

\* The pass goes on to the next table, or to the sessions.
LEMMA AfterTableIs ==
  ASSUME pass \in Pass, pass.i \in DOMAIN Tables
  PROVE  \E n \in Pass :
           /\ n = AfterTable /\ n.at = pass.at /\ n.cut = pass.cut /\ n.had = pass.had
           /\ n.ok = pass.ok /\ n.i \in DOMAIN Tables
           /\ \/ n.pc = "read" /\ n.i = pass.i + 1
              \/ n.pc = "sweep" /\ n.i = pass.i /\ pass.i = Len(Tables)
  <1>1. pass.i \in Nat /\ pass.i <= Len(Tables) /\ pass.i >= 1
    BY TablesAre
  <1>2. CASE pass.i < Len(Tables)
    <2>0. PICK x \in Nat : x = pass.i + 1
      BY <1>1
    <2>1. PICK n : n = [pass EXCEPT !.pc = "read", !.i = x]
      OBVIOUS
    <2>2. n = AfterTable
      BY <1>2, <2>0, <2>1 DEF AfterTable
    <2>3. /\ n \in Pass /\ n.pc = "read" /\ n.i = pass.i + 1 /\ n.at = pass.at
          /\ n.cut = pass.cut /\ n.had = pass.had /\ n.ok = pass.ok
      BY <2>0, <2>1 DEF Pass
    <2>4. n.i \in DOMAIN Tables
      BY <1>1, <1>2, <2>3, TablesAre
    <2> QED BY <2>2, <2>3, <2>4
  <1>3. CASE ~(pass.i < Len(Tables))
    <2>1. PICK n : n = [pass EXCEPT !.pc = "sweep"]
      OBVIOUS
    <2>2. n = AfterTable
      BY <1>3, <2>1 DEF AfterTable
    <2>3. /\ n \in Pass /\ n.pc = "sweep" /\ n.i = pass.i /\ n.at = pass.at
          /\ n.cut = pass.cut /\ n.had = pass.had /\ n.ok = pass.ok
      BY <2>1 DEF Pass
    <2>4. pass.i = Len(Tables)
      BY <1>1, <1>3, TablesAre
    <2> QED BY <2>2, <2>3, <2>4
  <1> QED BY <1>2, <1>3

\* The pass notes, for table k, the setting c and the row h.
Noted(p, k, c, h) == [p EXCEPT !.cut[k] = c, !.had[k] = h]

LEMMA NotesAre ==
  ASSUME NEW p \in Pass, NEW k \in Keys, NEW c \in Days, NEW h \in Int
  PROVE  \E n \in Pass :
           /\ n = Noted(p, k, c, h)
           /\ n.pc = p.pc /\ n.i = p.i /\ n.at = p.at /\ n.ok = p.ok
           /\ n.cut[k] = c /\ n.had[k] = h
           /\ \A j \in Keys \ {k} : n.cut[j] = p.cut[j] /\ n.had[j] = p.had[j]
  <1>1. PICK cs \in [Keys -> Days], hs \in [Keys -> Int] :
          cs = [p.cut EXCEPT ![k] = c] /\ hs = [p.had EXCEPT ![k] = h]
    BY DEF Pass
  <1>2. PICK n : n = [p EXCEPT !.cut = cs, !.had = hs]
    OBVIOUS
  <1>3. n = Noted(p, k, c, h)
    BY <1>1, <1>2 DEF Pass, Noted
  <1>4. /\ n \in Pass /\ n.pc = p.pc /\ n.i = p.i /\ n.at = p.at /\ n.ok = p.ok
        /\ n.cut = cs /\ n.had = hs
    BY <1>2 DEF Pass
  <1>5. /\ cs[k] = c /\ hs[k] = h
        /\ \A j \in Keys \ {k} : cs[j] = p.cut[j] /\ hs[j] = p.had[j]
    BY <1>1 DEF Pass
  <1> QED BY <1>3, <1>4, <1>5

\* The part of the invariant that saves do not touch.
PassInv ==
  /\ day \in Nat /\ rows \in [Keys -> Nat \cup {None}] /\ pass \in Pass
  /\ pass.i \in DOMAIN Tables /\ pass.at <= day /\ Pruned(pass, rows)

\* The pass leaves table k behind as n, which holds the same of the other tables.
LeavesBehind(k, n) ==
  /\ n.at = pass.at /\ n.ok = pass.ok /\ n.i \in DOMAIN Tables
  /\ \A j \in Keys \ {k} : n.cut[j] = pass.cut[j] /\ n.had[j] = pass.had[j]
  /\ \/ n.pc = "read" /\ n.i = pass.i + 1
     \/ n.pc = "sweep" /\ n.i = pass.i /\ pass.i = Len(Tables)

LEMMA PastOneMore ==
  ASSUME PassInv, NEW k, k = Tables[pass.i], NEW n \in Pass,
         pass.pc \in {"read", "delete"}, LeavesBehind(k, n),
         NEW rs, \A j \in Keys \ {k} : rs[j] = rows[j],
         Exact(rs[k], n.had[k], n.cut[k], n.at)
  PROVE  Pruned(n, rs)
  <1> USE DEF LeavesBehind
  <1> SUFFICES ASSUME n.ok, NEW i \in DOMAIN Tables, Past(n, i)
               PROVE  Exact(rs[Tables[i]], n.had[Tables[i]], n.cut[Tables[i]], n.at)
    BY DEF Pruned
  <1>1. pass.i \in Nat /\ i \in Nat /\ i <= Len(Tables) /\ i <= pass.i
    BY TablesAre DEF PassInv, Past
  <1>2. CASE i = pass.i
    BY <1>2
  <1>3. CASE i < pass.i
    <2>1. Past(pass, i) /\ pass.ok
      BY <1>3 DEF Past
    <2>2. Tables[i] \in Keys \ {k}
      BY <1>3, TablesAre, TablesAssumption DEF PassInv
    <2>3. Exact(rows[Tables[i]], pass.had[Tables[i]], pass.cut[Tables[i]], pass.at)
      BY <2>1 DEF PassInv, Pruned
    <2> QED BY <2>2, <2>3
  <1> QED BY <1>1, <1>2, <1>3

LEMMA AsleepIs ==
  /\ Asleep \in Pass /\ Asleep.pc = "sleep" /\ Asleep.at = 0 /\ Asleep.i = 1
  /\ 1 \in DOMAIN Tables
  <1>1. [k \in Keys |-> 0] \in [Keys -> Days] /\ [k \in Keys |-> None] \in [Keys -> Int]
    BY DaysAssumption DEF None
  <1> QED BY <1>1, TablesAre DEF Asleep, Pass

LEMMA BeginPassInv ==
  ASSUME PassInv, BeginPass
  PROVE  PassInv'
  <1>1. PICK n : n = [Asleep EXCEPT !.pc = "read", !.at = day]
    OBVIOUS
  <1>2. pass' = n /\ UNCHANGED <<day, rows>>
    BY <1>1 DEF BeginPass
  <1>3. n \in Pass /\ n.pc = "read" /\ n.at = day /\ n.i = 1
    BY <1>1, AsleepIs DEF PassInv, Pass
  <1>4. Pruned(n, rows)
    <2>1. \A i \in DOMAIN Tables : ~Past(n, i)
      BY <1>3, TablesAre DEF Past
    <2> QED BY <2>1 DEF Pruned
  <1> QED BY <1>2, <1>3, <1>4, AsleepIs DEF PassInv

LEMMA ReadSettingInv ==
  ASSUME PassInv, retention \in [Keys -> Days], ReadSetting
  PROVE  PassInv'
  <1>1. PICK k \in Keys : k = Tables[pass.i]
    BY TablesAre DEF PassInv
  <1>2. PICK d \in Days, h \in Int : d = retention[k] /\ h = rows[k] /\ h \in Nat \cup {None}
    BY DEF PassInv, None
  <1>3. pass.pc = "read" /\ UNCHANGED <<day, rows>>
    BY DEF ReadSetting
  <1>4. CASE retention_cutoff(pass.at, d) = {}
    <2>1. PICK a \in Pass :
            /\ a = AfterTable /\ a.at = pass.at /\ a.cut = pass.cut /\ a.had = pass.had
            /\ a.ok = pass.ok /\ a.i \in DOMAIN Tables
            /\ \/ a.pc = "read" /\ a.i = pass.i + 1
               \/ a.pc = "sweep" /\ a.i = pass.i /\ pass.i = Len(Tables)
      BY AfterTableIs DEF PassInv
    <2>2. PICK n \in Pass :
            /\ n = Noted(a, k, d, h)
            /\ n.pc = a.pc /\ n.i = a.i /\ n.at = a.at /\ n.ok = a.ok
            /\ n.cut[k] = d /\ n.had[k] = h
            /\ \A j \in Keys \ {k} : n.cut[j] = a.cut[j] /\ n.had[j] = a.had[j]
      BY NotesAre
    <2>3. pass' = n
      <3>1. retention_cutoff(pass.at, retention[Tables[pass.i]]) = {}
        BY <1>1, <1>2, <1>4
      <3>2. pass' = Noted(AfterTable, Tables[pass.i], retention[Tables[pass.i]], rows[Tables[pass.i]])
        BY <3>1 DEF ReadSetting, Noted
      <3> QED BY <1>1, <1>2, <2>1, <2>2, <3>2
    <2>4. Exact(rows[k], n.had[k], n.cut[k], n.at)
      BY <1>2, <1>4, <2>2 DEF Exact, Old, retention_cutoff
    <2>5. LeavesBehind(k, n)
      BY <2>1, <2>2 DEF LeavesBehind
    <2>6. Pruned(n, rows)
      BY <1>1, <1>3, <2>2, <2>4, <2>5, PastOneMore
    <2> QED BY <1>3, <2>1, <2>2, <2>3, <2>6 DEF PassInv
  <1>5. CASE retention_cutoff(pass.at, d) # {}
    <2>1. PICK a : a = [pass EXCEPT !.pc = "delete"]
      OBVIOUS
    <2>2. /\ a \in Pass /\ a.pc = "delete" /\ a.i = pass.i /\ a.at = pass.at /\ a.ok = pass.ok
          /\ a.cut = pass.cut /\ a.had = pass.had
      BY <2>1 DEF PassInv, Pass
    <2>3. PICK n \in Pass :
            /\ n = Noted(a, k, d, h)
            /\ n.pc = a.pc /\ n.i = a.i /\ n.at = a.at /\ n.ok = a.ok
            /\ n.cut[k] = d /\ n.had[k] = h
            /\ \A j \in Keys \ {k} : n.cut[j] = a.cut[j] /\ n.had[j] = a.had[j]
      BY <2>2, NotesAre
    <2>4. pass' = n
      <3>1. retention_cutoff(pass.at, retention[Tables[pass.i]]) # {}
        BY <1>1, <1>2, <1>5
      <3>2. pass' = Noted([pass EXCEPT !.pc = "delete"], Tables[pass.i],
                          retention[Tables[pass.i]], rows[Tables[pass.i]])
        BY <3>1 DEF ReadSetting, Noted
      <3> QED BY <1>1, <1>2, <2>1, <2>3, <3>2
    <2>5. Pruned(n, rows)
      <3> SUFFICES ASSUME n.ok, NEW i \in DOMAIN Tables, Past(n, i)
                   PROVE  Exact(rows[Tables[i]], n.had[Tables[i]], n.cut[Tables[i]], n.at)
        BY DEF Pruned
      <3>1. i < pass.i /\ pass.i \in Nat /\ i \in Nat
        BY <2>2, <2>3, TablesAre DEF Past, PassInv
      <3>2. Past(pass, i) /\ pass.ok
        BY <1>3, <2>2, <2>3, <3>1 DEF Past
      <3>3. Tables[i] \in Keys \ {k}
        BY <1>1, <3>1, TablesAre, TablesAssumption DEF PassInv
      <3>4. Exact(rows[Tables[i]], pass.had[Tables[i]], pass.cut[Tables[i]], pass.at)
        BY <3>2 DEF PassInv, Pruned
      <3> QED BY <2>2, <2>3, <3>3, <3>4
    <2> QED BY <1>3, <2>2, <2>3, <2>4, <2>5 DEF PassInv
  <1> QED BY <1>4, <1>5

LEMMA DeleteBeforeInv ==
  ASSUME PassInv, DeleteBefore
  PROVE  PassInv'
  <1>1. PICK k \in Keys : k = Tables[pass.i]
    BY TablesAre DEF PassInv
  <1>2. PICK d \in Days, h \in Int :
          d = pass.cut[k] /\ h = rows[k] /\ h \in Nat \cup {None}
    BY DEF PassInv, Pass, None
  <1>3. PICK cutoff \in retention_cutoff(pass.at, d) :
          /\ rows' = [rows EXCEPT ![k] = IF @ # None /\ @ < cutoff THEN None ELSE @]
          /\ pass' = [AfterTable EXCEPT !.had[k] = rows[k]]
    BY <1>1, <1>2 DEF DeleteBefore, KeptFrom
  <1>4. pass.pc = "delete" /\ day' = day
    BY DEF DeleteBefore
  <1>5. cutoff = pass.at - d /\ d > 0 /\ d <= MaxDays /\ d \in Nat /\ pass.at \in Nat
    BY <1>3, DaysAssumption DEF retention_cutoff, PassInv, Pass
  <1>6. PICK t \in Nat \cup {None} : t = IF h # None /\ h < cutoff THEN None ELSE h
    BY <1>2
  <1>7. rows' = [rows EXCEPT ![k] = t] /\ rows' \in [Keys -> Nat \cup {None}]
    BY <1>2, <1>3, <1>6 DEF PassInv
  <1>8. rows'[k] = t /\ \A j \in Keys \ {k} : rows'[j] = rows[j]
    BY <1>7 DEF PassInv
  <1>9. PICK a \in Pass :
          /\ a = AfterTable /\ a.at = pass.at /\ a.cut = pass.cut /\ a.had = pass.had
          /\ a.ok = pass.ok /\ a.i \in DOMAIN Tables
          /\ \/ a.pc = "read" /\ a.i = pass.i + 1
             \/ a.pc = "sweep" /\ a.i = pass.i /\ pass.i = Len(Tables)
    BY AfterTableIs DEF PassInv
  <1>10. PICK hs \in [Keys -> Int] : hs = [a.had EXCEPT ![k] = h]
    BY DEF Pass
  <1>11. PICK n : n = [a EXCEPT !.had = hs]
    OBVIOUS
  <1>12. pass' = n
    BY <1>2, <1>3, <1>9, <1>10, <1>11 DEF Pass
  <1>13. /\ n \in Pass /\ n.pc = a.pc /\ n.i = a.i /\ n.at = a.at /\ n.ok = a.ok
         /\ n.cut = a.cut /\ n.had = hs
    BY <1>11 DEF Pass
  <1>14. hs[k] = h /\ \A j \in Keys \ {k} : hs[j] = a.had[j]
    BY <1>10 DEF Pass
  <1>15. Exact(t, h, d, pass.at)
    BY <1>2, <1>5, <1>6 DEF Exact, Old, None
  <1>16. LeavesBehind(k, n)
    BY <1>9, <1>13, <1>14 DEF LeavesBehind
  <1>17. Exact(rows'[k], n.had[k], n.cut[k], n.at)
    BY <1>2, <1>8, <1>9, <1>13, <1>14, <1>15
  <1>18. Pruned(n, rows')
    BY <1>1, <1>4, <1>8, <1>13, <1>16, <1>17, PastOneMore
  <1> QED BY <1>4, <1>7, <1>9, <1>12, <1>13, <1>18 DEF PassInv

\* The sessions are swept, a query fails, the heartbeat is written.
LEMMA RestOfPassInv ==
  ASSUME PassInv, SweepSessions \/ PruneFails \/ Heartbeat
  PROVE  PassInv'
  <1>1. UNCHANGED <<day, rows>>
    BY DEF SweepSessions, PruneFails, Heartbeat
  <1>2. pass \in Pass /\ pass.i \in DOMAIN Tables /\ pass.at <= day /\ Pruned(pass, rows)
    BY DEF PassInv
  <1>3. CASE SweepSessions
    <2>1. PICK n : n = [pass EXCEPT !.pc = "beat"]
      OBVIOUS
    <2>2. /\ n \in Pass /\ n.pc = "beat" /\ n.i = pass.i /\ n.at = pass.at /\ n.ok = pass.ok
          /\ n.cut = pass.cut /\ n.had = pass.had
      BY <1>2, <2>1 DEF Pass
    <2>3. pass' = n /\ pass.pc = "sweep"
      BY <1>3, <2>1 DEF SweepSessions
    <2>4. Pruned(n, rows)
      BY <1>2, <2>2, <2>3 DEF Pruned, Past
    <2> QED BY <1>1, <1>2, <2>2, <2>3, <2>4 DEF PassInv
  <1>4. CASE PruneFails
    <2>1. PICK n : n = [pass EXCEPT !.pc = "beat", !.ok = FALSE]
      OBVIOUS
    <2>2. n \in Pass /\ n.i = pass.i /\ n.at = pass.at /\ n.ok = FALSE
      BY <1>2, <2>1 DEF Pass
    <2>3. pass' = n
      BY <1>4, <2>1 DEF PruneFails, GivenUp
    <2>4. Pruned(n, rows)
      BY <2>2 DEF Pruned
    <2> QED BY <1>1, <1>2, <2>2, <2>3, <2>4 DEF PassInv
  <1>5. CASE Heartbeat
    <2>1. pass' = Asleep
      BY <1>5 DEF Heartbeat
    <2>2. Pruned(Asleep, rows)
      BY AsleepIs DEF Pruned, Past
    <2>3. 0 <= day
      BY DEF PassInv
    <2> QED BY <1>1, <2>1, <2>2, <2>3, AsleepIs DEF PassInv
  <1> QED BY <1>3, <1>4, <1>5

\* A row that comes in is too young for the pass, whose time is past.
LEMMA RowsAndDaysInv ==
  ASSUME PassInv, NextDay \/ \E k \in Keys : InsertRow(k)
  PROVE  PassInv'
  <1>1. CASE NextDay
    BY <1>1 DEF NextDay, PassInv, Pass
  <1>2. ASSUME NEW k \in Keys, InsertRow(k)
        PROVE  PassInv'
    <2>1. /\ rows[k] = None /\ rows' = [rows EXCEPT ![k] = day] /\ UNCHANGED <<day, pass>>
      BY <1>2 DEF InsertRow
    <2>2. /\ rows' \in [Keys -> Nat \cup {None}] /\ rows'[k] = day
          /\ \A j \in Keys \ {k} : rows'[j] = rows[j]
      BY <2>1 DEF PassInv
    <2>3. day \in Nat /\ pass.at \in Nat /\ pass.at <= day
      BY DEF PassInv, Pass
    <2>4. Pruned(pass, rows')
      <3> SUFFICES ASSUME pass.ok, NEW i \in DOMAIN Tables, Past(pass, i)
                   PROVE  Exact(rows'[Tables[i]], pass.had[Tables[i]], pass.cut[Tables[i]],
                                pass.at)
        BY DEF Pruned
      <3>1. Exact(rows[Tables[i]], pass.had[Tables[i]], pass.cut[Tables[i]], pass.at)
        BY DEF PassInv, Pruned
      <3>2. CASE Tables[i] # k
        BY <2>2, <3>1, <3>2, TablesAre
      <3>3. CASE Tables[i] = k
        <4>1. PICK d \in Nat : d = pass.cut[k]
          BY DaysAssumption DEF PassInv, Pass
        <4>2. ~Old(day, d, pass.at)
          BY <2>3 DEF Old
        <4>3. pass.had[k] # None => Old(pass.had[k], d, pass.at)
          BY <2>1, <3>1, <3>3, <4>1 DEF Exact
        <4> QED BY <2>2, <3>3, <4>1, <4>2, <4>3 DEF Exact
      <3> QED BY <3>2, <3>3
    <2> QED BY <2>1, <2>2, <2>4 DEF PassInv
  <1> QED BY <1>1, <1>2

-----------------------------------------------------------------------------
(* Retention: saving the settings. *)

\* Knows, of settings r.
KnowsOf(w, r) ==
  \A j \in DOMAIN Tables :
    (w.pc = "diff" /\ j < w.i) \/ (w.pc = "write" /\ w.i <= j) =>
      Tables[j] \in w.changed \cup w.stale \/ r[Tables[j]] = w.form[Tables[j]]

\* A save as it may be when the settings are r.
Sane(w, r) == w \in Save /\ w.i \in DOMAIN Tables /\ KnowsOf(w, r)

\* The part of the invariant about saves.
SaveInv ==
  /\ retention \in [Keys -> Days] /\ save \in [Admins -> Save]
  /\ \A a \in Admins : Sane(save[a], retention)

\* The audit log tells of the latest change of k.
Told(k) ==
  last[k].on # None /\ last[k].clean => traced[k] # None \/ Unrecorded(k) \/ RunOut(k)

\* The part of the invariant about the trail of the changes.
TrailInv ==
  /\ traced \in [Keys -> Nat \cup {None}] /\ windows \in [Keys -> SUBSET Days]
  /\ last \in [Keys -> [on : Nat \cup {None}, clean : BOOLEAN]]
  /\ \A k \in Keys : TrailIsDated(k) /\ Told(k)

LEMMA RetentionByParts ==
  /\ RetentionInv <=> PassInv /\ SaveInv /\ TrailInv
  /\ RetentionInv' <=> PassInv' /\ SaveInv' /\ TrailInv'
  <1>1. RetentionInv <=> PassInv /\ SaveInv /\ TrailInv
    BY ExactByParts DEF RetentionInv, RetentionTypeOK, PassInv, SaveInv, TrailInv, Sane, Knows,
       KnowsOf, ChangesLeaveATrace, Told
  <1>2. RetentionInv' <=> PassInv' /\ SaveInv' /\ TrailInv'
    BY ExactByParts DEF RetentionInv, RetentionTypeOK, PassInv, SaveInv, TrailInv, Sane, Knows,
       KnowsOf, ChangesLeaveATrace, Told
  <1> QED BY <1>1, <1>2

LEMMA AdvanceIs ==
  ASSUME NEW w \in Save, w.i \in DOMAIN Tables, NEW phase \in {"write", "audit"}
  PROVE  \E n \in Save :
           /\ n = Advance(w, phase) /\ n.form = w.form /\ n.changed = w.changed
           /\ n.stale = w.stale /\ n.i \in DOMAIN Tables
           /\ \/ n.pc = w.pc /\ n.i = w.i + 1
              \/ n.pc = phase /\ n.i = 1 /\ w.i = Len(Tables)
  <1>1. w.i \in Nat /\ w.i <= Len(Tables) /\ w.i >= 1 /\ 1 \in DOMAIN Tables
    BY TablesAre
  <1>2. CASE w.i < Len(Tables)
    <2>0. PICK x \in Nat : x = w.i + 1
      BY <1>1
    <2>1. PICK n : n = [w EXCEPT !.i = x]
      OBVIOUS
    <2>2. n = Advance(w, phase)
      BY <1>2, <2>0, <2>1 DEF Advance
    <2>3. /\ n \in Save /\ n.pc = w.pc /\ n.i = w.i + 1 /\ n.form = w.form
          /\ n.changed = w.changed /\ n.stale = w.stale
      BY <2>0, <2>1 DEF Save
    <2>4. n.i \in DOMAIN Tables
      BY <1>1, <1>2, <2>3, TablesAre
    <2> QED BY <2>2, <2>3, <2>4
  <1>3. CASE ~(w.i < Len(Tables))
    <2>1. PICK n : n = [w EXCEPT !.i = 1, !.pc = phase]
      OBVIOUS
    <2>2. n = Advance(w, phase)
      BY <1>3, <2>1 DEF Advance
    <2>3. /\ n \in Save /\ n.pc = phase /\ n.i = 1 /\ n.form = w.form
          /\ n.changed = w.changed /\ n.stale = w.stale
      BY <2>1 DEF Save
    <2>4. w.i = Len(Tables)
      BY <1>1, <1>3, TablesAre
    <2> QED BY <1>1, <2>2, <2>3, <2>4
  <1> QED BY <1>2, <1>3

LEMMA NoSaveIs ==
  /\ NoSave \in Save /\ NoSave.pc = "idle" /\ NoSave.i = 1 /\ NoSave.changed = {}
  /\ NoSave.stale = {} /\ 1 \in DOMAIN Tables
  /\ Owing(NoSave) = {} /\ \A r : Sane(NoSave, r)
  <1>1. [k \in Keys |-> 0] \in [Keys -> Days]
    BY DaysAssumption
  <1>2. /\ NoSave \in Save /\ NoSave.pc = "idle" /\ NoSave.i = 1 /\ NoSave.changed = {}
        /\ NoSave.stale = {} /\ 1 \in DOMAIN Tables
    BY <1>1, TablesAre DEF NoSave, Save
  <1>3. Owing(NoSave) = {}
    BY <1>2 DEF Owing
  <1> QED BY <1>2, <1>3 DEF Sane, KnowsOf

\* Save a becomes n and the settings stay.
LEMMA OnlySave ==
  ASSUME SaveInv, NEW a \in Admins, NEW n, save' = [save EXCEPT ![a] = n],
         UNCHANGED retention, Sane(n, retention)
  PROVE  /\ SaveInv'
         /\ save'[a] = n /\ \A b \in Admins \ {a} : save'[b] = save[b]
  <1>1. save' \in [Admins -> Save] /\ save'[a] = n /\ \A b \in Admins \ {a} : save'[b] = save[b]
    BY DEF SaveInv, Sane
  <1>2. ASSUME NEW b \in Admins PROVE Sane(save'[b], retention')
    BY <1>1 DEF SaveInv
  <1> QED BY <1>1, <1>2 DEF SaveInv

\* A step that leaves the trail alone, and no save owing less than before.
LEMMA TrailStays ==
  ASSUME TrailInv, UNCHANGED <<day, retention, pass, trail>>,
         \A a \in Admins : Owing(save[a]) \subseteq Owing(save'[a])
  PROVE  TrailInv'
  <1>1. ASSUME NEW k \in Keys PROVE TrailIsDated(k)'
    BY DEF TrailInv, TrailIsDated, trail
  <1>2. ASSUME NEW k \in Keys PROVE Told(k)'
    <2>1. Told(k)
      BY DEF TrailInv
    <2>2. Unrecorded(k) => Unrecorded(k)'
      BY DEF Unrecorded
    <2>3. RunOut(k) => RunOut(k)'
      BY DEF RunOut, trail
    <2> QED BY <2>1, <2>2, <2>3 DEF Told, trail
  <1> QED BY <1>1, <1>2 DEF TrailInv, trail

LEMMA SettingsSaveInv ==
  ASSUME SaveInv, TrailInv, NEW a \in Admins, NEW form \in [Keys -> Days], settings_save(a, form)
  PROVE  SaveInv' /\ TrailInv'
  <1>1. PICK n : n = [NoSave EXCEPT !.pc = "diff", !.form = form]
    OBVIOUS
  <1>2. n \in Save /\ n.pc = "diff" /\ n.i = 1
    BY <1>1, NoSaveIs DEF Save
  <1>3. KnowsOf(n, retention)
    BY <1>2, TablesAre DEF KnowsOf
  <1>4. /\ save[a].pc = "idle" /\ save' = [save EXCEPT ![a] = n]
        /\ UNCHANGED <<day, retention, pass, trail>>
    BY <1>1 DEF settings_save
  <1>5. Sane(n, retention)
    BY <1>2, <1>3, NoSaveIs DEF Sane
  <1>6. SaveInv' /\ \A b \in Admins \ {a} : save'[b] = save[b]
    BY <1>4, <1>5, OnlySave
  <1>7. Owing(save[a]) = {}
    BY <1>4 DEF Owing, Written
  <1>8. \A b \in Admins : Owing(save[b]) \subseteq Owing(save'[b])
    BY <1>6, <1>7
  <1> QED BY <1>4, <1>6, <1>8, TrailStays

\* Save v has compared key k.
Finds(v, k, found) == [v EXCEPT !.changed = @ \cup found, !.stale = @ \ {k}]

\* A key is compared: it is found to differ, or is as the form has it.
LEMMA ChangedSettingsInv ==
  ASSUME SaveInv, TrailInv, NEW a \in Admins, changed_settings(a)
  PROVE  SaveInv' /\ TrailInv'
  <1>1. PICK w \in Save : /\ w = save[a] /\ w.pc = "diff" /\ w.i \in DOMAIN Tables
                          /\ KnowsOf(w, retention)
    BY DEF SaveInv, Sane, changed_settings
  <1>2. PICK k \in Keys : k = Tables[w.i]
    BY <1>1, TablesAre
  <1>3. PICK found \in SUBSET Keys :
          found = IF Differs(retention[k], w.form[k]) THEN {k} ELSE {}
    OBVIOUS
  <1>4. k \in found \/ retention[k] = w.form[k]
    BY <1>3 DEF Differs
  <1>5. PICK v \in Save :
           /\ v = Advance(w, "write") /\ v.form = w.form /\ v.changed = w.changed
           /\ v.stale = w.stale /\ v.i \in DOMAIN Tables
           /\ \/ v.pc = w.pc /\ v.i = w.i + 1
              \/ v.pc = "write" /\ v.i = 1 /\ w.i = Len(Tables)
    BY <1>1, AdvanceIs
  <1>6. PICK n : n = [v EXCEPT !.changed = w.changed \cup found, !.stale = w.stale \ {k}]
    OBVIOUS
  <1>7. /\ n \in Save /\ n.form = w.form /\ n.changed = w.changed \cup found
        /\ n.stale = w.stale \ {k} /\ n.i = v.i /\ n.pc = v.pc
    <2>1. w.changed \cup found \in SUBSET Keys /\ w.stale \ {k} \in SUBSET Keys
      BY <1>3 DEF Save
    <2> QED BY <1>5, <1>6, <2>1 DEF Save
  <1>8. save' = [save EXCEPT ![a] = n] /\ UNCHANGED <<day, retention, pass, trail>>
    <2>1. save' = [save EXCEPT ![a] = Finds(Advance(save[a], "write"), k, found)]
      BY <1>1, <1>2, <1>3 DEF changed_settings, Finds
    <2>2. Finds(v, k, found) = n
      BY <1>5, <1>6 DEF Finds
    <2> QED BY <1>1, <1>5, <2>1, <2>2 DEF changed_settings
  <1>9. KnowsOf(n, retention)
    <2>1. ASSUME NEW j \in DOMAIN Tables, j < w.i + 1
          PROVE  Tables[j] \in n.changed \cup n.stale \/ retention[Tables[j]] = n.form[Tables[j]]
      <3>1. j \in Nat /\ w.i \in Nat
        BY <1>1, TablesAre
      <3>2. CASE Tables[j] = k
        BY <1>4, <1>7, <3>2
      <3>3. CASE Tables[j] # k
        <4>1. j < w.i
          BY <1>2, <2>1, <3>1, <3>3
        <4> QED BY <1>1, <1>7, <3>3, <4>1 DEF KnowsOf
      <3> QED BY <3>2, <3>3
    <2>2. CASE n.pc = "diff" /\ n.i = w.i + 1
      BY <2>1, <2>2 DEF KnowsOf
    <2>3. CASE n.pc = "write" /\ n.i = 1 /\ w.i = Len(Tables)
      <3>1. \A j \in DOMAIN Tables : j < w.i + 1
        BY <2>3, TablesAre
      <3> QED BY <2>1, <2>3, <3>1 DEF KnowsOf
    <2> QED BY <1>1, <1>5, <1>7, <2>2, <2>3
  <1>10. Sane(n, retention)
    BY <1>5, <1>7, <1>9 DEF Sane
  <1>11. SaveInv' /\ \A b \in Admins \ {a} : save'[b] = save[b]
    BY <1>8, <1>10, OnlySave
  <1>12. Owing(save[a]) = {}
    BY <1>1 DEF Owing, Written
  <1>13. \A b \in Admins : Owing(save[b]) \subseteq Owing(save'[b])
    BY <1>11, <1>12
  <1> QED BY <1>8, <1>11, <1>13, TrailStays

\* What set_setting leaves of the saves: a owes what it owed, and the key it wrote if it
\* counts as changed; the others owe what they owed.
Wrote(a, k) ==
  /\ Owing(save[a]) \subseteq Owing(save'[a])
  /\ k \in save[a].changed => k \in Owing(save'[a])
  /\ \A b \in Admins \ {a} : Owing(save'[b]) = Owing(save[b])

\* A key is written.  The other saves count it as overtaken.
LEMMA WriteInv ==
  ASSUME SaveInv, NEW a \in Admins, set_setting(a), NEW k, k = Tables[save[a].i]
  PROVE  SaveInv' /\ Wrote(a, k)
  <1>1. PICK w \in Save : /\ w = save[a] /\ w.pc = "write" /\ w.i \in DOMAIN Tables
                          /\ KnowsOf(w, retention)
    BY DEF SaveInv, Sane, set_setting
  <1>2. k \in Keys /\ k = Tables[w.i] /\ w.i \in Nat
    BY <1>1, TablesAre
  <1>3. PICK f \in Days : f = w.form[k]
    BY <1>2 DEF Save
  <1>4. /\ retention' = [retention EXCEPT ![k] = f]
        /\ save' = [b \in Admins |->
             IF b = a THEN Advance(save[a], "audit") ELSE OthersStale(a, k, b)]
    BY <1>1, <1>2, <1>3 DEF set_setting
  <1>5. PICK n \in Save :
           /\ n = Advance(w, "audit") /\ n.form = w.form /\ n.changed = w.changed
           /\ n.stale = w.stale /\ n.i \in DOMAIN Tables
           /\ \/ n.pc = w.pc /\ n.i = w.i + 1
              \/ n.pc = "audit" /\ n.i = 1 /\ w.i = Len(Tables)
    BY <1>1, AdvanceIs
  <1>6. save'[a] = n
    BY <1>1, <1>4, <1>5
  <1>7. /\ retention' \in [Keys -> Days] /\ retention'[k] = f
        /\ \A l \in Keys \ {k} : retention'[l] = retention[l]
    BY <1>2, <1>4 DEF SaveInv
  <1>8. KnowsOf(n, retention')
    <2>1. CASE n.pc = "audit"
      BY <2>1 DEF KnowsOf
    <2>2. CASE n.pc = "write" /\ n.i = w.i + 1
      <3>1. ASSUME NEW j \in DOMAIN Tables, n.i <= j
            PROVE  Tables[j] \in n.changed \cup n.stale \/ retention'[Tables[j]] = n.form[Tables[j]]
        <4>1. j # w.i /\ w.i <= j /\ Tables[j] \in Keys
          BY <1>2, <2>2, <3>1, TablesAre
        <4>2. Tables[j] # k
          BY <1>1, <1>2, <4>1, TablesAssumption
        <4> QED BY <1>1, <1>5, <1>7, <4>1, <4>2 DEF KnowsOf
      <3> QED BY <2>2, <3>1 DEF KnowsOf
    <2> QED BY <1>1, <1>5, <2>1, <2>2
  <1>9. ASSUME NEW b \in Admins \ {a}
        PROVE  Sane(save'[b], retention') /\ Owing(save'[b]) = Owing(save[b])
    <2>1. save'[b] = OthersStale(a, k, b) /\ Sane(save[b], retention) /\ save[b] \in Save
      BY <1>4 DEF SaveInv
    <2>2. CASE save[b].pc = "idle"
      <3>1. save'[b] = save[b]
        BY <2>1, <2>2 DEF OthersStale
      <3> QED BY <2>1, <2>2, <3>1 DEF Sane, KnowsOf
    <2>3. CASE save[b].pc # "idle"
      <3>1. PICK st \in SUBSET Keys : st = save[b].stale \cup {k}
        BY <1>2, <2>1 DEF Save
      <3>2. PICK m : m = [save[b] EXCEPT !.stale = st]
        OBVIOUS
      <3>3. save'[b] = m
        BY <2>1, <2>3, <3>1, <3>2 DEF OthersStale
      <3>4. /\ m \in Save /\ m.pc = save[b].pc /\ m.i = save[b].i /\ m.form = save[b].form
            /\ m.changed = save[b].changed /\ m.stale = st
        BY <2>1, <3>2 DEF Save
      <3>5. KnowsOf(m, retention')
        BY <1>7, <2>1, <3>1, <3>4, TablesAre DEF Sane, KnowsOf
      <3>6. Owing(m) = Owing(save[b])
        BY <3>4 DEF Owing, Written
      <3> QED BY <2>1, <3>3, <3>4, <3>5, <3>6 DEF Sane
    <2> QED BY <2>2, <2>3
  <1>10. Sane(n, retention')
    BY <1>5, <1>8 DEF Sane
  <1>11. save' \in [Admins -> Save]
    <2>1. \A b \in Admins : save'[b] \in Save
      BY <1>6, <1>9 DEF Sane
    <2>2. save' = [b \in Admins |-> save'[b]]
      BY <1>4
    <2> QED BY <2>1, <2>2
  <1>12. Written(w) \subseteq Written(n) /\ k \in Written(n)
    <2>1. Written(w) = {Tables[j] : j \in {m \in DOMAIN Tables : m < w.i}}
      BY <1>1 DEF Written
    <2>2. CASE n.pc = "audit"
      BY <1>2, <2>1, <2>2, TablesAre DEF Written
    <2>3. CASE n.pc = "write" /\ n.i = w.i + 1
      <3>1. Written(n) = {Tables[j] : j \in {m \in DOMAIN Tables : m < n.i}}
        BY <2>3 DEF Written
      <3>2. \A m \in DOMAIN Tables : m < w.i => m < n.i
        BY <1>2, <2>3, TablesAre
      <3>3. w.i < n.i
        BY <1>2, <2>3
      <3> QED BY <1>1, <1>2, <2>1, <3>1, <3>2, <3>3
    <2> QED BY <1>1, <1>5, <2>2, <2>3
  <1>13. Wrote(a, k)
    BY <1>1, <1>5, <1>6, <1>9, <1>12 DEF Wrote, Owing
  <1> QED BY <1>6, <1>7, <1>9, <1>10, <1>11, <1>13 DEF SaveInv

\* A key is written over another value: the comparison has found it, or was overtaken.
LEMMA SetSettingInv ==
  ASSUME PassInv, SaveInv, TrailInv, NEW a \in Admins, set_setting(a)
  PROVE  SaveInv' /\ TrailInv'
  <1>1. PICK k : k = Tables[save[a].i]
    OBVIOUS
  <1>2. SaveInv' /\ Wrote(a, k)
    BY <1>1, WriteInv
  <1>3. /\ save[a].pc = "write" /\ save[a].i \in DOMAIN Tables /\ k \in Keys
        /\ save[a] \in Save /\ KnowsOf(save[a], retention)
    BY <1>1, TablesAre DEF SaveInv, Sane, set_setting
  <1>4. /\ retention' = [retention EXCEPT ![k] = save[a].form[k]] /\ UNCHANGED <<day, pass>>
        /\ IF save[a].form[k] = retention[k] THEN UNCHANGED trail ELSE Changed(a, k)
    BY <1>1 DEF set_setting
  <1>5. \A b \in Admins : Owing(save[b]) \subseteq Owing(save'[b])
    BY <1>2 DEF Wrote
  <1>6. CASE save[a].form[k] = retention[k]
    <2>1. retention' = retention
      BY <1>3, <1>4, <1>6 DEF SaveInv
    <2> QED BY <1>2, <1>4, <1>5, <1>6, <2>1, TrailStays
  <1>7. CASE save[a].form[k] # retention[k]
    <2>1. Changed(a, k)
      BY <1>4, <1>7
    <2>2. k \in save[a].changed \/ k \in save[a].stale
      <3>1. save[a].i <= save[a].i
        BY <1>3, TablesAre
      <3> QED BY <1>1, <1>3, <1>7, <3>1 DEF KnowsOf
    <2>3. /\ traced' = [traced EXCEPT ![k] = None]
          /\ last' = [last EXCEPT ![k] = [on |-> day, clean |-> k \notin save[a].stale]]
          /\ windows' = [j \in Keys |-> (IF j = k THEN {} ELSE windows[j]) \cup {retention'[Audit]}]
      BY <2>1 DEF Changed
    <2>4. /\ retention'[Audit] \in Days /\ day \in Nat /\ pass.at <= day
      BY <1>2, TablesAssumption DEF SaveInv, PassInv
    <2>5. PICK cl \in BOOLEAN : cl = (k \notin save[a].stale)
      OBVIOUS
    <2>0. PICK ch : ch = [on |-> day, clean |-> cl]
      OBVIOUS
    <2>6. /\ ch \in [on : Nat \cup {None}, clean : BOOLEAN]
          /\ ch.on = day /\ ch.clean = cl
      BY <2>0, <2>4
    <2>7. last' = [last EXCEPT ![k] = ch]
      BY <2>0, <2>3, <2>5
    <2>8. /\ traced' \in [Keys -> Nat \cup {None}] /\ traced'[k] = None
          /\ last' \in [Keys -> [on : Nat \cup {None}, clean : BOOLEAN]] /\ last'[k] = ch
          /\ \A l \in Keys \ {k} : traced'[l] = traced[l] /\ last'[l] = last[l]
      <3>1. last \in [Keys -> [on : Nat \cup {None}, clean : BOOLEAN]]
        BY DEF TrailInv
      <3>2. /\ last' \in [Keys -> [on : Nat \cup {None}, clean : BOOLEAN]] /\ last'[k] = ch
            /\ \A l \in Keys \ {k} : last'[l] = last[l]
        BY <1>3, <2>6, <2>7, <3>1
      <3>3. /\ traced' \in [Keys -> Nat \cup {None}] /\ traced'[k] = None
            /\ \A l \in Keys \ {k} : traced'[l] = traced[l]
        BY <1>3, <2>3 DEF TrailInv
      <3> QED BY <3>2, <3>3
    <2>9. /\ windows' \in [Keys -> SUBSET Days]
          /\ \A l \in Keys : retention'[Audit] \in windows'[l]
          /\ \A l \in Keys \ {k} : windows[l] \subseteq windows'[l]
      BY <2>3, <2>4 DEF TrailInv
    <2>10. ASSUME NEW l \in Keys PROVE TrailIsDated(l)'
      <3>1. CASE l = k
        BY <1>4, <2>4, <2>6, <2>8, <2>9, <3>1 DEF TrailIsDated
      <3>2. CASE l # k
        <4>1. TrailIsDated(l)
          BY DEF TrailInv
        <4> QED BY <1>4, <2>8, <2>9, <3>2, <4>1 DEF TrailIsDated
      <3> QED BY <3>1, <3>2
    <2>11. ASSUME NEW l \in Keys PROVE Told(l)'
      <3>1. CASE l = k
        <4>1. k \notin save[a].stale => Unrecorded(k)'
          BY <1>2, <2>2 DEF Wrote, Unrecorded
        <4>2. ch.clean => k \notin save[a].stale
          BY <2>5, <2>6
        <4> QED BY <2>8, <3>1, <4>1, <4>2 DEF Told
      <3>2. CASE l # k
        <4>1. Told(l)
          BY DEF TrailInv
        <4>2. Unrecorded(l) => Unrecorded(l)'
          BY <1>5 DEF Unrecorded
        <4>3. RunOut(l) => RunOut(l)'
          BY <1>4, <2>8, <2>9, <3>2 DEF RunOut
        <4> QED BY <2>8, <3>2, <4>1, <4>2, <4>3 DEF Told
      <3> QED BY <3>1, <3>2
    <2> QED BY <1>2, <2>8, <2>9, <2>10, <2>11 DEF TrailInv
  <1> QED BY <1>6, <1>7

\* The log catches up with the keys that the save changed.
LEMMA RecordAuditInv ==
  ASSUME PassInv, SaveInv, TrailInv, NEW a \in Admins, record_audit(a)
  PROVE  SaveInv' /\ TrailInv'
  <1>1. /\ traced' = [k \in Keys |-> IF k \in save[a].changed THEN day ELSE traced[k]]
        /\ save' = [save EXCEPT ![a] = NoSave]
        /\ UNCHANGED <<day, retention, pass, last, windows>> /\ day \in Nat
    BY DEF record_audit, PassInv
  <1>2. SaveInv' /\ \A b \in Admins \ {a} : save'[b] = save[b]
    BY <1>1, NoSaveIs, OnlySave
  <1>3. /\ traced' \in [Keys -> Nat \cup {None}]
        /\ \A l \in Keys : traced'[l] = IF l \in save[a].changed THEN day ELSE traced[l]
    BY <1>1 DEF TrailInv
  <1>4. ASSUME NEW l \in Keys PROVE TrailIsDated(l)'
    <2>1. TrailIsDated(l)
      BY DEF TrailInv
    <2> QED BY <1>1, <1>3, <2>1 DEF TrailIsDated
  <1>5. ASSUME NEW l \in Keys PROVE Told(l)'
    <2>1. Told(l)
      BY DEF TrailInv
    <2>2. CASE l \in save[a].changed
      <3>1. traced'[l] # None
        BY <1>1, <1>3, <2>2 DEF None
      <3> QED BY <3>1 DEF Told
    <2>3. CASE l \notin save[a].changed
      <3>1. Unrecorded(l) => Unrecorded(l)'
        BY <1>2, <2>3 DEF Unrecorded, Owing
      <3>2. RunOut(l) => RunOut(l)'
        BY <1>1 DEF RunOut
      <3>3. traced'[l] = traced[l]
        BY <1>3, <2>3
      <3> QED BY <1>1, <2>1, <3>1, <3>2, <3>3 DEF Told
    <2> QED BY <2>2, <2>3
  <1> QED BY <1>1, <1>2, <1>3, <1>4, <1>5 DEF TrailInv

\* A save that fails leaves the changes it owes without a trace; the others are as they were.
LEMMA SaveFailsInv ==
  ASSUME SaveInv, TrailInv, NEW a \in Admins, SaveFails(a)
  PROVE  SaveInv' /\ TrailInv'
  <1>1. /\ last' = [k \in Keys |-> [last[k] EXCEPT !.clean = @ /\ k \notin Owing(save[a])]]
        /\ save' = [save EXCEPT ![a] = NoSave]
        /\ UNCHANGED <<day, retention, pass, traced, windows>>
    BY DEF SaveFails
  <1>2. SaveInv' /\ \A b \in Admins \ {a} : save'[b] = save[b]
    BY <1>1, NoSaveIs, OnlySave
  <1>3. ASSUME NEW l \in Keys
        PROVE  /\ last'[l] \in [on : Nat \cup {None}, clean : BOOLEAN]
               /\ last'[l].on = last[l].on
               /\ last'[l].clean => last[l].clean /\ l \notin Owing(save[a])
    <2>1. PICK cl \in BOOLEAN : cl = (last[l].clean /\ l \notin Owing(save[a]))
      BY DEF TrailInv
    <2>2. PICK ch : ch = [last[l] EXCEPT !.clean = cl]
      OBVIOUS
    <2>3. last'[l] = ch
      BY <1>1, <2>1, <2>2
    <2>4. last[l] \in [on : Nat \cup {None}, clean : BOOLEAN]
      BY DEF TrailInv
    <2>5. ch \in [on : Nat \cup {None}, clean : BOOLEAN] /\ ch.on = last[l].on /\ ch.clean = cl
      BY <2>1, <2>2, <2>4
    <2> QED BY <2>1, <2>3, <2>5
  <1>4. last' \in [Keys -> [on : Nat \cup {None}, clean : BOOLEAN]]
    <2>1. last' = [l \in Keys |-> last'[l]]
      BY <1>1
    <2> QED BY <1>3, <2>1
  <1>5. ASSUME NEW l \in Keys PROVE TrailIsDated(l)'
    <2>1. TrailIsDated(l)
      BY DEF TrailInv
    <2> QED BY <1>1, <1>3, <2>1 DEF TrailIsDated
  <1>6. ASSUME NEW l \in Keys PROVE Told(l)'
    <2>1. Told(l)
      BY DEF TrailInv
    <2>2. l \notin Owing(save[a]) /\ Unrecorded(l) => Unrecorded(l)'
      BY <1>2 DEF Unrecorded
    <2>3. RunOut(l) => RunOut(l)'
      BY <1>1, <1>3 DEF RunOut
    <2> QED BY <1>1, <1>3, <2>1, <2>2, <2>3 DEF Told
  <1> QED BY <1>1, <1>2, <1>4, <1>5, <1>6 DEF TrailInv

-----------------------------------------------------------------------------
(* Retention: what passes and days do to the trail. *)

\* A step of the pass that deletes nothing: if it is to delete from the audit log next, it
\* has just read the setting in force.
LEMMA PassTrail ==
  ASSUME TrailInv, UNCHANGED <<day, retention, save, trail>>,
         pass'.pc = "delete" /\ Tables[pass'.i] = Audit => pass'.cut[Audit] = retention[Audit]
  PROVE  TrailInv'
  <1>1. ASSUME NEW k \in Keys PROVE TrailIsDated(k)'
    <2>1. TrailIsDated(k)
      BY DEF TrailInv
    <2> QED BY <2>1 DEF TrailIsDated, trail
  <1>2. ASSUME NEW k \in Keys PROVE Told(k)'
    <2>1. Told(k)
      BY DEF TrailInv
    <2>2. /\ Unrecorded(k) => Unrecorded(k)'
          /\ RunOut(k) => RunOut(k)'
      BY DEF Unrecorded, RunOut, trail
    <2> QED BY <2>1, <2>2 DEF Told, trail
  <1> QED BY <1>1, <1>2 DEF TrailInv, trail

LEMMA ReadSettingTrail ==
  ASSUME PassInv, TrailInv, ReadSetting
  PROVE  TrailInv'
  <1>1. PICK k \in Keys : k = Tables[pass.i]
    BY TablesAre DEF PassInv
  <1>2. UNCHANGED <<day, retention, save, trail>>
    BY DEF ReadSetting
  <1>3. CASE retention_cutoff(pass.at, retention[k]) = {}
    <2>1. pass' = [AfterTable EXCEPT !.cut[k] = retention[k], !.had[k] = rows[k]]
      BY <1>1, <1>3 DEF ReadSetting
    <2>2. PICK n \in Pass : n = AfterTable /\ n.pc \in {"read", "sweep"}
      BY AfterTableIs DEF PassInv
    <2>3. pass'.pc # "delete"
      BY <2>1, <2>2 DEF Pass
    <2> QED BY <1>2, <2>3, PassTrail
  <1>4. CASE retention_cutoff(pass.at, retention[k]) # {}
    <2>1. pass' = [[pass EXCEPT !.pc = "delete"] EXCEPT !.cut[k] = retention[k], !.had[k] = rows[k]]
      BY <1>1, <1>4 DEF ReadSetting
    <2>2. pass \in Pass
      BY DEF PassInv
    <2>3. pass'.i = pass.i /\ pass'.cut = [pass.cut EXCEPT ![k] = retention[k]]
      BY <2>1, <2>2 DEF Pass
    <2>4. pass'.cut[k] = retention[k]
      BY <2>2, <2>3 DEF Pass
    <2> QED BY <1>1, <1>2, <2>3, <2>4, PassTrail
  <1> QED BY <1>3, <1>4

\* The entries that a pass deletes from the audit log are past a retention in force since
\* the change they tell of.
LEMMA DeleteTrail ==
  ASSUME PassInv, SaveInv, TrailInv, DeleteBefore
  PROVE  TrailInv'
  <1>1. PICK k \in Keys : k = Tables[pass.i]
    BY TablesAre DEF PassInv
  <1>2. PICK d \in Nat : d = pass.cut[k]
    BY DaysAssumption DEF PassInv, Pass
  <1>3. PICK cutoff \in retention_cutoff(pass.at, d) :
          traced' = IF k = Audit THEN [j \in Keys |-> KeptFrom(cutoff, traced[j])] ELSE traced
    BY <1>1, <1>2 DEF DeleteBefore
  <1>4. /\ pass.pc = "delete" /\ pass.at \in Nat /\ day \in Nat /\ pass.at <= day
        /\ UNCHANGED <<day, retention, save, last, windows>>
    BY DEF DeleteBefore, PassInv, Pass
  <1>5. cutoff = pass.at - d /\ d > 0 /\ d <= MaxDays
    BY <1>3 DEF retention_cutoff
  <1>6. pass'.pc # "delete"
    <2>1. pass' = [AfterTable EXCEPT !.had[k] = rows[k]]
      BY <1>1 DEF DeleteBefore
    <2>2. PICK n \in Pass : n = AfterTable /\ n.pc \in {"read", "sweep"}
      BY AfterTableIs DEF PassInv
    <2> QED BY <2>1, <2>2 DEF Pass
  <1>7. ASSUME NEW l \in Keys
        PROVE  /\ traced'[l] \in Nat \cup {None}
               /\ traced'[l] # traced[l] =>
                    k = Audit /\ traced'[l] = None /\ traced[l] \in Nat /\ traced[l] < cutoff
    <2>1. traced[l] \in Nat \cup {None}
      BY DEF TrailInv
    <2>2. CASE k = Audit
      BY <1>3, <2>1, <2>2 DEF KeptFrom
    <2>3. CASE k # Audit
      BY <1>3, <2>1, <2>3
    <2> QED BY <2>2, <2>3
  <1>8. traced' \in [Keys -> Nat \cup {None}]
    <2>1. traced' = [l \in Keys |-> traced'[l]]
      BY <1>3 DEF TrailInv
    <2> QED BY <1>7, <2>1
  <1>9. ASSUME NEW l \in Keys PROVE TrailIsDated(l)'
    <2>1. TrailIsDated(l)
      BY DEF TrailInv
    <2> QED BY <1>4, <1>6, <1>7, <2>1 DEF TrailIsDated
  <1>10. ASSUME NEW l \in Keys PROVE Told(l)'
    <2>1. Told(l) /\ TrailIsDated(l) /\ last[l].on \in Nat \cup {None}
      BY DEF TrailInv
    <2>2. /\ Unrecorded(l) => Unrecorded(l)'
          /\ RunOut(l) => RunOut(l)'
      BY <1>4 DEF Unrecorded, RunOut
    <2>3. CASE traced'[l] = traced[l]
      BY <1>4, <2>1, <2>2, <2>3 DEF Told
    <2>4. CASE traced'[l] # traced[l] /\ last[l].on # None
      <3>1. /\ k = Audit /\ traced[l] \in Nat /\ traced[l] < pass.at - d
            /\ last[l].on <= traced[l] /\ last[l].on \in Nat
        BY <1>5, <1>7, <2>1, <2>4 DEF TrailIsDated, None
      <3>2. d \in windows[l] \/ pass.at <= last[l].on
        BY <1>1, <1>2, <1>4, <2>1, <3>1 DEF TrailIsDated
      <3>3. d \in windows[l] /\ last[l].on + d < day
        BY <1>4, <1>5, <3>1, <3>2
      <3>4. RunOut(l)'
        BY <1>4, <1>5, <3>3 DEF RunOut
      <3> QED BY <3>4 DEF Told
    <2> QED BY <1>4, <2>3, <2>4 DEF Told
  <1> QED BY <1>4, <1>8, <1>9, <1>10 DEF TrailInv

\* Days pass and rows come in.
LEMMA DaysTrail ==
  ASSUME PassInv, TrailInv, NextDay \/ \E k \in Keys : InsertRow(k)
  PROVE  TrailInv'
  <1>1. /\ UNCHANGED <<retention, pass, save, trail>> /\ day \in Nat
        /\ day' \in Nat /\ day <= day'
    BY DEF NextDay, InsertRow, PassInv
  <1>2. ASSUME NEW k \in Keys PROVE TrailIsDated(k)'
    <2>1. TrailIsDated(k) /\ last[k].on \in Nat \cup {None}
      BY DEF TrailInv
    <2>2. last[k].on <= day'
      BY <1>1, <2>1 DEF TrailIsDated, None
    <2> QED BY <1>1, <2>1, <2>2 DEF TrailIsDated, trail
  <1>3. ASSUME NEW k \in Keys PROVE Told(k)'
    <2>1. Told(k) /\ last[k].on \in Nat \cup {None} /\ windows[k] \subseteq Nat
      BY DaysAssumption DEF TrailInv
    <2>2. Unrecorded(k) => Unrecorded(k)'
      BY <1>1 DEF Unrecorded
    <2>3. RunOut(k) => RunOut(k)'
      <3>1. SUFFICES ASSUME NEW d \in windows[k], d > 0, d <= MaxDays, last[k].on + d < day
                     PROVE  RunOut(k)'
        BY DEF RunOut
      <3>2. last[k].on + d < day'
        BY <1>1, <2>1, <3>1 DEF None
      <3> QED BY <1>1, <3>1, <3>2 DEF RunOut, trail
    <2> QED BY <1>1, <2>1, <2>2, <2>3 DEF Told, trail
  <1> QED BY <1>1, <1>2, <1>3 DEF TrailInv, trail

-----------------------------------------------------------------------------
LEMMA RetentionInitInv == RetentionInit => RetentionInv
  <1> SUFFICES ASSUME RetentionInit PROVE RetentionInv OBVIOUS
  <1>1. PassInv
    <2>1. rows \in [Keys -> Nat \cup {None}] /\ day = 0 /\ pass = Asleep
      BY DEF RetentionInit
    <2>2. Pruned(Asleep, rows)
      BY AsleepIs DEF Pruned, Past
    <2> QED BY <2>1, <2>2, AsleepIs DEF PassInv
  <1>2. SaveInv
    <2>1. retention \in [Keys -> Days]
      BY DaysAssumption DEF RetentionInit
    <2>2. save \in [Admins -> Save] /\ \A a \in Admins : save[a] = NoSave
      BY NoSaveIs DEF RetentionInit
    <2> QED BY <2>1, <2>2, NoSaveIs DEF SaveInv
  <1>3. TrailInv
    <2>1. /\ traced = [k \in Keys |-> None] /\ windows = [k \in Keys |-> {0}]
          /\ last = [k \in Keys |-> [on |-> None, clean |-> TRUE]]
          /\ retention[Audit] = 0 /\ day = 0 /\ pass = Asleep
      BY TablesAssumption DEF RetentionInit
    <2>2. \A k \in Keys : TrailIsDated(k) /\ Told(k)
      BY <2>1, AsleepIs DEF TrailIsDated, Told, None
    <2>3. [on |-> None, clean |-> TRUE] \in [on : Nat \cup {None}, clean : BOOLEAN]
      OBVIOUS
    <2> QED BY <2>1, <2>2, <2>3, DaysAssumption DEF TrailInv
  <1> QED BY <1>1, <1>2, <1>3, RetentionByParts

\* Passes and saves meet in the settings and in the trail of their changes.
LEMMA RetentionNextInv == RetentionInv /\ [RetentionNext]_rvars => RetentionInv'
  <1> SUFFICES ASSUME RetentionInv, [RetentionNext]_rvars PROVE RetentionInv' OBVIOUS
  <1>0. PassInv /\ SaveInv /\ TrailInv /\ retention \in [Keys -> Days]
    BY RetentionByParts DEF SaveInv
  <1>1. CASE PruneNext
    <2>1. PassInv'
      BY <1>0, <1>1, BeginPassInv, ReadSettingInv, DeleteBeforeInv, RestOfPassInv DEF PruneNext
    <2>2. UNCHANGED <<retention, save>>
      BY <1>1 DEF PruneNext, BeginPass, ReadSetting, DeleteBefore, SweepSessions, PruneFails,
         Heartbeat
    <2>3. SaveInv'
      BY <1>0, <2>2 DEF SaveInv, Sane, KnowsOf
    <2>4. ASSUME BeginPass \/ SweepSessions \/ PruneFails \/ Heartbeat PROVE TrailInv'
      <3>1. UNCHANGED <<day, retention, save, trail>>
        BY <2>4 DEF BeginPass, SweepSessions, PruneFails, Heartbeat
      <3>2. pass'.pc # "delete"
        BY <1>0, <2>4, AsleepIs DEF BeginPass, SweepSessions, PruneFails, Heartbeat, GivenUp,
           PassInv, Pass
      <3> QED BY <1>0, <3>1, <3>2, PassTrail
    <2>5. TrailInv'
      BY <1>0, <1>1, <2>4, ReadSettingTrail, DeleteTrail DEF PruneNext
    <2> QED BY <2>1, <2>3, <2>5, RetentionByParts
  <1>2. ASSUME NEW a \in Admins, SaveNext(a) PROVE RetentionInv'
    <2>1. SaveInv' /\ TrailInv'
      BY <1>0, <1>2, SettingsSaveInv, ChangedSettingsInv, SetSettingInv, RecordAuditInv,
         SaveFailsInv DEF SaveNext
    <2>2. UNCHANGED <<day, rows, pass>>
      BY <1>2 DEF SaveNext, settings_save, changed_settings, set_setting, record_audit, SaveFails
    <2>3. PassInv'
      BY <1>0, <2>2 DEF PassInv, Pruned, Exact, Old, Past
    <2> QED BY <2>1, <2>3, RetentionByParts
  <1>3. CASE NextDay \/ \E k \in Keys : InsertRow(k)
    <2>1. PassInv'
      BY <1>0, <1>3, RowsAndDaysInv
    <2>2. UNCHANGED <<retention, save>>
      BY <1>3 DEF NextDay, InsertRow
    <2>3. SaveInv'
      BY <1>0, <2>2 DEF SaveInv, Sane, KnowsOf
    <2>4. TrailInv'
      BY <1>0, <1>3, DaysTrail
    <2> QED BY <2>1, <2>3, <2>4, RetentionByParts
  <1>4. CASE UNCHANGED rvars
    <2>1. UNCHANGED <<day, rows, pass>> /\ UNCHANGED <<retention, save, trail>>
      BY <1>4 DEF rvars
    <2>2. PassInv'
      BY <1>0, <2>1 DEF PassInv, Pruned, Exact, Old, Past
    <2>3. SaveInv'
      BY <1>0, <2>1 DEF SaveInv, Sane, KnowsOf
    <2>4. TrailInv'
      BY <1>0, <2>1, TrailStays
    <2> QED BY <2>2, <2>3, <2>4, RetentionByParts
  <1> QED BY <1>1, <1>2, <1>3, <1>4 DEF RetentionNext

\* RetentionInv is an invariant: whatever the interleaving of prune_once with settings_save,
\* a pass knows what it is past, a save what it has compared and not been overtaken on, and
\* no entry of a change goes before an audit retention in force since has run out.
THEOREM RetentionInvariant == RetentionSpec => []RetentionInv
  BY RetentionInitInv, RetentionNextInv, PTL DEF RetentionSpec

\* A pass of prune_once deletes exactly what the setting that prune_table read no longer
\* allows, for any tables, settings and admins, whatever is saved and inserted meanwhile.
THEOREM PassAlwaysExact == RetentionSpec => []PassIsExact
  <1>1. RetentionInv => PassIsExact
    BY DEF RetentionInv
  <1> QED BY <1>1, RetentionInvariant, PTL

\* An entry of record_audit tells of the latest change of every setting, for any number of
\* admins, until delete_audit_before may take it by a retention in force since that change;
\* only a change over an overtaken comparison, or one whose save failed, has none.
THEOREM ChangesAlwaysLeaveATrace == RetentionSpec => []ChangesLeaveATrace
  <1>1. RetentionInv => ChangesLeaveATrace
    BY DEF RetentionInv
  <1> QED BY <1>1, RetentionInvariant, PTL
=============================================================================
