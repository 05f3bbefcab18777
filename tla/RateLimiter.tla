---------------------------- MODULE RateLimiter -----------------------------
(***************************************************************************)
(* ratelimit.rs: the fixed-window limiter in front of POST /login, and the *)
(* way login_submit and reauthenticate use it: an attempt is reserved      *)
(* before the password is checked, and a success hands it back (release,   *)
(* the limiter per client address) or drops the bucket (clear, the limiter *)
(* per account).  Each operation runs under one lock and is one step;      *)
(* between them other attempts run and windows roll over.                  *)
(***************************************************************************)
EXTENDS Integers, FiniteSets, Sequences

CONSTANTS
  Keys,         \* client addresses, or account names
  Proxy,        \* the reverse proxy, the one trusted peer
  Loopback,     \* 127.0.0.1, an address like any other
  NoPeer,       \* a request without ConnectInfo
  Junk,         \* a hop that is no address, or a header line that is no text
  Attempts,     \* slots for attempts in flight at the same time
  MaxAttempts,  \* attempts per window and key
  OverflowMax,  \* MaxAttempts times OVERFLOW_FACTOR
  MaxEntries,   \* hard cap on tracked keys
  Window,       \* length of a window in ticks
  MaxTime       \* bound: the clock stops here

ASSUME LimitsAssumption ==
  /\ MaxAttempts \in Nat \ {0} /\ OverflowMax \in Nat \ {0} /\ MaxEntries \in Nat
  /\ Window \in Nat /\ MaxTime \in Nat
ASSUME AddressesAssumption ==
  /\ Proxy \notin Keys /\ Loopback \in Keys
  /\ NoPeer \notin Keys \cup {Proxy} /\ Junk \notin Keys
ASSUME KeysAssumption == Keys # {} /\ IsFiniteSet(Keys)

\* Attempts of clients that the proxy names illegibly are counted against the proxy.
Buckets == Keys \cup {Proxy}

VARIABLES
  kind,      \* which limiter: "ip" (release) or "account" (clear); never changes
  count,     \* per_key: attempts; 0 when the map has no entry
  started,   \* per_key: start of the window
  overflow,  \* the shared bucket
  att,       \* the attempts whose password is being checked
  now,
  tries,     \* history: admitted to the key's bucket since it was opened, not refunded
  late       \* history: refunds to the key's bucket of attempts charged elsewhere

vars == <<kind, count, started, overflow, att, now, tries, late>>

\* `client`: who made the attempt, as far as the server can vouch for it.
\* `own`: charged to the bucket of its key and that bucket is still the same one.
\* `shared`: charged to the overflow bucket, in its present window.
Attempt ==
  [busy : BOOLEAN, client : Buckets, key : Buckets, own : BOOLEAN, shared : BOOLEAN]

AnyKey == CHOOSE k \in Keys : TRUE
Free == [busy |-> FALSE, client |-> AnyKey, key |-> AnyKey, own |-> FALSE, shared |-> FALSE]

\* The overflow bucket, with the same two histories.
Overflow == [count : Nat, started : Nat, tries : Nat, late : Nat]

TypeOK ==
  /\ kind \in {"ip", "account"}
  /\ count \in [Buckets -> Nat] /\ started \in [Buckets -> Nat]
  /\ overflow \in Overflow
  /\ att \in [Attempts -> Attempt]
  /\ now \in Nat
  /\ tries \in [Buckets -> Nat] /\ late \in [Buckets -> Nat]

-----------------------------------------------------------------------------
\* Mutant: the leftmost hop, which the client writes.
LeftmostHop(peer, hops) ==
  IF peer = NoPeer THEN Loopback
  ELSE IF peer = Proxy /\ hops # <<>> /\ hops[1] # Junk THEN hops[1] ELSE peer

\* The rightmost hop of X-Forwarded-For, trusted only from the proxy.
rate_limit_key(peer, hops) ==
  IF peer = NoPeer THEN Loopback
  ELSE IF peer = Proxy /\ hops # <<>> /\ hops[Len(hops)] # Junk THEN hops[Len(hops)]
  ELSE peer

\* per_key.len() and contains_key.
Tracked == {k \in Buckets : count[k] > 0}

Expired(k) == now - started[k] >= Window

\* Entries that retain() keeps when the map is full and the key is new.
NeedsRoom(key) == Cardinality(Tracked) >= MaxEntries /\ key \notin Tracked

\* Mutant: a full map is emptied to make room.
ClearsAll(key) == IF NeedsRoom(key) THEN {} ELSE Tracked

Retained(key) == IF NeedsRoom(key) THEN {k \in Tracked : ~Expired(k)} ELSE Tracked

\* After retain() there is still no room: the shared bucket pays.
Overflows(key) == NeedsRoom(key) /\ Cardinality(Retained(key)) >= MaxEntries

\* The buckets that retain() dropped, or whose window begins anew, are new to all
\* attempts in flight.
Renewed(A, K) == [a \in DOMAIN A |-> IF A[a].key \in K THEN [A[a] EXCEPT !.own = FALSE] ELSE A[a]]

\* Mutant: the attempt that reaches the limit is let through once more.
FullAbove(n, max) == n > max

Full(n, max) == n >= max

\* try_acquire with a bucket of its own, present or to be inserted.  charge() starts
\* a window anew when it has elapsed.
AcquireOwn(a, client, key) ==
  LET fresh == key \notin Retained(key) \/ Expired(key)
      gone  == (Tracked \ Retained(key)) \cup (IF fresh THEN {key} ELSE {})
  IN
  /\ ~att[a].busy
  /\ ~Overflows(key)
  /\ fresh \/ ~Full(count[key], MaxAttempts)
  /\ count' = [k \in Buckets |->
       IF k = key THEN (IF fresh THEN 1 ELSE count[k] + 1)
       ELSE IF k \in gone THEN 0 ELSE count[k]]
  /\ started' = [k \in Buckets |-> IF k = key /\ fresh THEN now ELSE started[k]]
  /\ att' = [Renewed(att, gone) EXCEPT ![a] =
       [busy |-> TRUE, client |-> client, key |-> key, own |-> TRUE, shared |-> FALSE]]
  /\ tries' = [k \in Buckets |->
       IF k = key THEN (IF fresh THEN 1 ELSE tries[k] + 1)
       ELSE IF k \in gone THEN 0 ELSE tries[k]]
  /\ late' = [k \in Buckets |-> IF k \in gone THEN 0 ELSE late[k]]
  /\ UNCHANGED <<kind, overflow, now>>

\* try_acquire at the cap with every entry live.
AcquireShared(a, client, key) ==
  LET fresh == now - overflow.started >= Window
      gone  == Tracked \ Retained(key)
  IN
  /\ ~att[a].busy
  /\ Overflows(key)
  /\ fresh \/ ~Full(overflow.count, OverflowMax)
  /\ overflow' = IF fresh THEN [count |-> 1, started |-> now, tries |-> 1, late |-> 0]
                 ELSE [overflow EXCEPT !.count = @ + 1, !.tries = @ + 1]
  /\ att' = [b \in Attempts |->
       IF b = a THEN [busy |-> TRUE, client |-> client, key |-> key, own |-> FALSE,
                      shared |-> TRUE]
       ELSE [Renewed(att, gone)[b] EXCEPT !.shared = IF fresh THEN FALSE ELSE @]]
  /\ count' = [k \in Buckets |-> IF k \in gone THEN 0 ELSE count[k]]
  /\ tries' = [k \in Buckets |-> IF k \in gone THEN 0 ELSE tries[k]]
  /\ late' = [k \in Buckets |-> IF k \in gone THEN 0 ELSE late[k]]
  /\ UNCHANGED <<kind, started, now>>

\* A refused attempt leaves the counters alone but for what retain() dropped.
Refused(client, key) ==
  LET gone == Tracked \ Retained(key) IN
  /\ \/ Overflows(key) /\ now - overflow.started < Window /\ Full(overflow.count, OverflowMax)
     \/ ~Overflows(key) /\ key \in Retained(key) /\ ~Expired(key)
        /\ Full(count[key], MaxAttempts)
  /\ count' = [k \in Buckets |-> IF k \in gone THEN 0 ELSE count[k]]
  /\ tries' = [k \in Buckets |-> IF k \in gone THEN 0 ELSE tries[k]]
  /\ late' = [k \in Buckets |-> IF k \in gone THEN 0 ELSE late[k]]
  /\ att' = Renewed(att, gone)
  /\ UNCHANGED <<kind, started, overflow, now>>

\* How a request reaches the server: past the proxy, through it with the client's
\* address appended, through it with a last hop that does not parse, or without a peer.
Routes == {"direct", "appended", "garbled", "absent"}

PeerOf(client, route) ==
  CASE route = "direct" -> client
    [] route = "absent" -> NoPeer
    [] OTHER -> Proxy

\* The header as it arrives, beginning with what the client wrote itself.
HopsOf(client, forged, route) ==
  CASE route = "appended" -> Append(forged, client)
    [] route = "garbled" -> Append(forged, Junk)
    [] OTHER -> forged

\* The address the server can vouch for, whatever the client wrote.
Origin(client, route) ==
  CASE route = "garbled" -> Proxy
    [] route = "absent" -> Loopback
    [] OTHER -> client

\* The address limiter counts an address, the account limiter the submitted name.
try_acquire(a, client, forged, route) ==
  LET key == IF kind = "account" THEN client
             ELSE rate_limit_key(PeerOf(client, route), HopsOf(client, forged, route))
      who == IF kind = "account" THEN client ELSE Origin(client, route)
  IN
  AcquireOwn(a, who, key) \/ AcquireShared(a, who, key) \/ Refused(who, key)

\* A wrong password, a disabled account or a lost connection: the reservation stays.
Fails(a) ==
  /\ att[a].busy
  /\ att' = [att EXCEPT ![a] = Free]
  /\ UNCHANGED <<kind, count, started, overflow, now, tries, late>>

OneLess(n) == IF n > 0 THEN n - 1 ELSE 0

\* Mutant: a success wipes out the failures of others behind the same address.
RefundsAll(n) == 0

Refunded(n) == OneLess(n)

\* release: the bucket of the key if there is one, else the overflow bucket, whichever
\* of them was charged.
release(a) ==
  LET k == att[a].key n == Refunded(count[k]) IN
  /\ att[a].busy /\ kind = "ip"
  /\ IF count[k] > 0
     THEN /\ count' = [count EXCEPT ![k] = n]
          /\ tries' = [tries EXCEPT ![k] = IF n = 0 THEN 0 ELSE IF att[a].own THEN OneLess(@) ELSE @]
          /\ late' = [late EXCEPT ![k] = IF n = 0 THEN 0 ELSE IF att[a].own THEN @ ELSE @ + 1]
          /\ att' = [Renewed(att, IF n = 0 THEN {k} ELSE {}) EXCEPT ![a] = Free]
          /\ UNCHANGED overflow
     ELSE /\ overflow' = [overflow EXCEPT
               !.count = Refunded(@),
               !.tries = IF att[a].shared THEN OneLess(@) ELSE @,
               !.late = IF att[a].shared \/ overflow.count = 0 THEN @ ELSE @ + 1]
          /\ att' = [att EXCEPT ![a] = Free]
          /\ UNCHANGED <<count, tries, late>>
  /\ UNCHANGED <<kind, started, now>>

\* clear: the credential is proven.
clear(a) ==
  LET k == att[a].key IN
  /\ att[a].busy /\ kind = "account"
  /\ count' = [count EXCEPT ![k] = 0]
  /\ tries' = [tries EXCEPT ![k] = 0]
  /\ late' = [late EXCEPT ![k] = 0]
  /\ att' = [Renewed(att, {k}) EXCEPT ![a] = Free]
  /\ UNCHANGED <<kind, started, overflow, now>>

Tick == now < MaxTime /\ now' = now + 1
        /\ UNCHANGED <<kind, count, started, overflow, att, tries, late>>

Init ==
  /\ kind \in {"ip", "account"}
  /\ count = [k \in Buckets |-> 0] /\ started = [k \in Buckets |-> 0]
  /\ overflow = [count |-> 0, started |-> 0, tries |-> 0, late |-> 0]
  /\ att = [a \in Attempts |-> Free]
  /\ now = 0
  /\ tries = [k \in Buckets |-> 0] /\ late = [k \in Buckets |-> 0]

\* The headers a client may send on its own: none, or one hop, forged or garbled.
ForgedHops == {<<>>} \cup {<<k>> : k \in Keys \cup {Junk}}

Next ==
  \/ \E a \in Attempts :
       \/ \E client \in Keys, forged \in ForgedHops, route \in Routes :
            try_acquire(a, client, forged, route)
       \/ Fails(a)
       \/ release(a)
       \/ clear(a)
  \/ Tick

Spec == Init /\ [][Next]_vars

-----------------------------------------------------------------------------
\* No key gets more guesses per window than the limit, whatever order attempts,
\* refunds and the end of a window come in; each refund of an attempt that was charged
\* to an earlier window, or to the shared bucket, buys at most one more.
GuessesAreBounded ==
  /\ \A k \in Buckets : tries[k] <= MaxAttempts + late[k]
  /\ overflow.tries <= OverflowMax + overflow.late

\* "Never clear live counters": a bucket whose window still runs disappears only by a
\* success on the same key, however many other keys are sprayed at a full map.
LiveCountersStay ==
  [][\A k \in Buckets :
       count[k] > 0 /\ ~Expired(k) /\ count'[k] < count[k]
         => \E a \in Attempts : att[a].busy /\ att[a].key = k /\ ~att'[a].busy]_vars

\* The map never holds more than max_entries keys.
MapIsBounded == Cardinality(Tracked) <= MaxEntries

\* An attempt is charged to the address the server can vouch for: the client's own past
\* the proxy or as the proxy appended it, else the proxy's or loopback's.  The hop a
\* client puts into the header itself never decides.
ChargedToTheClient == \A a \in Attempts : att[a].busy => att[a].key = att[a].client

\* What all steps preserve together: counters never fall behind what they admitted.
LimiterInv ==
  /\ TypeOK
  /\ \A k \in Buckets : count[k] <= MaxAttempts /\ tries[k] <= count[k] + late[k]
  /\ overflow.count <= OverflowMax /\ overflow.tries <= overflow.count + overflow.late
  /\ \A k \in Buckets : count[k] = 0 => tries[k] = 0
  /\ ChargedToTheClient
  /\ MapIsBounded
=============================================================================
