-------------------------- MODULE RateLimiterProofs --------------------------
(***************************************************************************)
(* Proofs about RateLimiter, for any number of keys and attempts in flight *)
(* and any limits and windows.                                             *)
(***************************************************************************)
EXTENDS RateLimiter, FiniteSetTheorems, TLAPS

\* What a bucket's counter and its histories have to do with each other.
Counted(n, t, l, max) == n <= max /\ t <= n + l

LEMMA InvByParts ==
  LimiterInv <=> /\ TypeOK /\ ChargedToTheClient /\ MapIsBounded
                 /\ \A k \in Buckets : Counted(count[k], tries[k], late[k], MaxAttempts)
                 /\ \A k \in Buckets : count[k] = 0 => tries[k] = 0
                 /\ Counted(overflow.count, overflow.tries, overflow.late, OverflowMax)
  BY DEF LimiterInv, Counted

LEMMA InvByPartsPrime ==
  LimiterInv' <=> /\ TypeOK' /\ ChargedToTheClient' /\ MapIsBounded'
                  /\ \A k \in Buckets : Counted(count'[k], tries'[k], late'[k], MaxAttempts)
                  /\ \A k \in Buckets : count'[k] = 0 => tries'[k] = 0
                  /\ Counted(overflow'.count, overflow'.tries, overflow'.late, OverflowMax)
  BY DEF LimiterInv, Counted

-----------------------------------------------------------------------------
(* Operators of the model. *)

LEMMA FreeFields == Free \in Attempt /\ ~Free.busy
  <1>1. AnyKey \in Buckets
    BY KeysAssumption DEF AnyKey, Buckets
  <1> QED BY <1>1 DEF Free, Attempt

\* Renewed forgets who paid, and nothing else.
LEMMA RenewedFields ==
  ASSUME NEW A \in [Attempts -> Attempt], NEW K
  PROVE  /\ Renewed(A, K) \in [Attempts -> Attempt]
         /\ \A a \in Attempts : /\ Renewed(A, K)[a].busy = A[a].busy
                                /\ Renewed(A, K)[a].key = A[a].key
                                /\ Renewed(A, K)[a].client = A[a].client
  BY DEF Renewed, Attempt

\* The counted keys, and those that a full map keeps, are finitely many.
LEMMA TrackedFinite ==
  ASSUME NEW key
  PROVE  /\ Tracked \subseteq Buckets /\ Retained(key) \subseteq Tracked
         /\ IsFiniteSet(Tracked) /\ IsFiniteSet(Retained(key))
         /\ Cardinality(Tracked) \in Nat /\ Cardinality(Retained(key)) \in Nat
         /\ Cardinality(Retained(key)) <= Cardinality(Tracked)
  <1>1. Tracked \subseteq Buckets /\ Retained(key) \subseteq Tracked
    BY DEF Tracked, Retained
  <1>2. IsFiniteSet(Tracked)
    <2>1. IsFiniteSet(Buckets)
      BY KeysAssumption, FS_AddElement DEF Buckets
    <2> QED BY <1>1, <2>1, FS_Subset
  <1>3. IsFiniteSet(Retained(key)) /\ Cardinality(Retained(key)) <= Cardinality(Tracked)
    BY <1>1, <1>2, FS_Subset
  <1> QED BY <1>1, <1>2, <1>3, FS_CardinalityType

\* What retain() drops has expired, and never the key at hand.
LEMMA DroppedHaveExpired ==
  ASSUME NEW key, NEW k \in Tracked \ Retained(key)
  PROVE  Expired(k) /\ k # key
  BY DEF Retained, NeedsRoom

\* Whatever header a client sends, the key is the address that the server can vouch for.
LEMMA KeyIsOrigin ==
  ASSUME NEW client \in Keys, NEW forged \in ForgedHops, NEW route \in Routes
  PROVE  /\ rate_limit_key(PeerOf(client, route), HopsOf(client, forged, route))
              = Origin(client, route)
         /\ Origin(client, route) \in Buckets
  <1>1. forged \in Seq(Keys \cup {Junk})
    <2>1. CASE forged = <<>>
      BY <2>1
    <2>2. ASSUME NEW k \in Keys \cup {Junk}, forged = <<k>>
          PROVE  forged \in Seq(Keys \cup {Junk})
      BY <2>2
    <2> QED BY <2>1, <2>2 DEF ForgedHops
  <1>2. ASSUME NEW x \in Keys \cup {Junk}
        PROVE  /\ Append(forged, x) # <<>>
               /\ Append(forged, x)[Len(Append(forged, x))] = x
    BY <1>1
  <1>3. CASE route = "direct"
    <2>1. client # NoPeer /\ client # Proxy
      BY AddressesAssumption
    <2> QED BY <1>3, <2>1 DEF rate_limit_key, PeerOf, Origin, Buckets
  <1>4. CASE route = "appended"
    <2>1. client # Junk /\ Proxy # NoPeer
      BY AddressesAssumption
    <2> QED BY <1>2, <1>4, <2>1 DEF rate_limit_key, PeerOf, HopsOf, Origin, Buckets
  <1>5. CASE route = "garbled"
    <2>1. Proxy # NoPeer
      BY AddressesAssumption
    <2> QED BY <1>2, <1>5, <2>1 DEF rate_limit_key, PeerOf, HopsOf, Origin, Buckets
  <1>6. CASE route = "absent"
    BY <1>6, AddressesAssumption DEF rate_limit_key, PeerOf, Origin, Buckets
  <1> QED BY <1>3, <1>4, <1>5, <1>6 DEF Routes

-----------------------------------------------------------------------------
(* The bound on the map. *)

\* A map whose keys are among those that retain() kept is within the bound.
LEMMA FewerKeys ==
  ASSUME TypeOK, MapIsBounded, NEW key,
         \A k \in Buckets : count'[k] > 0 => k \in Retained(key)
  PROVE  MapIsBounded'
  <1>1. Tracked' \subseteq Retained(key)
    BY DEF Tracked
  <1>2. Cardinality(Tracked') <= Cardinality(Retained(key)) /\ Cardinality(Tracked') \in Nat
    BY <1>1, TrackedFinite, FS_Subset, FS_CardinalityType
  <1> QED BY <1>2, TrackedFinite, LimitsAssumption DEF MapIsBounded

\* So is one that also has the key at hand, when there is room for it.
LEMMA OneMoreKey ==
  ASSUME TypeOK, MapIsBounded, NEW key \in Buckets, ~Overflows(key),
         \A k \in Buckets : count'[k] > 0 => k \in Retained(key) \cup {key}
  PROVE  MapIsBounded'
  <1> DEFINE R == Retained(key)
  <1>1. Tracked' \subseteq R \cup {key}
    BY DEF Tracked
  <1>2. /\ IsFiniteSet(R) /\ Cardinality(R) \in Nat
        /\ Cardinality(R) <= Cardinality(Tracked) /\ Cardinality(Tracked) \in Nat
    BY TrackedFinite
  <1>3. /\ IsFiniteSet(R \cup {key})
        /\ Cardinality(R \cup {key}) = IF key \in R THEN Cardinality(R) ELSE Cardinality(R) + 1
    BY <1>2, FS_AddElement
  <1>4. key \notin R => Cardinality(R) < MaxEntries
    <2>1. CASE NeedsRoom(key)
      BY <2>1, <1>2, LimitsAssumption DEF Overflows
    <2>2. CASE ~NeedsRoom(key)
      BY <2>2, <1>2, LimitsAssumption DEF NeedsRoom, Retained
    <2> QED BY <2>1, <2>2
  <1>5. Cardinality(Tracked') <= Cardinality(R \cup {key}) /\ Cardinality(Tracked') \in Nat
    BY <1>1, <1>3, FS_Subset, FS_CardinalityType
  <1> HIDE DEF R
  <1> QED BY <1>2, <1>3, <1>4, <1>5, LimitsAssumption DEF MapIsBounded

-----------------------------------------------------------------------------
(* One lemma per operation. *)

LEMMA InitInv == Init => LimiterInv
  <1> SUFFICES ASSUME Init PROVE LimiterInv
    OBVIOUS
  <1>1. TypeOK
    BY FreeFields DEF Init, TypeOK, Overflow
  <1>2. ChargedToTheClient
    BY FreeFields DEF Init, ChargedToTheClient
  <1>3. MapIsBounded
    <2>1. Tracked = {}
      BY DEF Init, Tracked
    <2> QED BY <2>1, FS_EmptySet, LimitsAssumption DEF MapIsBounded
  <1> QED BY <1>1, <1>2, <1>3, LimitsAssumption DEF Init, LimiterInv

\* The entries that retain() drops are gone, with their histories.
LEMMA DroppedInv ==
  ASSUME LimiterInv, NEW gone,
         count' = [k \in Buckets |-> IF k \in gone THEN 0 ELSE count[k]],
         tries' = [k \in Buckets |-> IF k \in gone THEN 0 ELSE tries[k]],
         late' = [k \in Buckets |-> IF k \in gone THEN 0 ELSE late[k]]
  PROVE  /\ count' \in [Buckets -> Nat] /\ tries' \in [Buckets -> Nat] /\ late' \in [Buckets -> Nat]
         /\ \A k \in Buckets : Counted(count'[k], tries'[k], late'[k], MaxAttempts)
         /\ \A k \in Buckets : count'[k] = 0 => tries'[k] = 0
  BY LimitsAssumption DEF LimiterInv, TypeOK, Counted

LEMMA AcquireOwnInv ==
  ASSUME LimiterInv, NEW a \in Attempts, NEW key \in Buckets, AcquireOwn(a, key, key)
  PROVE  LimiterInv'
  <1> DEFINE fresh == key \notin Retained(key) \/ Expired(key)
             gone == (Tracked \ Retained(key)) \cup (IF fresh THEN {key} ELSE {})
             mine == [busy |-> TRUE, client |-> key, key |-> key, own |-> TRUE, shared |-> FALSE]
  <1>1. /\ ~Overflows(key)
        /\ fresh \/ ~Full(count[key], MaxAttempts)
        /\ count' = [k \in Buckets |->
             IF k = key THEN (IF fresh THEN 1 ELSE count[k] + 1)
             ELSE IF k \in gone THEN 0 ELSE count[k]]
        /\ started' = [k \in Buckets |-> IF k = key /\ fresh THEN now ELSE started[k]]
        /\ att' = [Renewed(att, gone) EXCEPT ![a] = mine]
        /\ tries' = [k \in Buckets |->
             IF k = key THEN (IF fresh THEN 1 ELSE tries[k] + 1)
             ELSE IF k \in gone THEN 0 ELSE tries[k]]
        /\ late' = [k \in Buckets |-> IF k \in gone THEN 0 ELSE late[k]]
        /\ UNCHANGED <<kind, overflow, now>>
    BY DEF AcquireOwn
  <1>2. /\ TypeOK /\ ChargedToTheClient /\ MapIsBounded
        /\ \A k \in Buckets : Counted(count[k], tries[k], late[k], MaxAttempts)
        /\ \A k \in Buckets : count[k] = 0 => tries[k] = 0
        /\ Counted(overflow.count, overflow.tries, overflow.late, OverflowMax)
    BY InvByParts
  <1>3. /\ key \in gone <=> fresh
        /\ \A k \in Tracked \ Retained(key) : k \in gone
    BY DroppedHaveExpired
  <1>4. mine \in Attempt
    BY DEF Attempt
  <1>5. /\ Renewed(att, gone) \in [Attempts -> Attempt]
        /\ \A b \in Attempts : /\ Renewed(att, gone)[b].busy = att[b].busy
                               /\ Renewed(att, gone)[b].key = att[b].key
                               /\ Renewed(att, gone)[b].client = att[b].client
    BY <1>2, RenewedFields DEF TypeOK
  <1>6. mine.key = mine.client
    OBVIOUS
  <1>7. MapIsBounded'
    <2>1. \A k \in Buckets : count'[k] > 0 => k \in Retained(key) \cup {key}
      BY <1>1, <1>2, <1>3 DEF TypeOK, Tracked
    <2> QED BY <2>1, <1>1, <1>2, OneMoreKey
  <1> HIDE DEF fresh, gone, mine
  <1>8. TypeOK'
    BY <1>1, <1>2, <1>4, <1>5 DEF TypeOK
  <1>9. ChargedToTheClient'
    BY <1>1, <1>2, <1>4, <1>5, <1>6 DEF ChargedToTheClient
  <1>10. /\ \A k \in Buckets : Counted(count'[k], tries'[k], late'[k], MaxAttempts)
         /\ \A k \in Buckets : count'[k] = 0 => tries'[k] = 0
    BY <1>1, <1>2, <1>3, LimitsAssumption DEF TypeOK, Counted, Full
  <1>11. Counted(overflow'.count, overflow'.tries, overflow'.late, OverflowMax)
    BY <1>1, <1>2
  <1> QED BY <1>7, <1>8, <1>9, <1>10, <1>11, InvByPartsPrime

\* What the steps that only drop entries of the map have in common.
LEMMA OnlyDropsInv ==
  ASSUME LimiterInv, NEW key, NEW gone, gone = Tracked \ Retained(key),
         count' = [k \in Buckets |-> IF k \in gone THEN 0 ELSE count[k]],
         tries' = [k \in Buckets |-> IF k \in gone THEN 0 ELSE tries[k]],
         late' = [k \in Buckets |-> IF k \in gone THEN 0 ELSE late[k]],
         UNCHANGED <<kind, started, now>>,
         att' \in [Attempts -> Attempt], ChargedToTheClient',
         overflow' \in Overflow,
         Counted(overflow'.count, overflow'.tries, overflow'.late, OverflowMax)
  PROVE  LimiterInv'
  <1>1. /\ count' \in [Buckets -> Nat] /\ tries' \in [Buckets -> Nat] /\ late' \in [Buckets -> Nat]
        /\ \A k \in Buckets : Counted(count'[k], tries'[k], late'[k], MaxAttempts)
        /\ \A k \in Buckets : count'[k] = 0 => tries'[k] = 0
    BY DroppedInv
  <1>2. TypeOK'
    BY <1>1 DEF LimiterInv, TypeOK
  <1>3. MapIsBounded'
    <2>1. \A k \in Buckets : count'[k] > 0 => k \in Retained(key)
      BY DEF LimiterInv, TypeOK, Tracked
    <2> QED BY <2>1, FewerKeys DEF LimiterInv
  <1> QED BY <1>1, <1>2, <1>3, InvByPartsPrime

LEMMA AcquireSharedInv ==
  ASSUME LimiterInv, NEW a \in Attempts, NEW key \in Buckets, AcquireShared(a, key, key)
  PROVE  LimiterInv'
  <1> DEFINE fresh == now - overflow.started >= Window
             mine == [busy |-> TRUE, client |-> key, key |-> key, own |-> FALSE, shared |-> TRUE]
  <1>0. PICK gone : gone = Tracked \ Retained(key)
    OBVIOUS
  <1>1. /\ fresh \/ ~Full(overflow.count, OverflowMax)
        /\ overflow' = IF fresh THEN [count |-> 1, started |-> now, tries |-> 1, late |-> 0]
                       ELSE [overflow EXCEPT !.count = @ + 1, !.tries = @ + 1]
        /\ att' = [b \in Attempts |->
             IF b = a THEN mine
             ELSE [Renewed(att, gone)[b] EXCEPT !.shared = IF fresh THEN FALSE ELSE @]]
        /\ count' = [k \in Buckets |-> IF k \in gone THEN 0 ELSE count[k]]
        /\ tries' = [k \in Buckets |-> IF k \in gone THEN 0 ELSE tries[k]]
        /\ late' = [k \in Buckets |-> IF k \in gone THEN 0 ELSE late[k]]
        /\ UNCHANGED <<kind, started, now>>
    BY <1>0 DEF AcquireShared
  <1>2. /\ Renewed(att, gone) \in [Attempts -> Attempt]
        /\ \A b \in Attempts : /\ Renewed(att, gone)[b].busy = att[b].busy
                               /\ Renewed(att, gone)[b].key = att[b].key
                               /\ Renewed(att, gone)[b].client = att[b].client
    BY RenewedFields DEF LimiterInv, TypeOK
  <1>3. /\ overflow' \in Overflow
        /\ Counted(overflow'.count, overflow'.tries, overflow'.late, OverflowMax)
    <2>1. PICK o \in Overflow : o = overflow /\ Counted(o.count, o.tries, o.late, OverflowMax)
      BY InvByParts DEF TypeOK
    <2>2. o.count \in Nat /\ o.tries \in Nat /\ o.late \in Nat /\ o.started \in Nat /\ now \in Nat
      BY <2>1 DEF Overflow, LimiterInv, TypeOK
    <2>3. CASE fresh
      <3>1. overflow' = [count |-> 1, started |-> now, tries |-> 1, late |-> 0]
        BY <1>1, <2>3
      <3> QED BY <3>1, <2>2, LimitsAssumption DEF Overflow, Counted
    <2>4. CASE ~fresh
      <3>1. PICK m \in Nat, t \in Nat : m = o.count + 1 /\ t = o.tries + 1
        BY <2>2
      <3>2. overflow' = [o EXCEPT !.count = m, !.tries = t] /\ ~Full(o.count, OverflowMax)
        BY <1>1, <2>1, <2>4, <3>1
      <3>3. overflow' \in Overflow /\ overflow'.count = m /\ overflow'.tries = t /\ overflow'.late = o.late
        BY <3>2 DEF Overflow
      <3> QED BY <3>1, <3>2, <3>3, <2>1, <2>2, LimitsAssumption DEF Counted, Full
    <2> QED BY <2>3, <2>4
  <1>4. att' \in [Attempts -> Attempt]
    <2>1. mine \in Attempt
      BY DEF Attempt
    <2>2. ASSUME NEW r \in Attempt
          PROVE  [r EXCEPT !.shared = IF fresh THEN FALSE ELSE @] \in Attempt
      BY DEF Attempt
    <2> HIDE DEF fresh, mine
    <2> QED BY <1>1, <1>2, <2>1, <2>2
  <1>5. ChargedToTheClient'
    <2>1. ASSUME NEW r \in Attempt
          PROVE  LET n == [r EXCEPT !.shared = IF fresh THEN FALSE ELSE @] IN
                 n.busy = r.busy /\ n.key = r.key /\ n.client = r.client
      BY DEF Attempt
    <2>2. mine.key = mine.client
      OBVIOUS
    <2> HIDE DEF fresh, mine
    <2>3. ASSUME NEW b \in Attempts
          PROVE  att'[b].busy => att'[b].key = att'[b].client
      <3>1. CASE b = a
        BY <3>1, <1>1, <2>2
      <3>2. CASE b # a
        <4>1. PICK r \in Attempt : r = Renewed(att, gone)[b]
          BY <1>2
        <4>2. att'[b] = [r EXCEPT !.shared = IF fresh THEN FALSE ELSE @]
          BY <3>2, <4>1, <1>1
        <4>3. r.busy => r.key = r.client
          BY <4>1, <1>2 DEF LimiterInv, ChargedToTheClient
        <4> QED BY <4>2, <4>3, <2>1
      <3> QED BY <3>1, <3>2
    <2> QED BY <2>3 DEF ChargedToTheClient
  <1> HIDE DEF fresh, mine
  <1> QED BY <1>0, <1>1, <1>3, <1>4, <1>5, OnlyDropsInv

LEMMA RefusedInv ==
  ASSUME LimiterInv, NEW client, NEW key, Refused(client, key)
  PROVE  LimiterInv'
  <1>0. PICK gone : gone = Tracked \ Retained(key)
    OBVIOUS
  <1>1. /\ count' = [k \in Buckets |-> IF k \in gone THEN 0 ELSE count[k]]
        /\ tries' = [k \in Buckets |-> IF k \in gone THEN 0 ELSE tries[k]]
        /\ late' = [k \in Buckets |-> IF k \in gone THEN 0 ELSE late[k]]
        /\ att' = Renewed(att, gone)
        /\ UNCHANGED <<kind, started, overflow, now>>
    BY <1>0 DEF Refused
  <1>2. att' \in [Attempts -> Attempt] /\ ChargedToTheClient'
    BY <1>1, RenewedFields DEF LimiterInv, TypeOK, ChargedToTheClient
  <1>3. /\ overflow' \in Overflow
        /\ Counted(overflow'.count, overflow'.tries, overflow'.late, OverflowMax)
    BY <1>1, InvByParts DEF TypeOK
  <1> QED BY <1>0, <1>1, <1>2, <1>3, OnlyDropsInv

\* A step that frees a slot, and otherwise only forgets who paid.
LEMMA FreedSlot ==
  ASSUME LimiterInv, NEW a \in Attempts, NEW K, att' = [Renewed(att, K) EXCEPT ![a] = Free]
  PROVE  att' \in [Attempts -> Attempt] /\ ChargedToTheClient'
  <1>1. /\ Renewed(att, K) \in [Attempts -> Attempt]
        /\ \A b \in Attempts : /\ Renewed(att, K)[b].busy = att[b].busy
                               /\ Renewed(att, K)[b].key = att[b].key
                               /\ Renewed(att, K)[b].client = att[b].client
    BY RenewedFields DEF LimiterInv, TypeOK
  <1> QED BY <1>1, FreeFields DEF LimiterInv, ChargedToTheClient

LEMMA NothingRenewed ==
  ASSUME TypeOK
  PROVE  Renewed(att, {}) = att
  BY DEF TypeOK, Renewed

\* When no key is added and no counter's bucket grows, the map is within its bound.
LEMMA NoNewKeys ==
  ASSUME LimiterInv, \A k \in Buckets : count'[k] > 0 => count[k] > 0
  PROVE  MapIsBounded'
  <1>1. Tracked' \subseteq Tracked
    BY DEF Tracked
  <1>2. Cardinality(Tracked') <= Cardinality(Tracked) /\ Cardinality(Tracked') \in Nat
    BY <1>1, TrackedFinite, FS_Subset, FS_CardinalityType
  <1> QED BY <1>2, TrackedFinite, LimitsAssumption DEF LimiterInv, MapIsBounded

LEMMA FailsInv ==
  ASSUME LimiterInv, NEW a \in Attempts, Fails(a)
  PROVE  LimiterInv'
  <1>1. att' \in [Attempts -> Attempt] /\ ChargedToTheClient'
    BY FreeFields DEF LimiterInv, TypeOK, ChargedToTheClient, Fails
  <1>2. MapIsBounded'
    BY NoNewKeys DEF Fails
  <1>3. TypeOK'
    BY <1>1 DEF LimiterInv, TypeOK, Fails
  <1> QED BY <1>1, <1>2, <1>3, InvByParts, InvByPartsPrime DEF Fails

LEMMA ReleaseInv ==
  ASSUME LimiterInv, NEW a \in Attempts, release(a)
  PROVE  LimiterInv'
  <1>0. PICK k \in Buckets : k = att[a].key
    BY DEF LimiterInv, TypeOK, Attempt
  <1>1. count[k] \in Nat /\ tries[k] \in Nat /\ late[k] \in Nat
    BY DEF LimiterInv, TypeOK
  <1>2. PICK n \in Nat : n = Refunded(count[k]) /\ (count[k] > 0 => n = count[k] - 1)
    BY <1>1 DEF Refunded, OneLess
  <1>3. CASE count[k] > 0
    <2>1. /\ count' = [count EXCEPT ![k] = n]
          /\ tries' = [tries EXCEPT ![k] = IF n = 0 THEN 0
                                           ELSE IF att[a].own THEN OneLess(tries[k]) ELSE tries[k]]
          /\ late' = [late EXCEPT ![k] = IF n = 0 THEN 0
                                         ELSE IF att[a].own THEN late[k] ELSE late[k] + 1]
          /\ att' = [Renewed(att, IF n = 0 THEN {k} ELSE {}) EXCEPT ![a] = Free]
          /\ UNCHANGED <<kind, started, overflow, now>>
      BY <1>0, <1>2, <1>3 DEF release
    <2>2. att' \in [Attempts -> Attempt] /\ ChargedToTheClient'
      BY <2>1, FreedSlot
    <2>3. MapIsBounded'
      BY <2>1, <1>3, NoNewKeys DEF LimiterInv, TypeOK
    <2>4. TypeOK'
      <3>1. OneLess(tries[k]) \in Nat
        BY <1>1 DEF OneLess
      <3>2. tries' \in [Buckets -> Nat] /\ late' \in [Buckets -> Nat] /\ count' \in [Buckets -> Nat]
        BY <2>1, <1>1, <3>1 DEF LimiterInv, TypeOK
      <3> QED BY <2>1, <2>2, <3>2 DEF LimiterInv, TypeOK
    <2>5. /\ \A j \in Buckets : Counted(count'[j], tries'[j], late'[j], MaxAttempts)
          /\ \A j \in Buckets : count'[j] = 0 => tries'[j] = 0
      BY <2>1, <1>1, <1>2, <1>3, LimitsAssumption DEF LimiterInv, TypeOK, OneLess, Counted
    <2>6. Counted(overflow'.count, overflow'.tries, overflow'.late, OverflowMax)
      BY <2>1, InvByParts
    <2> QED BY <2>2, <2>3, <2>4, <2>5, <2>6, InvByPartsPrime
  <1>4. CASE ~(count[k] > 0)
    <2>1. /\ overflow' = [overflow EXCEPT
                !.count = Refunded(overflow.count),
                !.tries = IF att[a].shared THEN OneLess(overflow.tries) ELSE overflow.tries,
                !.late = IF att[a].shared \/ overflow.count = 0 THEN overflow.late
                         ELSE overflow.late + 1]
          /\ att' = [att EXCEPT ![a] = Free]
          /\ UNCHANGED <<kind, count, started, now, tries, late>>
      BY <1>0, <1>4 DEF release
    <2>2. att' \in [Attempts -> Attempt] /\ ChargedToTheClient'
      BY <2>1, FreeFields DEF LimiterInv, TypeOK, ChargedToTheClient
    <2>3. MapIsBounded'
      BY <2>1, NoNewKeys
    <2>4. /\ overflow' \in Overflow
          /\ Counted(overflow'.count, overflow'.tries, overflow'.late, OverflowMax)
      <3>1. PICK o \in Overflow : o = overflow /\ Counted(o.count, o.tries, o.late, OverflowMax)
        BY InvByParts DEF TypeOK
      <3>2. o.count \in Nat /\ o.tries \in Nat /\ o.late \in Nat /\ o.started \in Nat
        BY <3>1 DEF Overflow
      <3>3. PICK t, l : /\ t = IF att[a].shared THEN OneLess(o.tries) ELSE o.tries
                        /\ l = IF att[a].shared \/ o.count = 0 THEN o.late ELSE o.late + 1
        OBVIOUS
      <3>4. PICK m : m = OneLess(o.count)
        OBVIOUS
      <3>5. overflow' = [o EXCEPT !.count = m, !.tries = t, !.late = l]
        BY <2>1, <3>1, <3>3, <3>4 DEF Refunded
      <3>6. m \in Nat /\ t \in Nat /\ l \in Nat /\ Counted(m, t, l, OverflowMax)
        BY <3>1, <3>2, <3>3, <3>4, LimitsAssumption DEF OneLess, Counted
      <3>7. overflow' \in Overflow /\ overflow'.count = m /\ overflow'.tries = t /\ overflow'.late = l
        BY <3>5, <3>6, <3>2 DEF Overflow
      <3> QED BY <3>6, <3>7
    <2>5. TypeOK'
      BY <2>1, <2>2, <2>4 DEF LimiterInv, TypeOK
    <2> QED BY <2>1, <2>2, <2>3, <2>4, <2>5, InvByParts, InvByPartsPrime
  <1> QED BY <1>3, <1>4

LEMMA ClearInv ==
  ASSUME LimiterInv, NEW a \in Attempts, clear(a)
  PROVE  LimiterInv'
  <1>0. PICK k \in Buckets : k = att[a].key
    BY DEF LimiterInv, TypeOK, Attempt
  <1>1. /\ count' = [count EXCEPT ![k] = 0]
        /\ tries' = [tries EXCEPT ![k] = 0]
        /\ late' = [late EXCEPT ![k] = 0]
        /\ att' = [Renewed(att, {k}) EXCEPT ![a] = Free]
        /\ UNCHANGED <<kind, started, overflow, now>>
    BY <1>0 DEF clear
  <1>2. att' \in [Attempts -> Attempt] /\ ChargedToTheClient'
    BY <1>1, FreedSlot
  <1>3. MapIsBounded'
    BY <1>1, NoNewKeys DEF LimiterInv, TypeOK
  <1>4. TypeOK'
    BY <1>1, <1>2 DEF LimiterInv, TypeOK
  <1>5. /\ \A j \in Buckets : Counted(count'[j], tries'[j], late'[j], MaxAttempts)
        /\ \A j \in Buckets : count'[j] = 0 => tries'[j] = 0
    BY <1>1, LimitsAssumption DEF LimiterInv, TypeOK, Counted
  <1> QED BY <1>1, <1>2, <1>3, <1>4, <1>5, InvByParts, InvByPartsPrime

LEMMA StutterInv ==
  ASSUME LimiterInv, UNCHANGED <<kind, count, started, overflow, att, tries, late>>,
         now' \in Nat
  PROVE  LimiterInv'
  <1>1. MapIsBounded'
    BY NoNewKeys
  <1> QED BY <1>1 DEF LimiterInv, TypeOK, ChargedToTheClient

LEMMA NextInv == LimiterInv /\ [Next]_vars => LimiterInv'
  <1> SUFFICES ASSUME LimiterInv, [Next]_vars PROVE LimiterInv'
    OBVIOUS
  <1>1. ASSUME NEW a \in Attempts, NEW client \in Keys, NEW forged \in ForgedHops,
               NEW route \in Routes, try_acquire(a, client, forged, route)
        PROVE  LimiterInv'
    <2>0. PICK k \in Buckets : k = IF kind = "account" THEN client ELSE Origin(client, route)
      BY KeyIsOrigin DEF Buckets
    <2>1. AcquireOwn(a, k, k) \/ AcquireShared(a, k, k) \/ Refused(k, k)
      BY <1>1, <2>0, KeyIsOrigin DEF try_acquire
    <2> QED BY <2>1, AcquireOwnInv, AcquireSharedInv, RefusedInv
  <1>2. ASSUME NEW a \in Attempts, Fails(a) \/ release(a) \/ clear(a)
        PROVE  LimiterInv'
    BY <1>2, FailsInv, ReleaseInv, ClearInv
  <1>3. CASE Tick
    BY <1>3, StutterInv DEF Tick, LimiterInv, TypeOK
  <1>4. CASE UNCHANGED vars
    BY <1>4, StutterInv DEF vars, LimiterInv, TypeOK
  <1> QED BY <1>1, <1>2, <1>3, <1>4 DEF Next

-----------------------------------------------------------------------------
(* The theorems. *)

\* No order of attempts, refunds and windows makes a counter of ratelimit.rs fall behind
\* what it admitted, lets the map outgrow max_entries, or charges another client.
THEOREM LimiterInvariant == Spec => []LimiterInv
  BY InitInv, NextInv, PTL DEF Spec

\* try_acquire admits at most max_attempts guesses per window and key, plus one for each
\* refund of an attempt that another window or the shared bucket had paid for.
THEOREM GuessesAlwaysBounded == Spec => []GuessesAreBounded
  <1>1. LimiterInv => GuessesAreBounded
    BY LimitsAssumption DEF LimiterInv, TypeOK, Overflow, GuessesAreBounded
  <1> QED BY <1>1, LimiterInvariant, PTL

\* rate_limit_key never takes the hop a client forged: the attempt is charged to the
\* address it came from.
THEOREM AlwaysChargedToTheClient == Spec => []ChargedToTheClient
  <1>1. LimiterInv => ChargedToTheClient
    BY DEF LimiterInv
  <1> QED BY <1>1, LimiterInvariant, PTL

\* A counter whose window still runs only goes down when an attempt on its key succeeds:
\* retain() in try_acquire drops none, however many keys are sprayed at a full map.
THEOREM LiveCountersAlwaysStay == Spec => LiveCountersStay
  <1> DEFINE Lower(k) == count[k] > 0 /\ ~Expired(k) /\ count'[k] < count[k]
             Done(k) == \E a \in Attempts : att[a].busy /\ att[a].key = k /\ ~att'[a].busy
  <1>1. ASSUME LimiterInv, [Next]_vars
        PROVE  [\A k \in Buckets : Lower(k) => Done(k)]_vars
    <2> SUFFICES ASSUME NEW k \in Buckets, Lower(k)
                 PROVE  Done(k)
      OBVIOUS
    <2>0. count \in [Buckets -> Nat] /\ att \in [Attempts -> Attempt]
      BY <1>1 DEF LimiterInv, TypeOK
    <2>1. ASSUME NEW key \in Buckets PROVE k \in Retained(key)
      BY <2>0, DroppedHaveExpired DEF Tracked
    <2>2. ASSUME NEW a \in Attempts, NEW client \in Keys, NEW forged \in ForgedHops,
                 NEW route \in Routes, try_acquire(a, client, forged, route)
          PROVE  FALSE
      <3>0. PICK j \in Buckets : j = IF kind = "account" THEN client ELSE Origin(client, route)
        BY KeyIsOrigin DEF Buckets
      <3>1. CASE AcquireOwn(a, j, j)
        BY <3>1, <2>0, <2>1 DEF AcquireOwn
      <3>2. CASE AcquireShared(a, j, j)
        BY <3>2, <2>0, <2>1 DEF AcquireShared
      <3>3. CASE Refused(j, j)
        BY <3>3, <2>0, <2>1 DEF Refused
      <3> QED BY <3>0, <3>1, <3>2, <3>3, <2>2, KeyIsOrigin DEF try_acquire
    <2>3. ASSUME NEW a \in Attempts, release(a) \/ clear(a)
          PROVE  Done(k)
      <3>1. att[a].busy /\ (att'[a] = Free) /\ (att[a].key # k => count'[k] = count[k])
        <4>1. PICK j \in Buckets : j = att[a].key
          BY <2>0 DEF Attempt
        <4>2. ASSUME NEW K PROVE a \in DOMAIN Renewed(att, K)
          BY <2>0 DEF Renewed
        <4>3. CASE release(a)
          BY <4>1, <4>2, <4>3, <2>0 DEF release
        <4>4. CASE clear(a)
          BY <4>1, <4>2, <4>4, <2>0 DEF clear
        <4> QED BY <4>3, <4>4, <2>3
      <3>2. att[a].key = k
        BY <3>1, <2>0
      <3> QED BY <3>1, <3>2, FreeFields
    <2>4. ASSUME NEW a \in Attempts, Fails(a)
          PROVE  FALSE
      BY <2>4, <2>0 DEF Fails
    <2>5. CASE Tick
      BY <2>5, <2>0 DEF Tick
    <2>6. CASE UNCHANGED vars
      BY <2>6, <2>0 DEF vars
    <2> QED BY <1>1, <2>2, <2>3, <2>4, <2>5, <2>6 DEF Next
  <1>2. LimiterInv /\ [Next]_vars => [\A k \in Buckets : Lower(k) => Done(k)]_vars
    BY <1>1
  <1> QED BY <1>2, LimiterInvariant, PTL DEF Spec, LiveCountersStay
=============================================================================
