---------------------------- MODULE HistoryProofs ----------------------------
(***************************************************************************)
(* Proofs about History and LiveTail: the walk from page to page skips     *)
(* nothing, for tables, page sizes and filters of any size; the live tail  *)
(* loses no signal, for a bus of any capacity and any number of loads.     *)
(***************************************************************************)
EXTENDS History, LiveTail, FiniteSetTheorems, SequenceTheorems, WellFoundedInduction, TLAPS

-----------------------------------------------------------------------------
(* The live tail: signals in the queue. *)

Timers == {"off", "fresh", "ripe"}

Waiting(q) == \E i \in 1 .. Len(q) : q[i]

LEMMA AppendedWaits ==
  ASSUME NEW q \in Seq(BOOLEAN), NEW b \in BOOLEAN
  PROVE  /\ Append(q, b) \in Seq(BOOLEAN) /\ Len(Append(q, b)) = Len(q) + 1
         /\ b => Waiting(Append(q, b))
         /\ Waiting(q) => Waiting(Append(q, b))
  <1>1. PICK s \in Seq(BOOLEAN) : s = Append(q, b)
    BY AppendProperties
  <1>2. /\ Len(s) = Len(q) + 1 /\ s[Len(q) + 1] = b /\ Len(q) \in Nat
        /\ \A i \in 1 .. Len(q) : s[i] = q[i]
    BY <1>1, AppendProperties, LenProperties
  <1>3. Len(q) + 1 \in 1 .. Len(s) /\ \A i \in 1 .. Len(q) : i \in 1 .. Len(s)
    BY <1>2
  <1>4. b => Waiting(s)
    BY <1>2, <1>3, Zenon DEF Waiting
  <1>5. Waiting(q) => Waiting(s)
    BY <1>2, <1>3, Zenon DEF Waiting
  <1> QED BY <1>1, <1>2, <1>4, <1>5

LEMMA TailWaits ==
  ASSUME NEW q \in Seq(BOOLEAN), q # <<>>
  PROVE  /\ Tail(q) \in Seq(BOOLEAN) /\ Len(Tail(q)) = Len(q) - 1
         /\ Waiting(q) => Head(q) \/ Waiting(Tail(q))
  <1>1. PICK s \in Seq(BOOLEAN) : s = Tail(q)
    BY HeadTailProperties
  <1>2. /\ Len(s) = Len(q) - 1 /\ Len(q) \in Nat \ {0} /\ Head(q) = q[1]
        /\ \A i \in 1 .. Len(s) : s[i] = q[i + 1]
    <2>1. /\ Len(s) = Len(q) - 1 /\ \A i \in 1 .. Len(s) : s[i] = q[i + 1]
      BY <1>1, HeadTailProperties
    <2>2. Len(q) \in Nat \ {0} /\ Head(q) = q[1]
      OBVIOUS
    <2> QED BY <2>1, <2>2
  <1>3. \A i \in 1 .. Len(q) : i = 1 \/ (i - 1 \in 1 .. Len(s) /\ s[i - 1] = q[i])
    BY <1>2
  <1>4. Waiting(q) => Head(q) \/ Waiting(s)
    BY <1>2, <1>3, Zenon DEF Waiting
  <1> QED BY <1>1, <1>2, <1>4

\* broadcast::Sender::send drops the oldest signal only together with a mark that some
\* were dropped.
LEMMA SendKeepsSignals ==
  ASSUME TailTypeOK, sub, NEW b \in BOOLEAN, Send(b)
  PROVE  /\ queue' \in Seq(BOOLEAN) /\ Len(queue') <= Capacity /\ lagged' \in BOOLEAN
         /\ b => Waiting(queue')
         /\ lagged \/ Waiting(queue) => lagged' \/ Waiting(queue')
  <1>1. queue \in Seq(BOOLEAN) /\ Len(queue) <= Capacity /\ lagged \in BOOLEAN /\ Len(queue) \in Nat
    BY DEF TailTypeOK
  <1>2. /\ queue' = Append(IF Len(queue) = Capacity THEN Tail(queue) ELSE queue, b)
        /\ lagged' = (lagged \/ Len(queue) = Capacity)
    BY Zenon DEF Send
  <1>3. CASE Len(queue) = Capacity
    <2>1. queue # <<>>
      BY <1>1, <1>3, BusAssumption
    <2>2. Tail(queue) \in Seq(BOOLEAN) /\ Len(Tail(queue)) = Len(queue) - 1
      BY <1>1, <2>1, TailWaits
    <2>3. queue' = Append(Tail(queue), b) /\ lagged' = TRUE
      BY <1>2, <1>3, Zenon
    <2>4. /\ queue' \in Seq(BOOLEAN) /\ Len(queue') = Len(Tail(queue)) + 1
          /\ b => Waiting(queue')
      BY <2>2, <2>3, AppendedWaits
    <2>5. Len(queue') <= Capacity
      BY <1>1, <1>3, <2>2, <2>4
    <2> QED BY <2>3, <2>4, <2>5
  <1>4. CASE Len(queue) # Capacity
    <2>1. queue' = Append(queue, b) /\ lagged' = lagged
      BY <1>1, <1>2, <1>4, Zenon
    <2>2. /\ queue' \in Seq(BOOLEAN) /\ Len(queue') = Len(queue) + 1
          /\ (b => Waiting(queue')) /\ (Waiting(queue) => Waiting(queue'))
      BY <1>1, <2>1, AppendedWaits
    <2>3. Len(queue') <= Capacity
      BY <1>1, <1>4, <2>2, BusAssumption
    <2>4. lagged' \in BOOLEAN
      BY <1>1, <2>1
    <2>5. lagged => lagged'
      BY <2>1
    <2> QED BY <2>2, <2>3, <2>4, <2>5, Zenon
  <1> QED BY <1>3, <1>4

LEMMA SignalledByParts ==
  /\ Signalled <=> timer # "off" \/ lagged \/ Waiting(queue)
  /\ Signalled' <=> timer' # "off" \/ lagged' \/ Waiting(queue')
  BY Zenon DEF Signalled, Waiting

-----------------------------------------------------------------------------
(* The live tail: its invariant. *)

\* What was asked for is shown, on its way, or has failed.
Served == ~failed => best >= asked \/ \E l \in Loads : Covers(load[l])

LEMMA ServedStays ==
  ASSUME Served, UNCHANGED <<load, asked, best, failed>>
  PROVE  Served'
  BY DEF Served, Covers

\* A step of the server or of the stream.
LEMMA BusKeepsInv ==
  ASSUME TailInv, UNCHANGED <<load, shown, asked, best, failed>>,
         changes' \in Nat, changes' >= changes, sub' \in BOOLEAN,
         queue' \in Seq(BOOLEAN), Len(queue') <= Capacity,
         lagged' \in BOOLEAN, timer' \in Timers,
         owed' \in Nat, owed' <= changes', ~sub' => queue' = <<>> /\ ~lagged' /\ owed' = 0,
         sub' /\ ~Signalled' => asked >= owed'
  PROVE  TailInv'
  <1>1. Served'
    BY ServedStays DEF TailInv, Served
  <1>2. TailTypeOK'
    BY DEF TailInv, TailTypeOK, Timers
  <1>3. asked' <= changes' /\ owed' <= changes'
    BY DEF TailInv, TailTypeOK
  <1> QED BY <1>1, <1>2, <1>3 DEF TailInv, Served

LEMMA ChangeInv ==
  ASSUME TailInv, Change \/ ChangeOfAnother
  PROVE  TailInv'
  <1>1. /\ TailTypeOK /\ owed <= changes /\ (~sub => queue = <<>> /\ ~lagged /\ owed = 0)
        /\ sub /\ ~Signalled => asked >= owed
    BY DEF TailInv
  <1>2. /\ changes \in Nat /\ owed \in Nat /\ asked \in Nat /\ sub \in BOOLEAN
        /\ timer \in Timers /\ queue \in Seq(BOOLEAN) /\ Len(queue) <= Capacity
        /\ lagged \in BOOLEAN
    BY <1>1 DEF TailTypeOK, Timers
  <1>3. UNCHANGED <<sub, timer, load, shown, asked, best, failed>>
    BY DEF Change, ChangeOfAnother, page
  <1>4. CASE UNCHANGED <<queue, lagged, owed>> /\ changes' \in {changes, changes + 1}
    <2>1. Signalled' <=> Signalled
      BY <1>3, <1>4, SignalledByParts, Zenon
    <2>2. changes' \in Nat /\ changes' >= changes /\ owed <= changes'
      BY <1>1, <1>2, <1>4
    <2> QED BY <1>1, <1>2, <1>3, <1>4, <2>1, <2>2, BusKeepsInv
  <1>5. CASE sub /\ Send(TRUE) /\ changes' = changes + 1 /\ owed' = changes + 1
    <2>1. /\ queue' \in Seq(BOOLEAN) /\ Len(queue') <= Capacity /\ lagged' \in BOOLEAN
          /\ Waiting(queue')
      BY <1>1, <1>5, SendKeepsSignals
    <2>2. Signalled'
      BY <2>1, SignalledByParts, Zenon
    <2>3. /\ changes' \in Nat /\ changes' >= changes /\ owed' \in Nat /\ owed' <= changes'
          /\ sub'
      BY <1>2, <1>3, <1>5
    <2> QED BY <1>2, <1>3, <2>1, <2>2, <2>3, BusKeepsInv
  <1>6. CASE sub /\ Send(FALSE) /\ UNCHANGED <<changes, owed>>
    <2>1. /\ queue' \in Seq(BOOLEAN) /\ Len(queue') <= Capacity /\ lagged' \in BOOLEAN
          /\ lagged \/ Waiting(queue) => lagged' \/ Waiting(queue')
      BY <1>1, <1>6, SendKeepsSignals
    <2>2. Signalled => Signalled'
      BY <1>3, <2>1, SignalledByParts, Zenon
    <2>3. changes' \in Nat /\ changes' >= changes /\ owed' \in Nat /\ owed' <= changes' /\ sub'
      BY <1>1, <1>2, <1>3, <1>6
    <2>4. sub' /\ ~Signalled' => asked >= owed'
      BY <1>1, <1>6, <2>2
    <2> QED BY <1>2, <1>3, <2>1, <2>3, <2>4, BusKeepsInv
  <1>7. CASE ChangeOfAnother
    BY <1>6, <1>7 DEF ChangeOfAnother
  <1>8. CASE Change
    <2>1. changes' = changes + 1
      BY <1>8 DEF Change
    <2>2. CASE UNCHANGED <<queue, lagged, owed>>
      BY <1>4, <2>1, <2>2
    <2>3. CASE sub /\ Send(TRUE) /\ owed' = IF sub THEN changes + 1 ELSE owed
      BY <1>5, <2>1, <2>3
    <2>4. CASE ~sub /\ Send(TRUE) /\ owed' = IF sub THEN changes + 1 ELSE owed
      <3>1. UNCHANGED <<queue, lagged, owed>>
        BY <2>4 DEF Send
      <3> QED BY <1>4, <2>1, <3>1
    <2> QED BY <1>8, <2>2, <2>3, <2>4 DEF Change
  <1> QED BY <1>7, <1>8

LEMMA StreamInv ==
  ASSUME TailInv, sse_for_check
  PROVE  TailInv'
  <1>1. /\ TailTypeOK /\ owed <= changes /\ sub /\ (lagged \/ queue # <<>>)
        /\ ~Signalled => asked >= owed
    BY DEF TailInv, sse_for_check
  <1>2. /\ changes \in Nat /\ owed \in Nat /\ asked \in Nat /\ sub \in BOOLEAN
        /\ timer \in Timers /\ queue \in Seq(BOOLEAN) /\ Len(queue) <= Capacity
        /\ lagged \in BOOLEAN
    BY <1>1 DEF TailTypeOK, Timers
  <1>3. UNCHANGED <<changes, sub, load, shown, owed, asked, best, failed>>
    BY DEF sse_for_check
  <1>4. timer' \in Timers /\ (timer # "off" => timer' # "off")
    BY <1>2 DEF sse_for_check, onmessage, Timers
  <1>5. CASE lagged
    <2>1. lagged' = FALSE /\ queue' = queue
      BY <1>5, Zenon DEF sse_for_check
    <2>2. timer' # "off"
      BY <1>5 DEF sse_for_check, Said, OnLag, onmessage
    <2>3. Signalled'
      BY <2>2, SignalledByParts, Zenon
    <2>4. /\ changes' \in Nat /\ changes' >= changes /\ sub' \in BOOLEAN /\ owed' \in Nat
          /\ owed' <= changes' /\ sub'
      BY <1>1, <1>2, <1>3
    <2> QED BY <1>2, <1>3, <1>4, <2>1, <2>3, <2>4, BusKeepsInv
  <1>6. CASE ~lagged
    <2>1. lagged' = lagged /\ queue' = Tail(queue) /\ queue # <<>>
      BY <1>1, <1>6, Zenon DEF sse_for_check
    <2>2. /\ Tail(queue) \in Seq(BOOLEAN) /\ Len(Tail(queue)) = Len(queue) - 1
          /\ Waiting(queue) => Head(queue) \/ Waiting(Tail(queue))
      BY <1>2, <2>1, TailWaits
    <2>3. Head(queue) => timer' # "off"
      BY <1>6 DEF sse_for_check, Said, onmessage
    <2>4. Waiting(queue) => timer' # "off" \/ Waiting(queue')
      BY <2>1, <2>2, <2>3
    <2>5. Signalled => Signalled'
      <3>1. CASE timer # "off"
        <4>1. timer' # "off"
          BY <1>4, <3>1
        <4> QED BY <4>1, SignalledByParts, Zenon
      <3>2. CASE Waiting(queue)
        <4>1. timer' # "off" \/ Waiting(queue')
          BY <2>4, <3>2
        <4> QED BY <4>1, SignalledByParts, Zenon
      <3> QED BY <1>6, <3>1, <3>2, SignalledByParts, Zenon
    <2>6. Len(queue') <= Capacity /\ queue' \in Seq(BOOLEAN) /\ lagged' \in BOOLEAN
      <3>1. queue' \in Seq(BOOLEAN) /\ Len(queue') = Len(queue) - 1
        BY <2>1, <2>2
      <3>2. Len(queue) \in Nat
        BY <1>2, LenProperties
      <3>3. Len(queue') <= Capacity
        BY <1>2, <3>1, <3>2, BusAssumption
      <3>4. lagged' \in BOOLEAN
        BY <1>2, <2>1
      <3> QED BY <3>1, <3>3, <3>4
    <2>7. sub' /\ ~Signalled' => asked >= owed'
      BY <1>1, <1>3, <2>5
    <2>8. /\ changes' \in Nat /\ changes' >= changes /\ sub' \in BOOLEAN /\ owed' \in Nat
          /\ owed' <= changes' /\ sub'
      BY <1>1, <1>2, <1>3
    <2> QED BY <1>3, <1>4, <2>6, <2>7, <2>8, BusKeepsInv
  <1> QED BY <1>5, <1>6

LEMMA StreamEndsInv ==
  ASSUME TailInv, StreamBreaks \/ stopLive \/ startLive
  PROVE  TailInv'
  <1>1. TailTypeOK /\ owed <= changes /\ (~sub => queue = <<>> /\ ~lagged /\ owed = 0)
    BY DEF TailInv
  <1>2. /\ changes \in Nat /\ owed \in Nat /\ asked \in Nat /\ sub \in BOOLEAN
        /\ timer \in Timers /\ queue \in Seq(BOOLEAN) /\ Len(queue) <= Capacity
        /\ lagged \in BOOLEAN
    BY <1>1 DEF TailTypeOK, Timers
  <1>3. UNCHANGED <<changes, load, shown, asked, best, failed>> /\ timer' \in Timers
    BY <1>2 DEF StreamBreaks, stopLive, startLive, page, Timers
  <1>4. CASE StreamBreaks \/ stopLive
    <2>1. sub' = FALSE /\ queue' = <<>> /\ lagged' = FALSE /\ owed' = 0
      BY <1>4 DEF StreamBreaks, stopLive, Cut
    <2>2. queue' \in Seq(BOOLEAN) /\ Len(queue') <= Capacity
      BY <2>1, BusAssumption
    <2>3. owed' \in Nat /\ owed' <= changes' /\ changes' >= changes /\ changes' \in Nat
      BY <1>2, <1>3, <2>1
    <2> QED BY <1>3, <2>1, <2>2, <2>3, BusKeepsInv
  <1>5. CASE startLive
    <2>1. ~sub /\ sub' = TRUE /\ UNCHANGED <<changes, queue, lagged, owed>>
      BY <1>5 DEF startLive
    <2>2. owed' = 0 /\ owed' \in Nat /\ owed' <= changes' /\ changes' >= changes
          /\ changes' \in Nat /\ asked >= owed'
      BY <1>1, <1>2, <2>1
    <2> QED BY <1>2, <1>3, <2>1, <2>2, BusKeepsInv
  <1> QED BY <1>4, <1>5

LEMMA TimerInv ==
  ASSUME TailInv, TimerRunsOut
  PROVE  TailInv'
  <1>1. TailTypeOK /\ owed <= changes /\ (~sub => queue = <<>> /\ ~lagged /\ owed = 0)
    BY DEF TailInv
  <1>2. /\ changes \in Nat /\ owed \in Nat /\ sub \in BOOLEAN /\ lagged \in BOOLEAN
        /\ queue \in Seq(BOOLEAN) /\ Len(queue) <= Capacity
    BY <1>1 DEF TailTypeOK
  <1>3. timer' = "ripe" /\ UNCHANGED <<changes, sub, queue, lagged, load, shown, owed, asked, best, failed>>
    BY DEF TimerRunsOut
  <1>4. timer' \in Timers /\ timer' # "off"
    BY <1>3 DEF Timers
  <1>5. Signalled'
    BY <1>4, SignalledByParts, Zenon
  <1>6. changes' >= changes
    BY <1>2, <1>3
  <1> QED BY <1>1, <1>2, <1>3, <1>4, <1>5, <1>6, BusKeepsInv

\* A load begins, is answered, replaces the page or fails.
LEMMA LoadsInv ==
  ASSUME TailInv, NEW l \in Loads,
         loadPings(l) \/ Answer(l) \/ Replace(l) \/ ErrorIsShown(l) \/ LoadFails(l)
  PROVE  TailInv'
  <1>1. /\ TailTypeOK /\ owed <= changes /\ asked <= changes /\ Served
        /\ ~sub => queue = <<>> /\ ~lagged /\ owed = 0
        /\ sub /\ ~Signalled => asked >= owed
    BY DEF TailInv, Served
  <1>2. /\ changes \in Nat /\ owed \in Nat /\ asked \in Nat /\ best \in Nat
        /\ load \in [Loads -> Load] /\ load[l].got \in Nat
    BY <1>1 DEF TailTypeOK, Load
  <1>3. UNCHANGED <<changes, sub, queue, lagged, owed>>
    BY DEF loadPings, Answer, Replace, ErrorIsShown, LoadFails
  <1>4. CASE loadPings(l)
    <2>1. /\ timer' = "off" /\ load' = [load EXCEPT ![l].pc = "sent"] /\ asked' = changes
          /\ UNCHANGED <<shown, best, failed>>
      BY <1>4 DEF loadPings
    <2>2. load' \in [Loads -> Load] /\ load'[l].pc = "sent"
      BY <1>2, <2>1 DEF Load
    <2>3. TailTypeOK'
      BY <1>1, <1>2, <1>3, <2>1, <2>2 DEF TailTypeOK
    <2>4. Served'
      BY <2>2 DEF Served, Covers
    <2>5. asked' >= owed' /\ asked' <= changes' /\ owed' <= changes'
      BY <1>1, <1>2, <1>3, <2>1
    <2> QED BY <1>1, <1>3, <2>3, <2>4, <2>5 DEF TailInv, Served
  <1>5. ASSUME UNCHANGED <<timer, asked>>, TailTypeOK', Served'
        PROVE  TailInv'
    <2>1. Signalled' <=> Signalled
      BY <1>3, <1>5, SignalledByParts, Zenon
    <2>2. /\ owed' <= changes' /\ asked' <= changes'
          /\ ~sub' => queue' = <<>> /\ ~lagged' /\ owed' = 0
      BY <1>1, <1>3, <1>5
    <2>3. sub' /\ ~Signalled' => asked' >= owed'
      BY <1>1, <1>3, <1>5, <2>1
    <2> QED BY <1>5, <2>2, <2>3 DEF TailInv, Served
  <1>6. CASE Answer(l)
    <2>1. /\ load[l].pc = "sent" /\ load' = [load EXCEPT ![l] = [pc |-> "answered", got |-> changes]]
          /\ UNCHANGED <<timer, shown, asked, best, failed>>
      BY <1>6 DEF Answer
    <2>2. /\ load' \in [Loads -> Load] /\ load'[l].pc = "answered" /\ load'[l].got >= asked'
          /\ \A k \in Loads \ {l} : load'[k] = load[k]
      BY <1>1, <1>2, <2>1 DEF Load
    <2>3. TailTypeOK'
      BY <1>1, <1>3, <2>1, <2>2 DEF TailTypeOK
    <2>4. Served'
      BY <2>2 DEF Served, Covers
    <2> QED BY <1>5, <2>1, <2>3, <2>4
  <1>7. CASE Replace(l)
    <2>1. PICK g \in Nat : g = load[l].got
      BY <1>2
    <2>2. /\ load[l].pc = "answered" /\ load' = [load EXCEPT ![l] = NoLoad] /\ shown' = g
          /\ best' = (IF g > best THEN g ELSE best) /\ failed' = (failed /\ g < asked)
          /\ UNCHANGED <<timer, asked>>
      BY <1>7, <2>1 DEF Replace
    <2>3. load' \in [Loads -> Load] /\ \A k \in Loads \ {l} : load'[k] = load[k]
      BY <1>2, <2>2 DEF Load, NoLoad
    <2>4. best' \in Nat /\ best' >= best /\ best' >= g
      BY <1>2, <2>2
    <2>5. TailTypeOK'
      BY <1>1, <1>3, <2>2, <2>3, <2>4 DEF TailTypeOK
    <2>6. Served'
      <3>1. CASE g >= asked
        <4>1. best' >= asked'
          BY <1>2, <2>2, <2>4, <3>1
        <4> QED BY <4>1 DEF Served
      <3>2. CASE g < asked
        <4>1. failed' <=> failed
          BY <2>2, <3>2
        <4>2. ~Covers(load[l])
          BY <1>2, <2>1, <2>2, <3>2 DEF Covers
        <4>3. best >= asked => best' >= asked'
          BY <1>2, <2>2, <2>4
        <4>4. \A k \in Loads \ {l} : Covers(load[k]) => Covers(load[k])'
          BY <2>2, <2>3 DEF Covers
        <4> QED BY <1>1, <4>1, <4>2, <4>3, <4>4 DEF Served
      <3> QED BY <1>2, <3>1, <3>2
    <2> QED BY <1>5, <2>2, <2>5, <2>6
  <1>8. CASE ErrorIsShown(l) \/ LoadFails(l)
    <2>1. /\ load' = [load EXCEPT ![l] = NoLoad] /\ failed' = TRUE
          /\ shown' \in {0, shown} /\ UNCHANGED <<timer, asked, best>>
      BY <1>8 DEF ErrorIsShown, LoadFails
    <2>2. load' \in [Loads -> Load]
      BY <1>2, <2>1 DEF Load, NoLoad
    <2>3. TailTypeOK'
      BY <1>1, <1>3, <2>1, <2>2 DEF TailTypeOK
    <2>4. Served'
      BY <2>1 DEF Served
    <2> QED BY <1>5, <2>1, <2>3, <2>4
  <1> QED BY <1>4, <1>6, <1>7, <1>8

LEMMA TailInitInv == TailInit => TailInv
  <1> SUFFICES ASSUME TailInit
               PROVE  TailInv
    OBVIOUS
  <1>1. NoLoad \in Load
    BY DEF NoLoad, Load
  <1>2. queue \in Seq(BOOLEAN) /\ Len(queue) <= Capacity
    BY BusAssumption DEF TailInit
  <1>3. /\ changes \in Nat /\ shown \in Nat /\ owed \in Nat /\ asked \in Nat /\ best \in Nat
        /\ load \in [Loads -> Load]
    BY <1>1 DEF TailInit
  <1>4. sub \in BOOLEAN /\ lagged \in BOOLEAN /\ timer \in Timers /\ failed \in BOOLEAN
    BY DEF TailInit, Timers
  <1>5. TailTypeOK
    BY <1>2, <1>3, <1>4 DEF TailTypeOK, Timers
  <1> QED BY <1>5 DEF TailInit, TailInv

LEMMA TailNextInv == TailInv /\ [TailNext]_tvars => TailInv'
  <1> SUFFICES ASSUME TailInv, [TailNext]_tvars
               PROVE  TailInv'
    OBVIOUS
  <1>1. CASE UNCHANGED tvars
    BY <1>1 DEF tvars, TailInv, TailTypeOK, Signalled, Covers
  <1>2. CASE TailNext
    BY <1>2, ChangeInv, StreamInv, StreamEndsInv, TimerInv, LoadsInv DEF TailNext
  <1> QED BY <1>1, <1>2

\* The invariant of the bus, the stream and the page's loads holds whatever the capacity
\* of the broadcast channel and however many loads overlap, fail or cross.
THEOREM TailInvariant == TailSpec => []TailInv
  BY TailInitInv, TailNextInv, PTL DEF TailSpec

\* sse_for_check loses no change for an open stream: with no signal left the page has
\* asked for it, and with no load left, unless one failed, it has been shown.
THEOREM TailAlwaysShowsLatest == TailSpec => []TailShowsLatest
  <1>1. TailInv => TailShowsLatest
    <2> SUFFICES ASSUME TailInv, sub, ~Signalled
                 PROVE  /\ asked >= owed
                        /\ (\A l \in Loads : load[l].pc = "idle") /\ ~failed => best >= owed
      BY DEF TailShowsLatest
    <2>1. asked >= owed /\ asked \in Nat /\ owed \in Nat /\ best \in Nat
      BY DEF TailInv, TailTypeOK
    <2>2. (\A l \in Loads : load[l].pc = "idle") /\ ~failed => best >= asked
      BY DEF TailInv, Covers
    <2> QED BY <2>1, <2>2
  <1> QED BY <1>1, TailInvariant, PTL

-----------------------------------------------------------------------------
(* The pages: first and last rows. *)

LEMMA HasLeast ==
  ASSUME NEW T \in SUBSET Nat, T # {}
  PROVE  \E x \in T : \A y \in T : x <= y
  <1>1. PICK R : R = {ss \in Nat \X Nat : ss[1] < ss[2]} /\ IsWellFoundedOn(R, Nat)
    BY NatLessThanWellFounded DEF OpToRel
  <1>2. PICK x \in T : \A y \in T : ~(<<y, x>> \in R)
    BY <1>1, WFMin
  <1>3. \A y \in T : ~(y < x)
    BY <1>1, <1>2
  <1> QED BY <1>3

LEMMA SmallestIs ==
  ASSUME NEW s \in SUBSET Ids, s # {}
  PROVE  Smallest(s) \in s /\ \A j \in s : Smallest(s) <= j
  <1>1. s \in SUBSET Nat
    BY HistoryAssumption DEF Ids
  <1>2. \E x \in s : \A y \in s : x <= y
    BY <1>1, HasLeast
  <1> QED BY <1>2 DEF Smallest

LEMMA LargestIs ==
  ASSUME NEW s \in SUBSET Ids, s # {}
  PROVE  Largest(s) \in s /\ \A j \in s : j <= Largest(s)
  <1>1. PICK T : T = {n \in Nat : MaxId - n \in s}
    OBVIOUS
  <1>2. \A i \in s : i \in 1 .. MaxId /\ MaxId - i \in T /\ MaxId - (MaxId - i) = i
    BY <1>1, HistoryAssumption DEF Ids
  <1>3. T \in SUBSET Nat /\ T # {}
    BY <1>1, <1>2
  <1>4. PICK x \in T : \A y \in T : x <= y
    BY <1>3, HasLeast
  <1>5. MaxId - x \in s /\ \A j \in s : j <= MaxId - x
    BY <1>1, <1>2, <1>4, HistoryAssumption DEF Ids
  <1> QED BY <1>5 DEF Largest

LEMMA IdsAreFinite ==
  ASSUME NEW s \in SUBSET Ids
  PROVE  IsFiniteSet(s) /\ Cardinality(s) \in Nat
  <1>1. IsFiniteSet(Ids)
    BY FS_Interval, HistoryAssumption DEF Ids
  <1> QED BY <1>1, FS_Subset, FS_CardinalityType

\* ORDER BY id DESC LIMIT: the rows that are kept have no unkept row above them, there
\* are some if there is any, and all are kept if they fit.
LEMMA NewestOf ==
  ASSUME NEW s \in SUBSET Ids
  PROVE  /\ Newest(s) \subseteq s
         /\ \A i \in s, lo \in Newest(s) : lo <= i => i \in Newest(s)
         /\ s # {} => Newest(s) # {}
         /\ ~(Cardinality(s) > Limit) => Newest(s) = s
  <1> DEFINE Up(i) == {j \in s : j > i}
  <1>1. \A i \in s : i \in Nat
    BY HistoryAssumption DEF Ids
  <1>2. \A i \in s : Up(i) \in SUBSET Ids /\ Up(i) \in SUBSET (s \ {i})
    BY <1>1
  <1>3. \A i \in s : Up(i) \in SUBSET s /\ IsFiniteSet(Up(i)) /\ Cardinality(Up(i)) \in Nat
    BY <1>2, IdsAreFinite
  <1>4. ASSUME NEW i \in s, NEW lo \in Newest(s), lo <= i
        PROVE  i \in Newest(s)
    <2>1. lo \in s /\ Cardinality(Up(lo)) < Limit
      BY <1>4 DEF Newest
    <2>2. Up(i) \in SUBSET Up(lo)
      BY <1>1, <1>4, <2>1
    <2>3. Cardinality(Up(i)) <= Cardinality(Up(lo))
      BY <1>3, <2>1, <2>2, FS_Subset
    <2>4. Cardinality(Up(i)) < Limit
      BY <1>3, <2>1, <2>3, HistoryAssumption
    <2> QED BY <2>4 DEF Newest
  <1>5. ASSUME s # {} PROVE Newest(s) # {}
    <2>1. PICK i \in s : \A j \in s : j <= i
      BY <1>5, LargestIs
    <2>2. Up(i) = {}
      BY <1>1, <2>1
    <2>3. Cardinality(Up(i)) = 0
      BY <2>2, FS_EmptySet, Zenon
    <2>4. Cardinality(Up(i)) < Limit
      BY <2>3, HistoryAssumption
    <2> QED BY <2>4 DEF Newest
  <1>6. ASSUME ~(Cardinality(s) > Limit), NEW i \in s PROVE i \in Newest(s)
    <2>1. IsFiniteSet(s) /\ Cardinality(s) \in Nat
      BY IdsAreFinite
    <2>2. IsFiniteSet(s \ {i}) /\ Cardinality(s \ {i}) = Cardinality(s) - 1
      BY <2>1, FS_RemoveElement
    <2>3. Cardinality(Up(i)) <= Cardinality(s \ {i})
      BY <1>2, <2>2, FS_Subset
    <2>4. Cardinality(Up(i)) < Limit
      BY <1>3, <1>6, <2>1, <2>2, <2>3, HistoryAssumption
    <2> QED BY <2>4 DEF Newest
  <1>7. Newest(s) \subseteq s
    BY DEF Newest
  <1> QED BY <1>4, <1>5, <1>6, <1>7

LEMMA OldestOf ==
  ASSUME NEW s \in SUBSET Ids
  PROVE  /\ Oldest(s) \subseteq s
         /\ \A i \in s, hi \in Oldest(s) : i <= hi => i \in Oldest(s)
  <1> DEFINE Down(i) == {j \in s : j < i}
  <1>1. \A i \in s : i \in Nat
    BY HistoryAssumption DEF Ids
  <1>2. \A i \in s : Down(i) \in SUBSET Ids
    OBVIOUS
  <1>3. \A i \in s : IsFiniteSet(Down(i)) /\ Cardinality(Down(i)) \in Nat
    BY <1>2, IdsAreFinite
  <1>4. ASSUME NEW i \in s, NEW hi \in Oldest(s), i <= hi
        PROVE  i \in Oldest(s)
    <2>1. hi \in s /\ Cardinality(Down(hi)) < Limit
      BY <1>4 DEF Oldest
    <2>2. Down(i) \in SUBSET Down(hi)
      BY <1>1, <1>4, <2>1
    <2>3. Cardinality(Down(i)) <= Cardinality(Down(hi))
      BY <1>3, <2>1, <2>2, FS_Subset
    <2>4. PICK m \in Nat, n \in Nat : m = Cardinality(Down(i)) /\ n = Cardinality(Down(hi))
      BY <1>3, <2>1
    <2>5. m <= n /\ n < Limit
      BY <2>1, <2>3, <2>4
    <2>6. m < Limit
      BY <2>5, HistoryAssumption
    <2> QED BY <2>4, <2>6 DEF Oldest
  <1>5. Oldest(s) \subseteq s
    BY DEF Oldest
  <1> QED BY <1>4, <1>5

-----------------------------------------------------------------------------
(* The pages: the invariant, as operators of the walk. *)

\* No row of `base` lies unseen between two that were seen; or below one.
Unskipped(base, seen) == \A i \in base \cap table : Between(i, seen) => i \in seen
Ended(base, seen) == \A i \in base \cap table : (\E j \in seen : i <= j) => i \in seen

\* The rows that may have been shown.
Visible == (1 .. drawn) \ pending

LEMMA VisibleIds ==
  ASSUME HistoryTypeOK
  PROVE  Visible \in SUBSET Ids /\ table \in SUBSET Visible /\ table \in SUBSET Ids
  BY HistoryAssumption DEF HistoryTypeOK, Visible, Ids

\* neighbour_ids.
LEMMA LinksOf ==
  ASSUME NEW pg, pg.items \in SUBSET Ids
  PROVE  /\ OlderId(pg) \in 0 .. MaxId /\ NewerId(pg) \in 0 .. MaxId
         /\ OlderId(pg) # NoLink => OlderId(pg) \in pg.items
         /\ NewerId(pg) # NoLink => NewerId(pg) \in pg.items
         /\ OlderId(pg) = NoLink => ~pg.has_older \/ pg.items = {}
  <1>1. \A i \in Ids : i \in 0 .. MaxId /\ i # NoLink
    BY HistoryAssumption DEF Ids, NoLink
  <1>2. NoLink \in 0 .. MaxId
    BY HistoryAssumption DEF NoLink
  <1>3. pg.items # {} => Smallest(pg.items) \in pg.items /\ Largest(pg.items) \in pg.items
    BY SmallestIs, LargestIs
  <1> QED BY <1>1, <1>2, <1>3 DEF OlderId, NewerId

\* What makes a page a sound continuation of a walk.
Continued(pg, f, down, base, seen) ==
  /\ f \in Filters /\ down \in BOOLEAN
  /\ pg.items \in SUBSET table
  /\ base \in SUBSET Visible /\ seen \in SUBSET Visible
  /\ \A i \in base : Matches(i, f)
  /\ Unskipped(base, seen \cup pg.items)
  /\ down /\ (~pg.has_older \/ pg.items = {}) => Ended(base, seen \cup pg.items)

LEMMA PageInv ==
  ASSUME HistoryInv, NEW pg, NEW f, NEW down, NEW base, NEW seen,
         Continued(pg, f, down, base, seen), read' = Shown(pg, f, down, base, seen),
         UNCHANGED <<drawn, pending, kind, table>>
  PROVE  HistoryInv'
  <1>1. HistoryTypeOK
    BY DEF HistoryInv
  <1>2. /\ f \in Filters /\ down \in BOOLEAN /\ pg.items \in SUBSET table
        /\ base \in SUBSET Visible /\ seen \in SUBSET Visible
        /\ \A i \in base : Matches(i, f)
        /\ Unskipped(base, seen \cup pg.items)
        /\ down /\ (~pg.has_older \/ pg.items = {}) => Ended(base, seen \cup pg.items)
    BY DEF Continued
  <1>3. Visible \in SUBSET Ids /\ table \in SUBSET Visible /\ table \in SUBSET Ids
    BY <1>1, VisibleIds
  <1>4. PICK items \in SUBSET table, all \in SUBSET Visible :
          items = pg.items /\ all = seen \cup pg.items
    BY <1>2, <1>3
  <1>5. PICK o \in 0 .. MaxId, w \in 0 .. MaxId :
          /\ o = OlderId(pg) /\ w = NewerId(pg)
          /\ (o # NoLink => o \in items) /\ (w # NoLink => w \in items)
          /\ o = NoLink => ~pg.has_older \/ pg.items = {}
    BY <1>2, <1>3, <1>4, LinksOf
  <1>6. PICK n : n = [open |-> TRUE, filter |-> f, items |-> items, older |-> o, newer |-> w,
                      down |-> down, base |-> base, seen |-> all]
    OBVIOUS
  <1>7. read' = n
    BY <1>4, <1>5, <1>6 DEF Shown
  <1>8. /\ n \in Reader /\ n.open = TRUE /\ n.filter = f /\ n.items = items /\ n.older = o
        /\ n.newer = w /\ n.down = down /\ n.base = base /\ n.seen = all
    BY <1>2, <1>3, <1>6 DEF Reader
  <1>9. HistoryTypeOK'
    BY <1>1, <1>7, <1>8 DEF HistoryTypeOK
  <1>10. items \subseteq all
    BY <1>4
  <1>11. NothingIsSkipped'
    BY <1>2, <1>4, <1>7, <1>8 DEF NothingIsSkipped, Unskipped, Between
  <1>12. WalkIsComplete'
    <2>1. down /\ o = NoLink => Ended(base, all)
      BY <1>2, <1>4, <1>5
    <2> QED BY <1>7, <1>8, <2>1 DEF WalkIsComplete, Ended
  <1>13. \A i \in base : Matches(i, f)'
    BY <1>2 DEF Matches
  <1>14. base \cup all \subseteq (1 .. drawn) \ pending
    BY <1>2, <1>4 DEF Visible
  <1> QED BY <1>5, <1>7, <1>8, <1>9, <1>10, <1>11, <1>12, <1>13, <1>14 DEF HistoryInv

LEMMA OpenLatestInv ==
  ASSUME HistoryInv, NEW f \in Filters, OpenLatest(f)
  PROVE  HistoryInv'
  <1>1. HistoryTypeOK
    BY DEF HistoryInv
  <1>2. Visible \in SUBSET Ids /\ table \in SUBSET Visible /\ table \in SUBSET Ids
    BY <1>1, VisibleIds
  <1>3. PICK s \in SUBSET Ids : s = {i \in table : Matches(i, f)}
    BY <1>2
  <1>4. PICK pg : pg = Latest(f)
    OBVIOUS
  <1>5. pg.items = Newest(s) /\ pg.has_older = (Cardinality(s) > Limit)
    BY <1>3, <1>4 DEF Latest
  <1>6. Above(f, {}) = s
    BY <1>3 DEF Above
  <1>7. Unskipped(s, Newest(s))
    BY NewestOf DEF Unskipped, Between
  <1>8. ~pg.has_older \/ pg.items = {} => Ended(s, Newest(s))
    BY <1>5, NewestOf DEF Ended
  <1>9. Newest(s) \in SUBSET table /\ s \in SUBSET Visible
    BY <1>2, <1>3, NewestOf
  <1>10. {} \cup pg.items = Newest(s)
    BY <1>5
  <1>11. Continued(pg, f, TRUE, s, {})
    BY <1>3, <1>5, <1>7, <1>8, <1>9, <1>10 DEF Continued
  <1>12. read' = Shown(pg, f, TRUE, s, {}) /\ UNCHANGED <<drawn, pending, kind, table>>
    BY <1>4, <1>6 DEF OpenLatest
  <1> QED BY <1>11, <1>12, PageInv

\* What is known of the walk before a link is followed.
LEMMA WalkSoFar ==
  ASSUME HistoryInv
  PROVE  /\ HistoryTypeOK /\ Visible \in SUBSET Ids /\ table \in SUBSET Visible
         /\ table \in SUBSET Ids /\ read.filter \in Filters
         /\ read.base \in SUBSET Visible /\ read.seen \in SUBSET Visible
         /\ Unskipped(read.base, read.seen)
         /\ \A i \in read.base : Matches(i, read.filter)
         /\ read.older # NoLink => read.older \in read.seen
         /\ read.newer # NoLink => read.newer \in read.seen
  <1>1. HistoryTypeOK /\ read.filter \in Filters
    BY DEF HistoryInv, HistoryTypeOK, Reader
  <1>2. read.base \in SUBSET Visible /\ read.seen \in SUBSET Visible
    BY DEF HistoryInv, Visible
  <1>3. Unskipped(read.base, read.seen)
    BY DEF HistoryInv, NothingIsSkipped, Unskipped
  <1> QED BY <1>1, <1>2, <1>3, VisibleIds DEF HistoryInv

LEMMA FollowOlderInv ==
  ASSUME HistoryInv, FollowOlder
  PROVE  HistoryInv'
  <1>1. PICK f, base, seen, id, new :
          /\ f = read.filter /\ base = read.base /\ seen = read.seen /\ id = read.older
          /\ new = Above(read.filter, read.seen)
    OBVIOUS
  <1>2. /\ Visible \in SUBSET Ids /\ table \in SUBSET Visible
        /\ table \in SUBSET Ids /\ f \in Filters
        /\ base \in SUBSET Visible /\ seen \in SUBSET Visible /\ Unskipped(base, seen)
        /\ \A i \in base : Matches(i, f)
    BY <1>1, WalkSoFar
  <1>3. id \in seen
    BY <1>1, WalkSoFar DEF FollowOlder
  <1>4. \A i \in Ids : i \in Nat
    BY HistoryAssumption DEF Ids
  <1>5. \A i \in new : i \in table /\ Matches(i, f) /\ \A j \in seen : j < i
    BY <1>1 DEF Above
  <1>6. PICK s \in SUBSET Ids : s = {i \in table : Matches(i, f) /\ i < id}
    BY <1>2
  <1>7. PICK pg : pg = Before(id, f)
    OBVIOUS
  <1>8. pg.items = Newest(s) /\ pg.has_older = (Cardinality(s) > Limit)
    BY <1>6, <1>7 DEF Before
  <1>9. PICK items : items = Newest(s) /\ items \in SUBSET s
    BY NewestOf
  <1>10. \A i \in items : i < id /\ i \in Nat
    BY <1>4, <1>6, <1>9
  <1>11. id \in Nat /\ (\A i \in seen : i \in Nat) /\ (\A i \in table : i \in Nat)
    BY <1>2, <1>3, <1>4
  <1>12. ASSUME NEW i \in (base \cup new) \cap table, NEW hi \in seen \cup items, i <= hi
         PROVE  i \in base /\ (\E j \in seen : i <= j)
    <2>1. hi \in seen \/ hi < id
      BY <1>10
    <2>2. \E j \in seen : i <= j
      BY <1>3, <1>10, <1>11, <1>12, <2>1
    <2> QED BY <1>5, <1>11, <1>12, <2>2
  <1>13. Unskipped(base \cup new, seen \cup items)
    <2> SUFFICES ASSUME NEW i \in (base \cup new) \cap table, Between(i, seen \cup items)
                 PROVE  i \in seen \cup items
      BY DEF Unskipped
    <2>1. i \in base /\ (\E j \in seen : i <= j)
      BY <1>12 DEF Between
    <2>2. CASE Between(i, seen)
      BY <1>2, <2>1, <2>2 DEF Unskipped
    <2>3. CASE ~Between(i, seen)
      <3>1. \A lo \in seen : ~(lo <= i)
        BY <2>1, <2>3 DEF Between
      <3>2. i < id
        BY <1>3, <1>11, <3>1
      <3>3. i \in s
        BY <1>2, <1>6, <2>1, <3>2
      <3>4. PICK lo \in items : lo <= i
        BY <3>1 DEF Between
      <3> QED BY <1>9, <3>3, <3>4, NewestOf
    <2> QED BY <2>2, <2>3
  <1>14. ~pg.has_older \/ pg.items = {} => Ended(base \cup new, seen \cup items)
    <2> SUFFICES ASSUME ~pg.has_older \/ pg.items = {},
                        NEW i \in (base \cup new) \cap table, \E j \in seen \cup items : i <= j
                 PROVE  i \in seen \cup items
      BY DEF Ended
    <2>1. items = s
      BY <1>8, <1>9, NewestOf
    <2>2. i \in base /\ (\E j \in seen : i <= j)
      BY <1>12
    <2>3. CASE i < id
      BY <1>2, <1>6, <2>1, <2>2, <2>3
    <2>4. CASE id <= i
      BY <1>2, <1>3, <2>2, <2>4 DEF Unskipped, Between
    <2> QED BY <1>11, <2>3, <2>4
  <1>15. /\ pg.items = items /\ items \in SUBSET table /\ base \cup new \in SUBSET Visible
         /\ \A i \in base \cup new : Matches(i, f)
    BY <1>2, <1>5, <1>6, <1>8, <1>9
  <1>16. Continued(pg, f, TRUE, base \cup new, seen)
    BY <1>2, <1>13, <1>14, <1>15 DEF Continued
  <1>17. /\ read' = Shown(pg, f, TRUE, base \cup new, seen)
         /\ UNCHANGED <<drawn, pending, kind, table>>
    BY <1>1, <1>7 DEF FollowOlder, Walk
  <1> QED BY <1>16, <1>17, PageInv

LEMMA FollowNewerInv ==
  ASSUME HistoryInv, FollowNewer
  PROVE  HistoryInv'
  <1>1. PICK f, base, seen, id, new :
          /\ f = read.filter /\ base = read.base /\ seen = read.seen /\ id = read.newer
          /\ new = Above(read.filter, read.seen)
    OBVIOUS
  <1>2. /\ Visible \in SUBSET Ids /\ table \in SUBSET Visible
        /\ table \in SUBSET Ids /\ f \in Filters
        /\ base \in SUBSET Visible /\ seen \in SUBSET Visible /\ Unskipped(base, seen)
        /\ \A i \in base : Matches(i, f)
    BY <1>1, WalkSoFar
  <1>3. id \in seen
    BY <1>1, WalkSoFar DEF FollowNewer
  <1>4. \A i \in Ids : i \in Nat
    BY HistoryAssumption DEF Ids
  <1>5. \A i \in new : i \in table /\ Matches(i, f) /\ \A j \in seen : j < i
    BY <1>1 DEF Above
  <1>6. PICK s \in SUBSET Ids : s = {i \in table : Matches(i, f) /\ i > id}
    BY <1>2
  <1>7. PICK pg : pg = After(id, f)
    OBVIOUS
  <1>8. pg.items = Oldest(s)
    BY <1>6, <1>7 DEF After
  <1>9. PICK items : items = Oldest(s) /\ items \in SUBSET s
    BY OldestOf
  <1>10. \A i \in items : i > id /\ i \in Nat
    BY <1>4, <1>6, <1>9
  <1>11. id \in Nat /\ (\A i \in seen : i \in Nat) /\ (\A i \in table : i \in Nat)
    BY <1>2, <1>3, <1>4
  <1>12. Unskipped(base \cup new, seen \cup items)
    <2> SUFFICES ASSUME NEW i \in (base \cup new) \cap table, Between(i, seen \cup items)
                 PROVE  i \in seen \cup items
      BY DEF Unskipped
    <2>1. \E lo \in seen : lo <= i
      <3>1. PICK lo \in seen \cup items : lo <= i
        BY DEF Between
      <3> QED BY <1>3, <1>10, <1>11, <3>1
    <2>2. CASE \E hi \in seen : i <= hi
      <3>1. i \in base
        BY <1>5, <1>11, <2>2
      <3> QED BY <1>2, <2>1, <2>2, <3>1 DEF Unskipped, Between
    <2>3. CASE ~\E hi \in seen : i <= hi
      <3>1. PICK hi \in items : i <= hi
        BY <2>3 DEF Between
      <3>2. i > id
        BY <1>3, <1>11, <2>3
      <3>3. i \in s
        BY <1>2, <1>5, <1>6, <3>2
      <3> QED BY <1>9, <3>1, <3>3, OldestOf
    <2> QED BY <2>2, <2>3
  <1>13. /\ pg.items = items /\ items \in SUBSET table /\ base \cup new \in SUBSET Visible
         /\ \A i \in base \cup new : Matches(i, f)
    BY <1>2, <1>5, <1>6, <1>8, <1>9
  <1>14. Continued(pg, f, FALSE, base \cup new, seen)
    BY <1>2, <1>12, <1>13 DEF Continued
  <1>15. /\ read' = Shown(pg, f, FALSE, base \cup new, seen)
         /\ UNCHANGED <<drawn, pending, kind, table>>
    BY <1>1, <1>7 DEF FollowNewer, Walk
  <1> QED BY <1>14, <1>15, PageInv

\* Rows come and go while the reader stands still: a row that becomes visible is none of
\* those that were there to be found, because its id was pending.
LEMMA TableInv ==
  ASSUME HistoryInv, \/ DrawId \/ \E i \in Ids : InsertVisible(i) \/ RowGoes(i)
                     \/ UNCHANGED kvars
  PROVE  HistoryInv'
  <1>1. /\ HistoryTypeOK /\ read.base \cup read.seen \subseteq Visible
        /\ NothingIsSkipped /\ WalkIsComplete
    BY DEF HistoryInv, Visible
  <1>2. UNCHANGED <<kind, read>>
    BY DEF DrawId, InsertVisible, RowGoes, kvars
  <1>3. drawn \in Nat /\ drawn <= MaxId /\ MaxId \in Nat
    BY <1>1, HistoryAssumption DEF HistoryTypeOK
  <1>4. /\ drawn' \in 0 .. MaxId /\ table' \subseteq 1 .. drawn'
        /\ pending' \subseteq (1 .. drawn') \ table'
        /\ Visible \subseteq Visible' /\ (Visible \cap table') \subseteq table
    <2>1. CASE DrawId
      BY <1>1, <1>3, <2>1 DEF DrawId, HistoryTypeOK, Visible
    <2>2. CASE \E i \in Ids : InsertVisible(i)
      BY <1>1, <2>2 DEF InsertVisible, HistoryTypeOK, Visible
    <2>3. CASE \E i \in Ids : RowGoes(i)
      BY <1>1, <2>3 DEF RowGoes, HistoryTypeOK, Visible
    <2>4. CASE UNCHANGED kvars
      BY <1>1, <2>4 DEF kvars, HistoryTypeOK, Visible
    <2> QED BY <2>1, <2>2, <2>3, <2>4
  <1>5. HistoryTypeOK'
    BY <1>1, <1>2, <1>4 DEF HistoryTypeOK
  <1>6. (read.base \cap table') \subseteq table
    BY <1>1, <1>4
  <1>7. NothingIsSkipped'
    BY <1>1, <1>2, <1>6 DEF NothingIsSkipped, Between
  <1>8. WalkIsComplete'
    BY <1>1, <1>2, <1>6 DEF WalkIsComplete
  <1>9. read'.base \cup read'.seen \subseteq (1 .. drawn') \ pending'
    BY <1>1, <1>2, <1>4 DEF Visible
  <1>10. \A i \in read'.base : Matches(i, read.filter)'
    BY <1>2 DEF HistoryInv, Matches
  <1> QED BY <1>2, <1>5, <1>7, <1>8, <1>9, <1>10 DEF HistoryInv, Closed

LEMMA HistoryInitInv == HistoryInit => HistoryInv
  <1> SUFFICES ASSUME HistoryInit
               PROVE  HistoryInv
    OBVIOUS
  <1>1. PICK f \in Filters : f = AnyFilter
    BY HistoryAssumption DEF AnyFilter
  <1>2. PICK n : n = [open |-> FALSE, filter |-> f, items |-> {}, older |-> NoLink,
                      newer |-> NoLink, down |-> TRUE, base |-> {}, seen |-> {}]
    OBVIOUS
  <1>3. read = n /\ Closed = n
    BY <1>1, <1>2 DEF HistoryInit, Closed
  <1>4. n \in Reader
    BY <1>2, HistoryAssumption DEF Reader, NoLink
  <1>5. /\ n.base = {} /\ n.seen = {} /\ n.items = {} /\ n.older = NoLink /\ n.newer = NoLink
        /\ n.open = FALSE
    BY <1>2
  <1>6. HistoryTypeOK
    BY <1>3, <1>4, HistoryAssumption DEF HistoryInit, HistoryTypeOK
  <1> QED BY <1>3, <1>5, <1>6 DEF HistoryInv, NothingIsSkipped, WalkIsComplete

LEMMA HistoryNextInv == HistoryInv /\ [HistoryNext]_kvars => HistoryInv'
  BY OpenLatestInv, FollowOlderInv, FollowNewerInv, TableInv DEF HistoryNext

\* keyset_page and neighbour_ids keep the invariant of a walk, for tables, pages and
\* filters of any size, while rows come in out of order and are pruned.
THEOREM HistoryInvariant == HistorySpec => []HistoryInv
  BY HistoryInitInv, HistoryNextInv, PTL DEF HistorySpec

\* No mix of older and newer links skips a row that was there to be found.
THEOREM NothingEverSkipped == HistorySpec => []NothingIsSkipped
  <1>1. HistoryInv => NothingIsSkipped
    BY DEF HistoryInv
  <1> QED BY <1>1, HistoryInvariant, PTL

\* A page without an older link (has_older of keyset_page) ends the walk: nothing that
\* was there to be found is left below.
THEOREM WalkAlwaysComplete == HistorySpec => []WalkIsComplete
  <1>1. HistoryInv => WalkIsComplete
    BY DEF HistoryInv
  <1> QED BY <1>1, HistoryInvariant, PTL
=============================================================================
