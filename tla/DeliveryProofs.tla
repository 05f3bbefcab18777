--------------------------- MODULE DeliveryProofs ---------------------------
(***************************************************************************)
(* Proofs about Delivery, for any number of events, channels, requests and *)
(* attempts: the inductive invariant DeliveryInv, what follows from it,    *)
(* and that every step of Delivery is one of Outbox or changes nothing     *)
(* that Outbox sees.                                                       *)
(***************************************************************************)
EXTENDS Delivery, TLAPS

\* What the invariant says of one event.
EventInv(e) ==
  /\ Progress(e)
  /\ task[e].pc \in {"next", "send", "record", "done"} =>
       \A c \in task[e].conf \ AtHand(e) : DealtWith(e, c)

LEMMA InvByParts ==
  DeliveryInv <=> /\ TypeOK /\ RowsFollowChannels /\ MainWaits
                  /\ \A e \in Events : EventInv(e)
  BY DEF DeliveryInv, EveryChannelIsTried, EventInv

LEMMA InvByPartsPrime ==
  DeliveryInv' <=> /\ TypeOK' /\ RowsFollowChannels' /\ MainWaits'
                   /\ \A e \in Events : EventInv(e)'
  BY DEF DeliveryInv, EveryChannelIsTried, EventInv

\* A channel to stand for none.
LEMMA AChanIsOne == AChan \in Channels
  BY AChannel DEF AChan

LEMMA UnspawnedType == Unspawned \in Task
  BY AChanIsOne DEF Unspawned, Task

-----------------------------------------------------------------------------
(* The fields of the tasks that the steps of a delivery leave. *)

\* A step of the program counter alone.
LEMMA AtFields ==
  ASSUME NEW t \in Task, NEW pc \in {"spawned", "done"}
  PROVE  LET n == [t EXCEPT !.pc = pc]
         IN /\ n \in Task /\ n.pc = pc /\ n.todo = t.todo /\ n.conf = t.conf
            /\ n.tries = t.tries /\ n.listed = t.listed /\ n.lost = t.lost
  BY DEF Task

LEMMA ListedFields ==
  ASSUME NEW t \in Task, NEW b \in SUBSET Channels, NEW cs \in SUBSET Channels
  PROVE  LET n == [t EXCEPT !.pc = "next", !.todo = b, !.conf = cs, !.listed = b]
         IN /\ n \in Task /\ n.pc = "next" /\ n.todo = b /\ n.conf = cs
            /\ n.tries = t.tries /\ n.listed = b /\ n.lost = t.lost
  BY DEF Task

LEMMA SkippedFields ==
  ASSUME NEW t \in Task, NEW c \in Channels
  PROVE  LET n == Skipped(t, c)
         IN /\ n \in Task /\ n.pc = t.pc /\ n.todo = t.todo \ {c} /\ n.conf = t.conf
            /\ n.tries = t.tries /\ n.listed = t.listed /\ n.lost = t.lost
  BY DEF Task, Skipped

LEMMA SendFields ==
  ASSUME NEW t \in Task, NEW c \in Channels
  PROVE  LET n == Taken(t, c)
         IN /\ n \in Task /\ n.pc = "send" /\ n.todo = t.todo \ {c} /\ n.conf = t.conf
            /\ n.cur = c /\ n.tries = t.tries /\ n.listed = t.listed /\ n.lost = t.lost
  BY DEF Task, Taken

LEMMA SentFields ==
  ASSUME NEW t \in Task, NEW ok \in BOOLEAN
  PROVE  LET n == [t EXCEPT !.pc = "record", !.ok = ok]
         IN /\ n \in Task /\ n.pc = "record" /\ n.todo = t.todo /\ n.conf = t.conf
            /\ n.cur = t.cur /\ n.tries = t.tries /\ n.ok = ok
            /\ n.listed = t.listed /\ n.lost = t.lost
  BY DEF Task

LEMMA AgainFields ==
  ASSUME NEW t \in Task
  PROVE  LET n == [t EXCEPT !.tries = @ + 1]
         IN /\ n \in Task /\ n.pc = t.pc /\ n.todo = t.todo /\ n.conf = t.conf
            /\ n.cur = t.cur /\ n.tries = t.tries + 1 /\ n.ok = t.ok
            /\ n.listed = t.listed /\ n.lost = t.lost
  BY DEF Task

LEMMA RestFields ==
  ASSUME NEW t \in Task
  PROVE  LET n == Rest(t)
         IN /\ n \in Task /\ n.pc = "next" /\ n.todo = t.todo /\ n.conf = t.conf
            /\ n.tries = 0 /\ n.listed = t.listed /\ n.lost = t.lost
  BY AChanIsOne DEF Task, Rest

LEMMA LostRowFields ==
  ASSUME NEW t \in Task
  PROVE  LET n == LostRow(t)
         IN /\ n \in Task /\ n.pc = "next" /\ n.todo = t.todo /\ n.conf = t.conf
            /\ n.tries = 0 /\ n.listed = t.listed /\ n.lost = t.lost \cup {t.cur}
  BY RestFields DEF Task, LostRow

LEMMA CutFields ==
  ASSUME NEW ls \in SUBSET Channels
  PROVE  LET n == [Unspawned EXCEPT !.pc = "cut", !.listed = ls]
         IN /\ n \in Task /\ n.pc = "cut" /\ n.todo = {} /\ n.conf = {}
            /\ n.listed = ls /\ n.lost = {}
  <1>1. /\ Unspawned \in Task /\ Unspawned.todo = {} /\ Unspawned.conf = {}
        /\ Unspawned.lost = {}
    BY UnspawnedType DEF Unspawned
  <1> HIDE DEF Unspawned
  <1> QED BY <1>1 DEF Task

-----------------------------------------------------------------------------
(* Who is not concerned by a step. *)

\* An event of which nothing changes.
LEMMA SameEvent ==
  ASSUME NEW f \in Events, EventInv(f), task'[f] = task[f], copies'[f] = copies[f],
         sends'[f] = sends[f], row'[f] = row[f]
  PROVE  EventInv(f)'
  BY DEF EventInv, Progress, AtHand, DealtWith, Untouched

\* A step of one delivery: only its own event and types remain to be looked at.
LEMMA TaskStep ==
  ASSUME DeliveryInv, NEW e \in Events, NEW t \in Task, task' = [task EXCEPT ![e] = t],
         copies' \in [Events -> [Channels -> Nat]], sends' \in [Events -> [Channels -> Nat]],
         row' \in [Events -> [Channels -> RowStates]],
         \A f \in Events \ {e} :
           copies'[f] = copies[f] /\ sends'[f] = sends[f] /\ row'[f] = row[f],
         \A c \in Channels : row'[e][c] = "gone" <=> ~Storable(c),
         UNCHANGED <<config, process>>,
         task'[e] = t => EventInv(e)'
  PROVE  DeliveryInv'
  <1>1. TypeOK /\ RowsFollowChannels /\ MainWaits /\ \A f \in Events : EventInv(f)
    BY InvByParts
  <1>2. /\ task' \in [Events -> Task] /\ task'[e] = t
        /\ \A f \in Events \ {e} : task'[f] = task[f]
    BY <1>1 DEF TypeOK
  <1>3. TypeOK'
    BY <1>1, <1>2 DEF TypeOK, config, process
  <1>4. RowsFollowChannels'
    BY <1>1 DEF RowsFollowChannels, Storable, config
  <1>5. MainWaits'
    BY <1>1 DEF MainWaits, LoopsJoined, process
  <1>6. ASSUME NEW f \in Events PROVE EventInv(f)'
    <2>1. CASE f = e
      BY <2>1, <1>2
    <2>2. CASE f # e
      BY <2>2, <1>1, <1>2, SameEvent
    <2> QED BY <2>1, <2>2
  <1> QED BY <1>3, <1>4, <1>5, <1>6, InvByPartsPrime

\* A step of one delivery that sends nothing and records nothing.
LEMMA QuietStep ==
  ASSUME DeliveryInv, NEW e \in Events, NEW t \in Task, task' = [task EXCEPT ![e] = t],
         UNCHANGED <<config, copies, row, sends, process>>,
         task'[e] = t => EventInv(e)'
  PROVE  DeliveryInv'
  <1>1. TypeOK /\ RowsFollowChannels
    BY InvByParts
  <1> QED BY <1>1, TaskStep DEF TypeOK, RowsFollowChannels

-----------------------------------------------------------------------------
(* The steps of a delivery. *)

LEMMA SpawnInv ==
  ASSUME DeliveryInv, NEW e \in Events, spawn_delivery(e)
  PROVE  DeliveryInv'
  <1> DEFINE t == task[e]
             n == [t EXCEPT !.pc = "spawned"]
  <1>1. t \in Task /\ EventInv(e) /\ t.pc = "none"
    BY InvByParts DEF TypeOK, spawn_delivery
  <1>2. /\ n \in Task /\ n.pc = "spawned" /\ n.todo = t.todo /\ n.conf = t.conf
        /\ n.tries = t.tries /\ n.listed = t.listed /\ n.lost = t.lost
    BY <1>1, AtFields
  <1>3. /\ task' = [task EXCEPT ![e] = n]
        /\ UNCHANGED <<config, copies, row, sends, process>>
    BY DEF spawn_delivery
  <1> HIDE DEF n
  <1>4. task'[e] = n => EventInv(e)'
    BY <1>1, <1>2, <1>3 DEF EventInv, Progress, Untouched
  <1> QED BY <1>2, <1>3, <1>4, QuietStep

\* A delivery that ends before it has listed any channel.
LEMMA EndsUnlisted ==
  ASSUME DeliveryInv, NEW e \in Events, task[e].pc = "spawned",
         task' = [task EXCEPT ![e].pc = "done"],
         UNCHANGED <<config, copies, row, sends, process>>
  PROVE  DeliveryInv'
  <1> DEFINE t == task[e]
             n == [t EXCEPT !.pc = "done"]
  <1>1. t \in Task /\ EventInv(e)
    BY InvByParts DEF TypeOK
  <1>2. /\ n \in Task /\ n.pc = "done" /\ n.todo = t.todo /\ n.conf = t.conf
        /\ n.tries = t.tries /\ n.listed = t.listed /\ n.lost = t.lost
    BY <1>1, AtFields
  <1>3. task' = [task EXCEPT ![e] = n]
    OBVIOUS
  <1> HIDE DEF n
  <1>4. task'[e] = n => EventInv(e)'
    <2>1. t.listed = {} /\ t.conf = {}
      BY <1>1 DEF EventInv, Progress
    <2> QED BY <2>1, <1>1, <1>2 DEF EventInv, Progress
  <1> QED BY <1>2, <1>3, <1>4, QuietStep

LEMMA ListInv ==
  ASSUME DeliveryInv, NEW e \in Events, channels_for_check(e)
  PROVE  DeliveryInv'
  <1> DEFINE t == task[e]
  <1>1. /\ t \in Task /\ EventInv(e) /\ t.pc = "spawned" /\ bound \in SUBSET Channels
        /\ UNCHANGED <<config, copies, row, sends, process>>
    BY InvByParts DEF TypeOK, channels_for_check
  <1>2. ASSUME NEW cs \in SUBSET bound, task' = [task EXCEPT ![e] = Listed(e, cs)]
        PROVE  DeliveryInv'
    <2> DEFINE n == [t EXCEPT !.pc = "next", !.todo = bound, !.conf = cs, !.listed = bound]
    <2>0. cs \in SUBSET Channels
      BY <1>1, <1>2
    <2>1. /\ n \in Task /\ n.pc = "next" /\ n.todo = bound /\ n.conf = cs
          /\ n.tries = t.tries /\ n.listed = bound /\ n.lost = t.lost
      BY <1>1, <2>0 DEF Task
    <2>a. task' = [task EXCEPT ![e] = n]
      BY <1>2 DEF Listed
    <2> HIDE DEF n
    <2>2. /\ t.tries = 0 /\ t.lost = {} /\ \A c \in Channels : Untouched(e, c)
      BY <1>1 DEF EventInv, Progress
    <2>3. task'[e] = n => EventInv(e)'
      BY <1>1, <1>2, <2>1, <2>2 DEF EventInv, Progress, Untouched, AtHand
    <2> QED BY <1>1, <2>a, <2>1, <2>3, QuietStep
  <1> QED BY <1>1, <1>2, EndsUnlisted DEF channels_for_check

\* The next channel is taken, passed over, or there is none left.
LEMMA NextChannelInv ==
  ASSUME DeliveryInv, NEW e \in Events, NextChannel(e)
  PROVE  DeliveryInv'
  <1> DEFINE t == task[e]
  <1>1. /\ t \in Task /\ EventInv(e) /\ t.pc = "next"
        /\ UNCHANGED <<config, copies, row, sends, process>>
    BY InvByParts DEF TypeOK, NextChannel
  <1>2. CASE t.todo = {} /\ task' = [task EXCEPT ![e].pc = "done"]
    <2> DEFINE n == [t EXCEPT !.pc = "done"]
    <2>1. /\ n \in Task /\ n.pc = "done" /\ n.todo = t.todo /\ n.conf = t.conf
          /\ n.tries = t.tries /\ n.listed = t.listed /\ n.lost = t.lost
      BY <1>1, AtFields
    <2>2. task' = [task EXCEPT ![e] = n]
      BY <1>2
    <2> HIDE DEF n
    <2>3. task'[e] = n => EventInv(e)'
      BY <1>1, <1>2, <2>1 DEF EventInv, Progress, AtHand, DealtWith
    <2> QED BY <1>1, <2>1, <2>2, <2>3, QuietStep
  <1>3. ASSUME NEW c \in t.todo, c \in t.conf,
               task' = [task EXCEPT ![e] = Taken(t, c)]
        PROVE  DeliveryInv'
    <2> DEFINE n == Taken(t, c)
    <2>1. c \in Channels
      BY <1>1, <1>3 DEF Task
    <2>2. /\ n \in Task /\ n.pc = "send" /\ n.todo = t.todo \ {c} /\ n.conf = t.conf
          /\ n.cur = c /\ n.tries = t.tries /\ n.listed = t.listed /\ n.lost = t.lost
      BY <1>1, <2>1, SendFields
    <2> HIDE DEF n
    <2>3. task'[e] = n => Progress(e)'
      BY <1>1, <1>3, <2>2, AttemptsAssumption DEF EventInv, Progress, Untouched
    <2>4. task'[e] = n => \A d \in task'[e].conf \ AtHand(e)' : DealtWith(e, d)'
      BY <1>1, <1>3, <2>2 DEF EventInv, AtHand, DealtWith
    <2> QED BY <1>1, <1>3, <2>2, <2>3, <2>4, QuietStep DEF n, EventInv
  <1>4. ASSUME NEW c \in t.todo, c \notin t.conf, task' = [task EXCEPT ![e] = Skipped(t, c)]
        PROVE  DeliveryInv'
    <2> DEFINE n == Skipped(t, c)
    <2>1. c \in Channels
      BY <1>1, <1>4 DEF Task
    <2>2. /\ n \in Task /\ n.pc = t.pc /\ n.todo = t.todo \ {c} /\ n.conf = t.conf
          /\ n.tries = t.tries /\ n.listed = t.listed /\ n.lost = t.lost
      BY <1>1, <2>1, SkippedFields
    <2> HIDE DEF n
    <2>3. task'[e] = n => Progress(e)'
      BY <1>1, <1>4, <2>2 DEF EventInv, Progress, Untouched
    <2>4. task'[e] = n => \A d \in task'[e].conf \ AtHand(e)' : DealtWith(e, d)'
      BY <1>1, <1>4, <2>2 DEF EventInv, AtHand, DealtWith
    <2> QED BY <1>1, <1>4, <2>2, <2>3, <2>4, QuietStep DEF n, EventInv
  <1>5. ASSUME NEW c \in t.todo,
               task' = [task EXCEPT ![e] =
                 IF c \in @.conf THEN Taken(@, c) ELSE Skipped(@, c)]
        PROVE  DeliveryInv'
    <2>1. CASE c \in t.conf
      <3>1. task' = [task EXCEPT ![e] = Taken(t, c)]
        BY <1>5, <2>1
      <3> QED BY <1>3, <2>1, <3>1
    <2>2. CASE c \notin t.conf
      BY <1>4, <1>5, <2>2
    <2> QED BY <2>1, <2>2
  <1> QED BY <1>2, <1>5 DEF NextChannel

\* An attempt is made, whatever it comes to: only channel task[e].cur is concerned.
LEMMA SendInv ==
  ASSUME DeliveryInv, NEW e \in Events, send_with_retry(e)
  PROVE  DeliveryInv'
  <1> DEFINE t == task[e]
             c == t.cur
  <1>1. /\ t \in Task /\ EventInv(e) /\ t.pc = "send" /\ TypeOK /\ RowsFollowChannels
        /\ UNCHANGED <<config, row, process>>
    BY InvByParts DEF TypeOK, send_with_retry
  <1>2. /\ c \in Channels /\ t.tries \in Nat /\ t.tries < MaxAttempts
        /\ sends[e][c] = t.tries /\ copies[e][c] \in Nat /\ copies[e][c] <= t.tries
        /\ c \in t.conf /\ c \notin t.todo
    BY <1>1 DEF EventInv, Progress, Task, TypeOK
  <1>3. /\ sends' \in [Events -> [Channels -> Nat]]
        /\ sends'[e][c] = t.tries + 1
        /\ \A d \in Channels \ {c} : sends'[e][d] = sends[e][d]
        /\ \A f \in Events \ {e} : sends'[f] = sends[f]
    BY <1>1, <1>2 DEF send_with_retry, TypeOK
  <1>4. ASSUME NEW k \in {0, 1},
               copies' = IF k = 0 THEN copies ELSE [copies EXCEPT ![e][c] = @ + 1]
        PROVE  /\ copies' \in [Events -> [Channels -> Nat]]
               /\ copies'[e][c] = copies[e][c] + k
               /\ \A d \in Channels \ {c} : copies'[e][d] = copies[e][d]
               /\ \A f \in Events \ {e} : copies'[f] = copies[f]
    BY <1>1, <1>2, <1>4 DEF TypeOK
  <1>5. ASSUME NEW n \in Task, task' = [task EXCEPT ![e] = n],
               n.todo = t.todo, n.conf = t.conf, n.cur = c, n.listed = t.listed, n.lost = t.lost,
               NEW k \in {0, 1},
               copies' = IF k = 0 THEN copies ELSE [copies EXCEPT ![e][c] = @ + 1],
               \/ n.pc = "send" /\ n.tries = t.tries + 1 /\ n.tries < MaxAttempts
               \/ n.pc = "record" /\ (n.ok => k = 1) /\ (~n.ok => t.tries + 1 = MaxAttempts)
        PROVE  DeliveryInv'
    <2>1. /\ copies' \in [Events -> [Channels -> Nat]]
          /\ copies'[e][c] = copies[e][c] + k
          /\ \A d \in Channels \ {c} : copies'[e][d] = copies[e][d]
          /\ \A f \in Events \ {e} : copies'[f] = copies[f]
      BY <1>4, <1>5
    <2>2. ASSUME task'[e] = n PROVE Progress(e)'
      <3>1. \A d \in t.todo : Untouched(e, d)'
        BY <1>1, <1>2, <1>3, <2>1 DEF EventInv, Progress, Untouched, Task
      <3>2. row'[e][c] \in {"none", "gone"}
        BY <1>1 DEF EventInv, Progress
      <3>3. MaxAttempts \in Nat
        BY AttemptsAssumption
      <3> QED
        BY <1>1, <1>2, <1>3, <1>5, <2>1, <2>2, <3>1, <3>2, <3>3 DEF EventInv, Progress
    <2>3. ASSUME task'[e] = n PROVE \A d \in task'[e].conf \ AtHand(e)' : DealtWith(e, d)'
      <3>1. AtHand(e)' = t.todo \cup {c} /\ AtHand(e) = t.todo \cup {c}
        BY <1>1, <1>5, <2>3 DEF AtHand
      <3>2. t.conf \subseteq Channels
        BY <1>1 DEF Task
      <3> QED
        BY <1>1, <1>3, <1>5, <2>1, <2>3, <3>1, <3>2 DEF EventInv, DealtWith
    <2>4. task'[e] = n => EventInv(e)'
      BY <2>2, <2>3 DEF EventInv
    <2>5. /\ row' \in [Events -> [Channels -> RowStates]]
          /\ \A f \in Events \ {e} : row'[f] = row[f]
          /\ \A d \in Channels : row'[e][d] = "gone" <=> ~Storable(d)
          /\ UNCHANGED <<config, process>>
      BY <1>1 DEF TypeOK, RowsFollowChannels
    <2>6. \A f \in Events \ {e} :
            copies'[f] = copies[f] /\ sends'[f] = sends[f] /\ row'[f] = row[f]
      BY <1>3, <2>1, <2>5
    <2> QED BY <1>3, <1>5, <2>1, <2>4, <2>5, <2>6, TaskStep
  <1>6. CASE task' = [task EXCEPT ![e] = SentOk(e)] /\ copies' = [copies EXCEPT ![e][c] = @ + 1]
    <2> DEFINE n == [t EXCEPT !.pc = "record", !.ok = TRUE]
    <2>1. /\ n \in Task /\ n.pc = "record" /\ n.todo = t.todo /\ n.conf = t.conf
          /\ n.cur = t.cur /\ n.tries = t.tries /\ n.ok = TRUE
          /\ n.listed = t.listed /\ n.lost = t.lost
      BY <1>1, SentFields
    <2>2. task' = [task EXCEPT ![e] = n]
      BY <1>6 DEF SentOk
    <2> HIDE DEF n
    <2>3. copies' = IF 1 = 0 THEN copies ELSE [copies EXCEPT ![e][c] = @ + 1]
      BY <1>6
    <2> QED BY <2>1, <2>2, <2>3, <1>5
  <1>7. ASSUME task' = [task EXCEPT ![e] = SendFailed(e)], NEW k \in {0, 1},
               copies' = IF k = 0 THEN copies ELSE [copies EXCEPT ![e][c] = @ + 1]
        PROVE  DeliveryInv'
    <2>1. CASE Retries(t)
      <3> DEFINE n == [t EXCEPT !.tries = @ + 1]
      <3>1. /\ n \in Task /\ n.pc = t.pc /\ n.todo = t.todo /\ n.conf = t.conf
            /\ n.cur = t.cur /\ n.tries = t.tries + 1 /\ n.ok = t.ok
            /\ n.listed = t.listed /\ n.lost = t.lost
        BY <1>1, AgainFields
      <3>2. task' = [task EXCEPT ![e] = n]
        BY <1>7, <2>1 DEF SendFailed
      <3> HIDE DEF n
      <3>3. n.tries < MaxAttempts
        BY <2>1, <3>1 DEF Retries
      <3> QED BY <1>1, <1>5, <1>7, <3>1, <3>2, <3>3
    <2>2. CASE ~Retries(t)
      <3> DEFINE n == [t EXCEPT !.pc = "record", !.ok = FALSE]
      <3>1. /\ n \in Task /\ n.pc = "record" /\ n.todo = t.todo /\ n.conf = t.conf
            /\ n.cur = t.cur /\ n.tries = t.tries /\ n.ok = FALSE
            /\ n.listed = t.listed /\ n.lost = t.lost
        BY <1>1, SentFields
      <3>2. task' = [task EXCEPT ![e] = n]
        BY <1>7, <2>2 DEF SendFailed
      <3> HIDE DEF n
      <3>3. t.tries + 1 = MaxAttempts
        BY <1>2, <2>2, AttemptsAssumption DEF Retries
      <3> QED BY <1>5, <1>7, <3>1, <3>2, <3>3
    <2> QED BY <2>1, <2>2
  <1>8. CASE task' = [task EXCEPT ![e] = SendFailed(e)] /\ copies' = copies
    <2>1. copies' = IF 0 = 0 THEN copies ELSE [copies EXCEPT ![e][c] = @ + 1]
      BY <1>8
    <2> QED BY <1>7, <1>8, <2>1
  <1>9. CASE /\ task' = [task EXCEPT ![e] = SendFailed(e)]
             /\ copies' = [copies EXCEPT ![e][c] = @ + 1]
    <2>1. copies' = IF 1 = 0 THEN copies ELSE [copies EXCEPT ![e][c] = @ + 1]
      BY <1>9
    <2> QED BY <1>7, <1>9, <2>1
  <1> QED BY <1>6, <1>8, <1>9 DEF send_with_retry

\* An outcome is recorded, or lost with its row.
LEMMA RecordInv ==
  ASSUME DeliveryInv, NEW e \in Events, record_notification(e)
  PROVE  DeliveryInv'
  <1> DEFINE t == task[e]
  <1>c. PICK c : c = task[e].cur
    OBVIOUS
  <1>1. /\ t \in Task /\ EventInv(e) /\ t.pc = "record" /\ TypeOK /\ RowsFollowChannels
        /\ UNCHANGED <<config, copies, sends, process>>
    BY InvByParts DEF TypeOK, record_notification
  <1>2. /\ c \in Channels /\ c \in t.conf /\ c \notin t.todo /\ t.conf \subseteq Channels
        /\ t.conf \subseteq t.listed
        /\ sends[e][c] \in 1 .. MaxAttempts /\ (~t.ok => sends[e][c] = MaxAttempts)
        /\ row[e][c] \in {"none", "gone"}
    BY <1>1, <1>c DEF EventInv, Progress, Task
  <1>3. ASSUME NEW n \in Task, task' = [task EXCEPT ![e] = n], n.pc = "next",
               n.todo = t.todo, n.conf = t.conf, n.tries = 0, n.listed = t.listed,
               row' \in [Events -> [Channels -> RowStates]],
               \A d \in Channels \ {c} : row'[e][d] = row[e][d],
               \A f \in Events \ {e} : row'[f] = row[f],
               \/ /\ n.lost = t.lost /\ Storable(c)
                  /\ row'[e][c] = IF t.ok THEN "ok" ELSE "error"
               \/ n.lost = t.lost \cup {c} /\ row'[e][c] = row[e][c]
        PROVE  DeliveryInv'
    <2>1. \A d \in Channels : row'[e][d] = "gone" <=> ~Storable(d)
      BY <1>1, <1>2, <1>3 DEF RowsFollowChannels
    <2>2. ASSUME task'[e] = n PROVE Progress(e)'
      <3>1. \A d \in t.todo : Untouched(e, d)'
        BY <1>1, <1>2, <1>3 DEF EventInv, Progress, Untouched, Task
      <3> QED BY <1>1, <1>2, <1>3, <2>2, <3>1 DEF EventInv, Progress
    <2>3. ASSUME task'[e] = n PROVE \A d \in task'[e].conf \ AtHand(e)' : DealtWith(e, d)'
      <3>1. AtHand(e)' = t.todo /\ AtHand(e) = t.todo \cup {c}
        BY <1>1, <1>3, <1>c, <2>3 DEF AtHand
      <3>2. DealtWith(e, c)'
        BY <1>1, <1>2, <1>3, <2>3 DEF DealtWith
      <3>3. ASSUME NEW d \in t.conf \ t.todo, d # c PROVE DealtWith(e, d)'
        BY <1>1, <1>2, <1>3, <2>3, <3>1, <3>3 DEF EventInv, DealtWith
      <3> QED BY <1>3, <2>3, <3>1, <3>2, <3>3
    <2> QED
      BY <1>1, <1>3, <2>1, <2>2, <2>3, TaskStep DEF EventInv, TypeOK
  <1>4. CASE /\ Storable(c) /\ task' = [task EXCEPT ![e] = Rest(@)]
             /\ row' = [row EXCEPT ![e][c] = IF t.ok THEN "ok" ELSE "error"]
    <2>1. LET n == Rest(t)
          IN /\ n \in Task /\ n.pc = "next" /\ n.todo = t.todo /\ n.conf = t.conf
             /\ n.tries = 0 /\ n.listed = t.listed /\ n.lost = t.lost
      BY <1>1, RestFields
    <2>2. task' = [task EXCEPT ![e] = Rest(t)]
      BY <1>4
    <2>3. /\ row' \in [Events -> [Channels -> RowStates]]
          /\ \A d \in Channels \ {c} : row'[e][d] = row[e][d]
          /\ \A f \in Events \ {e} : row'[f] = row[f]
          /\ row'[e][c] = IF t.ok THEN "ok" ELSE "error"
      BY <1>1, <1>2, <1>4 DEF TypeOK, RowStates
    <2> QED BY <1>3, <1>4, <2>1, <2>2, <2>3
  <1>5. CASE task' = [task EXCEPT ![e] = LostRow(@)] /\ UNCHANGED row
    <2>1. LET n == LostRow(t)
          IN /\ n \in Task /\ n.pc = "next" /\ n.todo = t.todo /\ n.conf = t.conf
             /\ n.tries = 0 /\ n.listed = t.listed /\ n.lost = t.lost \cup {c}
      BY <1>1, <1>c, LostRowFields
    <2>2. task' = [task EXCEPT ![e] = LostRow(t)]
      BY <1>5
    <2>3. /\ row' \in [Events -> [Channels -> RowStates]]
      BY <1>1, <1>5 DEF TypeOK
    <2> QED BY <1>3, <1>5, <2>1, <2>2, <2>3
  <1> QED BY <1>4, <1>5, <1>c DEF record_notification

-----------------------------------------------------------------------------
(* Users and the process. *)

\* Rows that are deleted with what they belong to, or by their age: nothing a task
\* relies on is lost.
LEMMA RowsGo ==
  ASSUME DeliveryInv, UNCHANGED <<task, copies, sends, process>>,
         channels' \subseteq Channels, bound' \subseteq channels', check' \in BOOLEAN,
         row' \in [Events -> [Channels -> RowStates]],
         \A e \in Events, c \in Channels :
           \/ row'[e][c] = row[e][c] \/ row'[e][c] = "gone"
           \/ row[e][c] \in {"ok", "error"} /\ row'[e][c] = "pruned",
         RowsFollowChannels'
  PROVE  DeliveryInv'
  <1>1. TypeOK /\ MainWaits /\ \A e \in Events : EventInv(e)
    BY InvByParts
  <1>2. MainWaits'
    BY <1>1 DEF MainWaits, LoopsJoined, process
  <1>3. TypeOK'
    BY <1>1 DEF TypeOK, process
  <1>4. ASSUME NEW e \in Events PROVE EventInv(e)'
    <2>1. /\ EventInv(e) /\ task'[e] = task[e] /\ task[e] \in Task
          /\ copies'[e] = copies[e] /\ sends'[e] = sends[e]
      BY <1>1 DEF TypeOK
    <2>2. /\ task[e].todo \subseteq Channels /\ task[e].conf \subseteq Channels
          /\ task[e].cur \in Channels
      BY <2>1 DEF Task
    <2>3. \A d \in Channels : Untouched(e, d) => Untouched(e, d)'
      BY <2>1 DEF Untouched
    <2>4. \A d \in Channels : row[e][d] \in {"none", "gone"} => row'[e][d] \in {"none", "gone"}
      OBVIOUS
    <2>5. Progress(e)'
      BY <2>1, <2>2, <2>3, <2>4 DEF EventInv, Progress
    <2>6. AtHand(e)' = AtHand(e)
      BY <2>1 DEF AtHand
    <2>7. \A d \in Channels : DealtWith(e, d) => DealtWith(e, d)'
      BY <2>1 DEF DealtWith
    <2> QED BY <2>1, <2>2, <2>5, <2>6, <2>7 DEF EventInv
  <1> QED BY <1>2, <1>3, <1>4, InvByPartsPrime

\* A channel is bound, unbound, or goes.
LEMMA EditInv ==
  ASSUME DeliveryInv, NEW c \in Channels, EditChannel(c)
  PROVE  DeliveryInv'
  <1>1. /\ TypeOK /\ RowsFollowChannels /\ c \in channels
        /\ UNCHANGED <<check, task, copies, sends, process>>
    BY InvByParts DEF EditChannel
  <1>2. CASE bound' \in {bound \cup {c}, bound \ {c}} /\ UNCHANGED <<channels, row>>
    <2>1. RowsFollowChannels'
      BY <1>1, <1>2 DEF RowsFollowChannels, Storable
    <2>2. bound' \subseteq channels'
      BY <1>1, <1>2 DEF TypeOK
    <2> QED BY <1>1, <1>2, <2>1, <2>2, RowsGo DEF TypeOK
  <1>3. CASE /\ channels' = channels \ {c} /\ bound' = bound \ {c}
             /\ row' = [e \in Events |-> [row[e] EXCEPT ![c] = "gone"]]
    <2>1. /\ row' \in [Events -> [Channels -> RowStates]]
          /\ \A e \in Events : /\ row'[e][c] = "gone"
                               /\ \A d \in Channels \ {c} : row'[e][d] = row[e][d]
      BY <1>1, <1>3 DEF TypeOK, RowStates
    <2>2. RowsFollowChannels'
      BY <1>1, <1>3, <2>1 DEF RowsFollowChannels, Storable
    <2>3. channels' \subseteq Channels /\ bound' \subseteq channels' /\ check' \in BOOLEAN
      BY <1>1, <1>3 DEF TypeOK
    <2>4. \A e \in Events, d \in Channels : row'[e][d] = row[e][d] \/ row'[e][d] = "gone"
      BY <2>1
    <2> QED BY <1>1, <2>1, <2>2, <2>3, <2>4, RowsGo
  <1> QED BY <1>2, <1>3 DEF EditChannel

\* The check goes, or old rows do.
LEMMA DeleteInv ==
  ASSUME DeliveryInv, delete_check \/ delete_notifications_before
  PROVE  DeliveryInv'
  <1>1. TypeOK /\ RowsFollowChannels
    BY InvByParts
  <1>2. CASE delete_check
    <2>1. /\ row' = [e \in Events |-> [c \in Channels |-> "gone"]] /\ check' = FALSE
          /\ bound' = {} /\ UNCHANGED <<channels, task, copies, sends, process>>
      BY <1>2 DEF delete_check
    <2>2. /\ row' \in [Events -> [Channels -> RowStates]]
          /\ \A e \in Events, c \in Channels : row'[e][c] = "gone"
      BY <2>1 DEF RowStates
    <2>3. RowsFollowChannels'
      BY <2>1, <2>2 DEF RowsFollowChannels, Storable
    <2> QED BY <1>1, <2>1, <2>2, <2>3, RowsGo DEF TypeOK
  <1>3. CASE delete_notifications_before
    <2>1. UNCHANGED <<config, task, copies, sends, process>>
      BY <1>3 DEF delete_notifications_before
    <2>2. PICK old : row' = [e \in Events |-> [c \in Channels |-> Pruned(old, e, c)]]
      BY <1>3 DEF delete_notifications_before
    <2>3. ASSUME NEW e \in Events, NEW c \in Channels
          PROVE  /\ Pruned(old, e, c) \in RowStates
                 /\ \/ Pruned(old, e, c) = row[e][c]
                    \/ row[e][c] \in {"ok", "error"} /\ Pruned(old, e, c) = "pruned"
      BY <1>1 DEF Pruned, RowStates, TypeOK
    <2>4. /\ row' \in [Events -> [Channels -> RowStates]]
          /\ \A e \in Events, c \in Channels :
               \/ row'[e][c] = row[e][c]
               \/ row[e][c] \in {"ok", "error"} /\ row'[e][c] = "pruned"
      BY <2>2, <2>3
    <2>5. RowsFollowChannels'
      BY <1>1, <2>1, <2>4 DEF RowsFollowChannels, Storable, config
    <2> QED BY <1>1, <2>1, <2>4, <2>5, RowsGo DEF TypeOK, config
  <1> QED BY <1>2, <1>3

\* A step of the process that leaves channels and deliveries alone.
LEMMA ProcessStep ==
  ASSUME DeliveryInv, UNCHANGED <<config, delivery>>,
         down' \in BOOLEAN, busy' \subseteq Requests, scan' \in LoopStates, prune' \in LoopStates,
         main' \in {"serve", "join", "close", "exited"}, pool' \in {"open", "closed"},
         MainWaits'
  PROVE  DeliveryInv'
  <1>1. TypeOK /\ RowsFollowChannels /\ \A e \in Events : EventInv(e)
    BY InvByParts
  <1>2. TypeOK'
    BY <1>1 DEF TypeOK, config, delivery
  <1>3. RowsFollowChannels'
    BY <1>1 DEF RowsFollowChannels, Storable, config, delivery
  <1>4. \A e \in Events : EventInv(e)'
    BY <1>1, SameEvent DEF delivery
  <1> QED BY <1>2, <1>3, <1>4, InvByPartsPrime

\* A loop stops only under the flag, and for good.
LEMMA LoopGoesOn ==
  ASSUME NEW s \in LoopStates, NEW t \in LoopGoesTo(s)
  PROVE  t \in LoopStates /\ s \notin {"stopped", "panicked"} /\ (t = "stopped" => down)
  <1>1. CASE s = "pass"
    BY <1>1 DEF LoopGoesTo, LoopStates
  <1>2. CASE s = "sleep"
    BY <1>2 DEF LoopGoesTo, LoopStates
  <1>3. CASE s \in {"stopped", "panicked"}
    BY <1>3 DEF LoopGoesTo
  <1> QED BY <1>1, <1>2, <1>3 DEF LoopStates

LEMMA LoopsInv ==
  ASSUME DeliveryInv, run_scan_loop \/ run_prune_loop
  PROVE  DeliveryInv'
  <1>1. TypeOK /\ MainWaits
    BY InvByParts
  <1>2. CASE run_scan_loop
    <2>1. /\ scan' \in LoopStates /\ scan \notin {"stopped", "panicked"}
          /\ (scan' = "stopped" => down)
      BY <1>1, <1>2, LoopGoesOn DEF run_scan_loop, TypeOK
    <2>2. UNCHANGED <<config, delivery, down, busy, prune, main, pool>>
      BY <1>2 DEF run_scan_loop
    <2>3. MainWaits'
      BY <1>1, <2>1, <2>2 DEF MainWaits, LoopsJoined
    <2> QED BY <1>1, <2>1, <2>2, <2>3, ProcessStep DEF TypeOK
  <1>3. CASE run_prune_loop
    <2>1. /\ prune' \in LoopStates /\ prune \notin {"stopped", "panicked"}
          /\ (prune' = "stopped" => down)
      BY <1>1, <1>3, LoopGoesOn DEF run_prune_loop, TypeOK
    <2>2. UNCHANGED <<config, delivery, down, busy, scan, main, pool>>
      BY <1>3 DEF run_prune_loop
    <2>3. MainWaits'
      BY <1>1, <2>1, <2>2 DEF MainWaits, LoopsJoined
    <2> QED BY <1>1, <2>1, <2>2, <2>3, ProcessStep DEF TypeOK
  <1> QED BY <1>2, <1>3

LEMMA ServerInv ==
  ASSUME DeliveryInv,
         \/ \E r \in Requests : RequestIn(r) \/ RequestOut(r)
         \/ trigger \/ StopServing \/ ClosePool
  PROVE  DeliveryInv'
  <1>1. TypeOK /\ MainWaits
    BY InvByParts
  <1>2. ASSUME NEW r \in Requests, RequestIn(r) \/ RequestOut(r) PROVE DeliveryInv'
    <2>1. MainWaits'
      BY <1>1, <1>2 DEF MainWaits, LoopsJoined, RequestIn, RequestOut
    <2> QED BY <1>1, <1>2, <2>1, ProcessStep DEF TypeOK, RequestIn, RequestOut
  <1>3. CASE trigger
    <2>1. MainWaits'
      BY <1>1, <1>3 DEF MainWaits, LoopsJoined, trigger
    <2> QED BY <1>1, <1>3, <2>1, ProcessStep DEF TypeOK, trigger
  <1>4. CASE StopServing
    <2>1. MainWaits'
      BY <1>1, <1>4 DEF MainWaits, LoopsJoined, StopServing
    <2> QED BY <1>1, <1>4, <2>1, ProcessStep DEF TypeOK, StopServing
  <1>5. CASE ClosePool
    <2>1. MainWaits'
      BY <1>1, <1>5 DEF MainWaits, LoopsJoined, ClosePool
    <2> QED BY <1>1, <1>5, <2>1, ProcessStep DEF TypeOK, ClosePool
  <1> QED BY <1>2, <1>3, <1>4, <1>5

\* What still runs at the exit is cut off; what it had sent and recorded stays.
LEMMA ExitInv ==
  ASSUME DeliveryInv, Exit
  PROVE  DeliveryInv'
  <1>1. TypeOK /\ RowsFollowChannels /\ MainWaits /\ \A e \in Events : EventInv(e)
    BY InvByParts
  <1>2. /\ UNCHANGED <<config, copies, row, sends, down, scan, prune, pool>>
        /\ main = "close" /\ main' = "exited" /\ busy' = {}
    BY DEF Exit
  <1>3. ASSUME NEW e \in Events
        PROVE  task'[e] \in Task /\ EventInv(e)'
    <2>1. task[e] \in Task
      BY <1>1 DEF TypeOK
    <2>2. CASE task[e].pc \in {"none", "done"}
      <3>1. task'[e] = task[e]
        BY <2>2 DEF Exit
      <3> QED BY <1>1, <1>2, <2>1, <3>1, SameEvent
    <2>3. CASE task[e].pc \notin {"none", "done"}
      <3> DEFINE n == [Unspawned EXCEPT !.pc = "cut", !.listed = task[e].listed]
      <3>1. task[e].listed \in SUBSET Channels
        BY <2>1 DEF Task
      <3>2. /\ n \in Task /\ n.pc = "cut" /\ n.todo = {} /\ n.conf = {}
            /\ n.listed = task[e].listed /\ n.lost = {}
        BY <3>1, CutFields, Zenon
      <3>3. task'[e] = n
        BY <2>3 DEF Exit
      <3> HIDE DEF n
      <3> QED BY <3>2, <3>3 DEF EventInv, Progress
    <2> QED BY <2>2, <2>3
  <1>4. task' \in [Events -> Task]
    <2>1. task' = [e \in Events |-> task'[e]]
      BY DEF Exit
    <2> QED BY <1>3, <2>1
  <1>5. TypeOK'
    BY <1>1, <1>2, <1>4 DEF TypeOK, config
  <1>6. RowsFollowChannels'
    BY <1>1, <1>2 DEF RowsFollowChannels, Storable, config
  <1>7. MainWaits'
    BY <1>1, <1>2 DEF MainWaits, LoopsJoined
  <1> QED BY <1>3, <1>5, <1>6, <1>7, InvByPartsPrime

-----------------------------------------------------------------------------
LEMMA InitInv == Init => DeliveryInv
  <1> SUFFICES ASSUME Init PROVE DeliveryInv OBVIOUS
  <1>1. TypeOK
    BY UnspawnedType DEF Init, TypeOK, LoopStates, RowStates
  <1>2. RowsFollowChannels
    BY DEF Init, RowsFollowChannels, Storable
  <1>3. MainWaits
    BY DEF Init, MainWaits
  <1>4. ASSUME NEW e \in Events PROVE EventInv(e)
    <2>1. /\ task[e].pc = "none" /\ task[e].todo = {} /\ task[e].conf = {}
          /\ task[e].tries = 0 /\ task[e].listed = {} /\ task[e].lost = {}
      BY DEF Init, Unspawned
    <2>2. \A c \in Channels : Untouched(e, c)
      BY DEF Init, Untouched
    <2> QED BY <2>1, <2>2 DEF EventInv, Progress
  <1> QED BY <1>1, <1>2, <1>3, <1>4, InvByParts

LEMMA NextInv == DeliveryInv /\ [Next]_vars => DeliveryInv'
  <1> SUFFICES ASSUME DeliveryInv, [Next]_vars PROVE DeliveryInv' OBVIOUS
  <1>1. CASE (\E c \in Channels : EditChannel(c)) \/ delete_check \/ delete_notifications_before
    BY <1>1, EditInv, DeleteInv
  <1>2. CASE \E e \in Events : spawn_delivery(e) \/ DeliveryStep(e)
    BY <1>2, SpawnInv, ListInv, NextChannelInv, SendInv, RecordInv DEF DeliveryStep
  <1>3. CASE \/ \E r \in Requests : RequestIn(r) \/ RequestOut(r)
             \/ trigger \/ StopServing \/ ClosePool
    BY <1>3, ServerInv
  <1>4. CASE run_scan_loop \/ run_prune_loop
    BY <1>4, LoopsInv
  <1>5. CASE Exit
    BY <1>5, ExitInv
  <1>6. CASE UNCHANGED vars
    <2>1. TypeOK /\ MainWaits
      BY InvByParts
    <2>2. UNCHANGED <<config, delivery>> /\ UNCHANGED <<down, busy, scan, prune, main, pool>>
      BY <1>6 DEF vars, process
    <2>3. MainWaits'
      BY <2>1, <2>2 DEF MainWaits, LoopsJoined
    <2> QED BY <2>1, <2>2, <2>3, ProcessStep DEF TypeOK
  <1> QED BY <1>1, <1>2, <1>3, <1>4, <1>5, <1>6 DEF Next

\* DeliveryInv is an invariant for any number of events, channels and attempts: where a
\* task of deliver_event stands with each channel, and main with each loop.
THEOREM DeliveryInvariant == Spec => []DeliveryInv
  BY InitInv, NextInv, PTL DEF Spec

\* deliver_event leaves no usable channel out and gives none up early, whatever became of
\* the channels before it.
THEOREM EveryChannelAlwaysTried == Spec => []EveryChannelIsTried
  <1>1. DeliveryInv => EveryChannelIsTried
    BY DEF DeliveryInv
  <1> QED BY <1>1, DeliveryInvariant, PTL

\* main never closes the pool under a loop that may still query it.
THEOREM LoopsAlwaysMeetAnOpenPool == Spec => []LoopsMeetAnOpenPool
  <1>1. DeliveryInv => LoopsMeetAnOpenPool
    BY DEF DeliveryInv, TypeOK, MainWaits, LoopsJoined, LoopsMeetAnOpenPool
  <1> QED BY <1>1, DeliveryInvariant, PTL

-----------------------------------------------------------------------------
(* Delivery implements Outbox. *)

\* A copy can arrive only at a channel without a row, and never one too many.
LEMMA SendImplements ==
  ASSUME DeliveryInv, NEW e \in Events, send_with_retry(e)
  PROVE  Promise!Next \/ UNCHANGED <<copies, row>>
  <1>1. /\ task[e] \in Task /\ EventInv(e) /\ task[e].pc = "send" /\ TypeOK
        /\ UNCHANGED row
    BY InvByParts DEF TypeOK, send_with_retry
  <1>2. /\ task[e].cur \in Channels /\ row[e][task[e].cur] \in {"none", "gone"}
        /\ copies[e][task[e].cur] < MaxAttempts
    BY <1>1, AttemptsAssumption DEF EventInv, Progress, Task, TypeOK
  <1>3. CASE copies' = [copies EXCEPT ![e][task[e].cur] = @ + 1]
    <2>1. Promise!Arrive(e, task[e].cur)
      BY <1>1, <1>2, <1>3 DEF Promise!Arrive
    <2> QED BY <1>2, <2>1 DEF Promise!Next
  <1>4. CASE copies' = copies
    BY <1>1, <1>4
  <1> QED BY <1>3, <1>4 DEF send_with_retry

\* A row is written once, and "ok" only over a copy that arrived.
LEMMA RecordImplements ==
  ASSUME DeliveryInv, NEW e \in Events, record_notification(e)
  PROVE  Promise!Next \/ UNCHANGED <<copies, row>>
  <1> DEFINE c == task[e].cur
  <1>1. /\ task[e] \in Task /\ EventInv(e) /\ task[e].pc = "record"
        /\ RowsFollowChannels /\ UNCHANGED copies
    BY InvByParts DEF TypeOK, record_notification
  <1>2. /\ c \in Channels /\ row[e][c] \in {"none", "gone"}
        /\ task[e].ok \in BOOLEAN /\ (task[e].ok => copies[e][c] > 0)
    BY <1>1 DEF EventInv, Progress, Task
  <1>3. CASE /\ Storable(c)
             /\ row' = [row EXCEPT ![e][c] = IF task[e].ok THEN "ok" ELSE "error"]
    <2>1. row[e][c] = "none"
      BY <1>1, <1>2, <1>3 DEF RowsFollowChannels
    <2>2. Promise!Settle(e, c)
      BY <1>1, <1>2, <1>3, <2>1 DEF Promise!Settle
    <2> QED BY <1>2, <2>2 DEF Promise!Next
  <1>4. CASE UNCHANGED row
    BY <1>1, <1>4
  <1> QED BY <1>3, <1>4 DEF record_notification

\* Every step is a step of Outbox or changes nothing that it sees.
LEMMA StepImplements ==
  ASSUME DeliveryInv, [Next]_vars
  PROVE  [Promise!Next]_(Promise!vars)
  <1> SUFFICES Promise!Next \/ UNCHANGED <<copies, row>>
    BY DEF Promise!vars
  <1>1. ASSUME NEW c \in Channels, EditChannel(c)
        PROVE  Promise!Next \/ UNCHANGED <<copies, row>>
    <2>1. CASE row' = [e \in Events |-> [row[e] EXCEPT ![c] = "gone"]]
      <3> DEFINE pairs == Events \X {c}
      <3>1. pairs \in SUBSET (Events \X Channels)
        OBVIOUS
      <3>2. row \in [Events -> [Channels -> RowStates]]
        BY InvByParts DEF TypeOK
      <3>3. \A e \in Events : [row[e] EXCEPT ![c] = "gone"] =
              [d \in Channels |-> IF <<e, d>> \in pairs THEN "gone" ELSE row[e][d]]
        BY <3>2
      <3>4. row' = [e \in Events |->
              [d \in Channels |-> IF <<e, d>> \in pairs THEN "gone" ELSE row[e][d]]]
        BY <2>1, <3>3
      <3>5. Promise!Forget(pairs)
        BY <1>1, <3>4 DEF EditChannel, Promise!Forget
      <3> QED BY <3>1, <3>5 DEF Promise!Next
    <2>2. CASE UNCHANGED row
      BY <1>1, <2>2 DEF EditChannel
    <2> QED BY <1>1, <2>1, <2>2 DEF EditChannel
  <1>6. CASE delete_check
    <2> DEFINE pairs == Events \X Channels
    <2>1. row' = [e \in Events |->
            [d \in Channels |-> IF <<e, d>> \in pairs THEN "gone" ELSE row[e][d]]]
      BY <1>6 DEF delete_check
    <2>2. Promise!Forget(pairs)
      BY <1>6, <2>1 DEF delete_check, Promise!Forget
    <2> QED BY <2>2 DEF Promise!Next
  <1>7. CASE delete_notifications_before
    <2>1. PICK old \in SUBSET (Events \X Channels) :
            row' = [e \in Events |-> [c \in Channels |-> Pruned(old, e, c)]]
      BY <1>7 DEF delete_notifications_before
    <2>2. Promise!Expire(old)
      BY <1>7, <2>1 DEF delete_notifications_before, Pruned, Promise!Expire
    <2> QED BY <2>1, <2>2 DEF Promise!Next
  <1>2. ASSUME NEW e \in Events, spawn_delivery(e) \/ channels_for_check(e) \/ NextChannel(e)
        PROVE  UNCHANGED <<copies, row>>
    BY <1>2 DEF spawn_delivery, channels_for_check, NextChannel
  <1>3. CASE \/ \E r \in Requests : RequestIn(r) \/ RequestOut(r)
             \/ trigger \/ run_scan_loop \/ run_prune_loop \/ StopServing \/ ClosePool
    BY <1>3 DEF RequestIn, RequestOut, trigger, run_scan_loop, run_prune_loop, StopServing,
                ClosePool, delivery
  <1>4. CASE Exit
    BY <1>4 DEF Exit
  <1>5. CASE UNCHANGED vars
    BY <1>5 DEF vars, delivery
  <1> QED
    BY <1>1, <1>2, <1>3, <1>4, <1>5, <1>6, <1>7, SendImplements, RecordImplements
    DEF Next, DeliveryStep

\* What the outside sees of deliver_event and send_with_retry is what Outbox promises, for
\* any number of events, channels and attempts.
THEOREM DeliveryImplementsOutbox == Spec => KeepsThePromise
  <1>1. Init => Promise!Init
    BY DEF Init, Promise!Init
  <1>2. DeliveryInv /\ [Next]_vars => [Promise!Next]_(Promise!vars)
    BY StepImplements
  <1> QED BY <1>1, <1>2, DeliveryInvariant, PTL DEF Spec, KeepsThePromise, Promise!Spec
=============================================================================
