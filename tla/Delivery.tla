------------------------------ MODULE Delivery ------------------------------
(***************************************************************************)
(* Notification delivery (notify.rs, spawn_delivery, spawn_deliveries) and *)
(* the shutdown of the process it runs in (main.rs, shutdown.rs).          *)
(*                                                                         *)
(* An event is delivered by a task of its own, spawned by a ping request   *)
(* or by a pass of the scan loop and joined by nobody.  The task lists the *)
(* bound channels once, then sends to one after the other, each with       *)
(* retries, and records each outcome.  Meanwhile users bind, edit and      *)
(* delete channels or the check itself, old rows are pruned, queries fail, *)
(* a loop panics, and the process is told to stop.                         *)
(***************************************************************************)
EXTENDS Naturals, FiniteSets

CONSTANTS
  Events,       \* the events handed to delivery, one task each
  Channels,     \* the channels of the check's project
  Mail,         \* the e-mail channels among them: their driver sets no timeout
  Requests,     \* slots for HTTP requests in flight
  MaxAttempts   \* RetryPolicy::max_attempts

ASSUME AttemptsAssumption == MaxAttempts \in Nat \ {0}
ASSUME AChannel == Channels # {}
ASSUME MailAssumption == Mail \subseteq Channels

VARIABLES
  channels,  \* the channels that exist
  bound,     \* the channels bound to the check
  check,     \* does the check of the events still exist?
  task,      \* the delivery task of each event
  copies,    \* per event and channel: copies that reached the receiver
  row,       \* per event and channel: the notifications row, "gone" with its channel or check
  sends,     \* history: attempts made, per event and channel
  down,      \* the shutdown flag
  busy,      \* requests in flight
  scan, prune,  \* the loops: in a pass, asleep, stopped or panicked
  main,      \* main's progress: "serve", "join", "close", "exited"
  pool       \* "open", "closed"

delivery == <<task, copies, row, sends>>
config   == <<channels, bound, check>>
process  == <<down, busy, scan, prune, main, pool>>
vars     == <<config, delivery, process>>

AChan == CHOOSE c \in Channels : TRUE

\* `todo`: listed and not yet handled.  `conf`: the usable ones.  `cur`, `tries`,
\* `ok`: the channel at hand, its failed attempts, its outcome.
Task == [pc : {"none", "spawned", "next", "send", "record", "done", "cut"},
         todo : SUBSET Channels, conf : SUBSET Channels, cur : Channels,
         tries : Nat, ok : BOOLEAN, listed : SUBSET Channels, lost : SUBSET Channels]

Unspawned == [pc |-> "none", todo |-> {}, conf |-> {}, cur |-> AChan,
              tries |-> 0, ok |-> FALSE, listed |-> {}, lost |-> {}]

RowStates == {"none", "ok", "error", "pruned", "gone"}

LoopStates == {"pass", "sleep", "stopped", "panicked"}

TypeOK ==
  /\ channels \subseteq Channels /\ bound \subseteq channels /\ check \in BOOLEAN
  /\ task \in [Events -> Task]
  /\ copies \in [Events -> [Channels -> Nat]]
  /\ sends \in [Events -> [Channels -> Nat]]
  /\ row \in [Events -> [Channels -> RowStates]]
  /\ down \in BOOLEAN /\ busy \subseteq Requests
  /\ scan \in LoopStates /\ prune \in LoopStates
  /\ main \in {"serve", "join", "close", "exited"} /\ pool \in {"open", "closed"}

Running == main # "exited"

Init ==
  /\ channels = Channels /\ bound \in SUBSET Channels /\ check = TRUE
  /\ task = [e \in Events |-> Unspawned]
  /\ copies = [e \in Events |-> [c \in Channels |-> 0]]
  /\ sends = [e \in Events |-> [c \in Channels |-> 0]]
  /\ row = [e \in Events |-> [c \in Channels |-> "none"]]
  /\ down = FALSE /\ busy = {}
  /\ scan = "pass" /\ prune = "pass"
  /\ main = "serve" /\ pool = "open"

-----------------------------------------------------------------------------
(* Users, through requests in flight, and the prune loop. *)

\* The foreign keys of a notifications row.
Storable(c) == check /\ c \in channels

\* A channel is bound to the check, unbound from it, or deleted with its rows.
EditChannel(c) ==
  /\ busy # {} /\ pool = "open" /\ Running
  /\ c \in channels
  /\ \/ check /\ bound' \in {bound \cup {c}, bound \ {c}} /\ UNCHANGED <<channels, row>>
     \/ /\ channels' = channels \ {c} /\ bound' = bound \ {c}
        /\ row' = [e \in Events |-> [row[e] EXCEPT ![c] = "gone"]]
  /\ UNCHANGED <<check, task, copies, sends, process>>

\* The check is deleted, its bindings and its notifications with it.
delete_check ==
  /\ busy # {} /\ pool = "open" /\ Running
  /\ check
  /\ check' = FALSE /\ bound' = {}
  /\ row' = [e \in Events |-> [c \in Channels |-> "gone"]]
  /\ UNCHANGED <<channels, task, copies, sends, process>>

\* What pruning the rows in `old` leaves of the row of e and c.
Pruned(old, e, c) ==
  IF <<e, c>> \in old /\ row[e][c] \in {"ok", "error"} THEN "pruned" ELSE row[e][c]

\* The prune pass deletes the rows older than its cutoff: which ones, their age decides.
delete_notifications_before ==
  /\ prune = "pass" /\ pool = "open" /\ Running
  /\ \E old \in SUBSET (Events \X Channels) :
       row' = [e \in Events |-> [c \in Channels |-> Pruned(old, e, c)]]
  /\ UNCHANGED <<config, task, copies, sends, process>>

-----------------------------------------------------------------------------
(* A delivery task. *)

\* ping::apply and run_scan_loop hand an event over.
spawn_delivery(e) ==
  /\ Running /\ (busy # {} \/ scan = "pass")
  /\ task[e].pc = "none"
  /\ task' = [task EXCEPT ![e].pc = "spawned"]
  /\ UNCHANGED <<config, copies, row, sends, process>>

\* channels_for_check: the rows, config and all, as they are at this moment.
\* notifier_for makes a notifier of the ones in cs: the config of the others lacks a field.
Listed(e, cs) == [task[e] EXCEPT !.pc = "next", !.todo = bound, !.conf = cs, !.listed = bound]

channels_for_check(e) ==
  /\ Running /\ task[e].pc = "spawned"
  /\ \/ /\ pool = "open" /\ bound # {}
        /\ \E cs \in SUBSET bound : task' = [task EXCEPT ![e] = Listed(e, cs)]
     \/ pool = "open" /\ bound = {} /\ task' = [task EXCEPT ![e].pc = "done"]
     \/ task' = [task EXCEPT ![e].pc = "done"]      \* the query fails
  /\ UNCHANGED <<config, copies, row, sends, process>>

\* Mutant: `continue` without moving on.
SkipsNothing(t, c) == t

\* No notifier for c.
Skipped(t, c) == [t EXCEPT !.todo = @ \ {c}]

\* c is the channel to send to.
Taken(t, c) == [t EXCEPT !.pc = "send", !.todo = @ \ {c}, !.cur = c]

\* The head of deliver_event's loop; notifier_for has nothing for an unusable channel.
NextChannel(e) ==
  /\ Running /\ task[e].pc = "next"
  /\ \/ /\ task[e].todo = {}
        /\ task' = [task EXCEPT ![e].pc = "done"]
     \/ \E c \in task[e].todo :
          task' = [task EXCEPT ![e] = IF c \in @.conf THEN Taken(@, c) ELSE Skipped(@, c)]
  /\ UNCHANGED <<config, copies, row, sends, process>>

\* Mutant: one attempt too many.
RetriesOnceMore(t) == t.tries < MaxAttempts

\* send_with_retry: another attempt after this failed one?
Retries(t) == t.tries + 1 < MaxAttempts

SentOk(e) == [task[e] EXCEPT !.pc = "record", !.ok = TRUE]

\* Mutant: an exhausted retry is reported as sent.
ForgetsError(e) ==
  IF Retries(task[e]) THEN [task[e] EXCEPT !.tries = @ + 1]
  ELSE [task[e] EXCEPT !.pc = "record", !.ok = TRUE]

SendFailed(e) ==
  IF Retries(task[e]) THEN [task[e] EXCEPT !.tries = @ + 1]
  ELSE [task[e] EXCEPT !.pc = "record", !.ok = FALSE]

\* One attempt.  An error (a timeout, a lost reply) may come after the copy arrived.
send_with_retry(e) ==
  /\ Running /\ task[e].pc = "send"
  /\ LET c == task[e].cur
         arrives == [copies EXCEPT ![e][c] = @ + 1]
     IN /\ \/ task' = [task EXCEPT ![e] = SentOk(e)] /\ copies' = arrives
           \/ task' = [task EXCEPT ![e] = SendFailed(e)] /\ copies' \in {copies, arrives}
        /\ sends' = [sends EXCEPT ![e][c] = @ + 1]
  /\ UNCHANGED <<config, row, process>>

\* The channel at hand is dealt with.
Rest(t) == [t EXCEPT !.pc = "next", !.cur = AChan, !.tries = 0, !.ok = FALSE]

\* Mutant: a failed INSERT ends the delivery.
EndsDelivery(t) == [Rest(t) EXCEPT !.pc = "done", !.lost = @ \cup {t.cur}]

\* A failed INSERT is logged.
LostRow(t) == [Rest(t) EXCEPT !.lost = @ \cup {t.cur}]

record_notification(e) ==
  /\ Running /\ task[e].pc = "record"
  /\ LET c == task[e].cur
     IN \/ /\ pool = "open" /\ Storable(c)
           /\ row' = [row EXCEPT ![e][c] = IF task[e].ok THEN "ok" ELSE "error"]
           /\ task' = [task EXCEPT ![e] = Rest(@)]
        \/ \* the INSERT fails: channel or check are gone, the pool is closed, or the database errs
           /\ task' = [task EXCEPT ![e] = LostRow(@)]
           /\ UNCHANGED row
  /\ UNCHANGED <<config, copies, sends, process>>

\* The task waits for a mail server.
InMail(e) == task[e].pc = "send" /\ task[e].cur \in Mail

DeliveryStep(e) ==
  channels_for_check(e) \/ NextChannel(e) \/ send_with_retry(e) \/ record_notification(e)

-----------------------------------------------------------------------------
(* The process. *)

\* The listener accepts until the flag is up.
RequestIn(r) ==
  /\ main = "serve" /\ ~down /\ r \notin busy
  /\ busy' = busy \cup {r}
  /\ UNCHANGED <<config, delivery, down, scan, prune, main, pool>>

\* A live tail or a slow client may never get here.
RequestOut(r) ==
  /\ Running /\ r \in busy
  /\ busy' = busy \ {r}
  /\ UNCHANGED <<config, delivery, down, scan, prune, main, pool>>

trigger ==
  /\ Running /\ ~down
  /\ down' = TRUE
  /\ UNCHANGED <<config, delivery, busy, scan, prune, main, pool>>

\* Mutant: the loop waits for the flag to change, and misses a change during its pass.
MissesTheFlag(s) ==
  CASE s = "pass"  -> {"sleep", "panicked"}
    [] s = "sleep" -> {"pass"}
    [] OTHER       -> {}

\* A loop looks at the flag at its sleep only: it finds it up, or is woken by it; when
\* the sleep ends at the same moment, select! may take one more pass.  A pass may panic:
\* the task ends, and nobody looks at it before the shutdown.
LoopGoesTo(s) ==
  CASE s = "pass"  -> {IF down THEN "stopped" ELSE "sleep", "panicked"}
    [] s = "sleep" -> IF down THEN {"pass", "stopped"} ELSE {"pass"}
    [] OTHER       -> {}

run_scan_loop ==
  /\ Running
  /\ scan' \in LoopGoesTo(scan)
  /\ UNCHANGED <<config, delivery, down, busy, prune, main, pool>>

run_prune_loop ==
  /\ Running
  /\ prune' \in LoopGoesTo(prune)
  /\ UNCHANGED <<config, delivery, down, busy, scan, main, pool>>

\* The server has drained, or HTTP_DRAIN_TIMEOUT is over.
StopServing ==
  /\ main = "serve" /\ down
  /\ main' = "join"
  /\ UNCHANGED <<config, delivery, down, busy, scan, prune, pool>>

\* Mutant: joins one loop only.
ScanJoined == scan \in {"stopped", "panicked"}

\* tokio::join! of both loops: a panic is logged, and counts as joined.
LoopsJoined == {scan, prune} \subseteq {"stopped", "panicked"}

\* Pool::close: from here on no query gets a connection.
ClosePool ==
  /\ main = "join" /\ LoopsJoined
  /\ main' = "close" /\ pool' = "closed"
  /\ UNCHANGED <<config, delivery, down, busy, scan, prune>>

\* The pool has closed or POOL_CLOSE_TIMEOUT is over; what still runs is cut off.
Exit ==
  /\ main = "close"
  /\ main' = "exited"
  /\ busy' = {}
  /\ task' = [e \in Events |->
       IF task[e].pc \in {"none", "done"} THEN task[e]
       ELSE [Unspawned EXCEPT !.pc = "cut", !.listed = task[e].listed]]
  /\ UNCHANGED <<config, copies, row, sends, down, scan, prune, pool>>

Next ==
  \/ (\E c \in Channels : EditChannel(c)) \/ delete_check \/ delete_notifications_before
  \/ \E e \in Events : spawn_delivery(e) \/ DeliveryStep(e)
  \/ \E r \in Requests : RequestIn(r) \/ RequestOut(r)
  \/ trigger \/ run_scan_loop \/ run_prune_loop \/ StopServing \/ ClosePool \/ Exit

\* The step of a delivery that returns in time: queries do, and an HTTP send ends by its
\* 10 s timeout.  The e-mail driver sets no timeout and none is put around it.
TimelyStep(e) == DeliveryStep(e) /\ ~InMail(e)

\* Such steps happen, sleeps end and timers fire; nothing makes a user act, a request end
\* or a mail server answer.
Fairness ==
  /\ \A e \in Events : WF_vars(TimelyStep(e))
  /\ WF_vars(run_scan_loop) /\ WF_vars(run_prune_loop)
  /\ WF_vars(StopServing) /\ WF_vars(ClosePool) /\ WF_vars(Exit)

Spec == Init /\ [][Next]_vars /\ Fairness

-----------------------------------------------------------------------------
(* Properties. *)

\* A task that has not come to channel c has sent it nothing.
Untouched(e, c) == copies[e][c] = 0 /\ sends[e][c] = 0 /\ row[e][c] \in {"none", "gone"}

\* Where a task stands with each channel.
Progress(e) ==
  LET t == task[e]
  IN /\ t.todo \subseteq t.listed /\ t.conf \subseteq t.listed /\ t.lost \subseteq t.listed
     /\ t.pc \in {"none", "spawned"} => t.listed = {} /\ \A c \in Channels : Untouched(e, c)
     /\ t.pc \in {"next", "send", "record"} => \A c \in t.todo : Untouched(e, c)
     /\ t.pc \in {"send", "record"} => t.cur \in t.conf \ t.todo /\ row[e][t.cur] \in {"none", "gone"}
     /\ t.pc \in {"none", "spawned", "next"} => t.tries = 0
     /\ t.pc = "send" => /\ t.tries < MaxAttempts /\ sends[e][t.cur] = t.tries
                         /\ copies[e][t.cur] <= t.tries
     /\ t.pc = "record" => /\ copies[e][t.cur] <= MaxAttempts
                           /\ t.ok => copies[e][t.cur] > 0
                           /\ ~t.ok => sends[e][t.cur] = MaxAttempts
                           /\ sends[e][t.cur] \in 1 .. MaxAttempts

\* A channel a task has dealt with was tried, and its outcome recorded unless the
\* INSERT failed; a recorded failure used up the attempts.
DealtWith(e, c) ==
  /\ sends[e][c] \in 1 .. MaxAttempts
  /\ row[e][c] = "none" => c \in task[e].lost
  /\ row[e][c] = "error" => sends[e][c] = MaxAttempts

\* The channels a task still has to come to, or is busy with.
AtHand(e) ==
  CASE task[e].pc = "next"              -> task[e].todo
    [] task[e].pc \in {"send", "record"} -> task[e].todo \cup {task[e].cur}
    [] OTHER                            -> {}

\* No channel of a delivery is left out or given up early: every usable channel of the
\* list is tried, whatever became of the ones before it, an error is recorded only
\* after the last attempt, and every outcome gets its row unless the INSERT failed.
EveryChannelIsTried ==
  \A e \in Events :
    task[e].pc \in {"next", "send", "record", "done"} =>
      \A c \in task[e].conf \ AtHand(e) : DealtWith(e, c)

\* main closes the pool only when no loop will query it again ("or a loop query fails
\* with PoolClosed").
LoopsMeetAnOpenPool == scan = "pass" \/ prune = "pass" => pool = "open"

\* The shutdown sequence: main runs ahead of no one it has to wait for.
MainWaits ==
  /\ main # "serve" => down
  /\ scan = "stopped" \/ prune = "stopped" => down
  /\ main \in {"close", "exited"} <=> pool = "closed"
  /\ main \in {"close", "exited"} => LoopsJoined

\* A row is gone exactly when its channel or its check is.
RowsFollowChannels ==
  \A e \in Events, c \in Channels : row[e][c] = "gone" <=> ~Storable(c)

DeliveryInv ==
  /\ TypeOK
  /\ RowsFollowChannels
  /\ \A e \in Events : Progress(e)
  /\ EveryChannelIsTried
  /\ MainWaits

\* What the outside sees of delivery is what Outbox allows: at most MaxAttempts copies
\* per event and channel, at most one row, "ok" only after a copy arrived, and no copy
\* after the row.
Promise == INSTANCE Outbox WITH MaxCopies <- MaxAttempts
KeepsThePromise == Promise!Spec

\* A delivery ends by itself, however many channels fail and however often, unless the
\* process is told to stop or a mail server keeps one send waiting for ever.
DeliveriesEnd ==
  \A e \in Events :
    []<>~InMail(e) => (task[e].pc = "spawned" ~> task[e].pc = "done" \/ down)

\* The process ends after a signal, whatever requests and deliveries still hang and
\* whichever loop has panicked.
ShutdownEnds == down ~> main = "exited"
=============================================================================
