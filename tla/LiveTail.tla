------------------------------ MODULE LiveTail ------------------------------
(***************************************************************************)
(* The live tail of a check page: the broadcast bus that ping::apply and   *)
(* the scan loop publish on (state.rs), the event stream sse_for_check,    *)
(* and the page (app.js): every "changed" starts its 500 ms timer again,   *)
(* and the newest pings are loaded once it has run out.  The bus keeps     *)
(* Capacity signals for a subscriber and drops the oldest ones; loads may  *)
(* overlap, fail, and be answered out of order; the stream may break and   *)
(* be opened again.                                                        *)
(***************************************************************************)
EXTENDS Naturals, Sequences

CONSTANTS
  Capacity,    \* EVENTS_CHANNEL_CAPACITY
  Loads,       \* slots for requests of the page in flight
  MaxChanges   \* bound: changes of the check

ASSUME BusAssumption == Capacity \in Nat \ {0} /\ MaxChanges \in Nat

VARIABLES
  changes,   \* how often the check has changed, in the database
  sub,       \* is the stream open?
  queue,     \* signals waiting for the subscriber: is it for this check?
  lagged,    \* signals were dropped
  timer,     \* the page's timer: off, running, or run out and its callback due
  load,      \* the loads in flight
  shown,     \* the changes the page shows
  owed,      \* history: changes signalled since the stream was opened, 0 if none
  asked,     \* history: changes that had happened when the last load began
  best,      \* history: the most the page has ever shown
  failed     \* history: a load has failed since the page last caught up

tvars == <<changes, sub, queue, lagged, timer, load, shown, owed, asked, best, failed>>
page  == <<timer, load, shown, asked, best, failed>>

Load == [pc : {"idle", "sent", "answered"}, got : Nat]
NoLoad == [pc |-> "idle", got |-> 0]

TailTypeOK ==
  /\ changes \in Nat /\ sub \in BOOLEAN /\ queue \in Seq(BOOLEAN) /\ Len(queue) <= Capacity
  /\ lagged \in BOOLEAN /\ timer \in {"off", "fresh", "ripe"}
  /\ load \in [Loads -> Load]
  /\ shown \in Nat /\ owed \in Nat /\ asked \in Nat /\ best \in Nat /\ failed \in BOOLEAN

TailInit ==
  /\ changes = 0 /\ sub = FALSE /\ queue = <<>> /\ lagged = FALSE /\ timer = "off"
  /\ load = [l \in Loads |-> NoLoad]
  /\ shown = 0 /\ owed = 0 /\ asked = 0 /\ best = 0 /\ failed = FALSE

-----------------------------------------------------------------------------
(* The server. *)

\* broadcast::Sender::send, when there is a receiver.
Send(mine) ==
  IF sub THEN /\ queue' = Append(IF Len(queue) = Capacity THEN Tail(queue) ELSE queue, mine)
              /\ lagged' = (lagged \/ Len(queue) = Capacity)
  ELSE UNCHANGED <<queue, lagged>>

\* A ping is inserted, or the scan loop moves the check, and the change is published; a
\* request that is cut off while it waits for its INSERT publishes nothing.
Change ==
  /\ changes < MaxChanges
  /\ changes' = changes + 1
  /\ \/ Send(TRUE) /\ owed' = IF sub THEN changes + 1 ELSE owed
     \/ UNCHANGED <<queue, lagged, owed>>
  /\ UNCHANGED <<sub, page>>

ChangeOfAnother ==
  /\ sub /\ Send(FALSE)
  /\ UNCHANGED <<changes, sub, owed, page>>

\* Mutant: a lagging subscriber goes on as if nothing had happened.
LagIsSilent == {}

\* sse_for_check turns Lagged into one "changed".
OnLag == {"changed"}

\* What the stream says of its next item: a lag is reported first.
Said == IF lagged THEN OnLag ELSE IF Head(queue) THEN {"changed"} ELSE {}

\* Mutant: a message that finds the timer running clears it and sets none.
ClearsOnly == IF timer = "off" THEN "fresh" ELSE "off"

\* A message clears the timer that runs, or whose callback is due, and sets a new one.
onmessage == "fresh"

\* The stream takes the next item and the page hears what it says.
sse_for_check ==
  /\ sub /\ (lagged \/ queue # <<>>)
  /\ timer' = IF Said = {} THEN timer ELSE onmessage
  /\ IF lagged THEN lagged' = FALSE /\ UNCHANGED queue ELSE queue' = Tail(queue) /\ UNCHANGED lagged
  /\ UNCHANGED <<changes, sub, load, shown, owed, asked, best, failed>>

-----------------------------------------------------------------------------
(* The page. *)

Cut == sub' = FALSE /\ queue' = <<>> /\ lagged' = FALSE /\ owed' = 0

\* The stream breaks; EventSource will open a new one, which starts empty.
StreamBreaks ==
  /\ sub /\ Cut
  /\ UNCHANGED <<changes, page>>

\* The button, leaving the page, or a stream that will not come back.
stopLive ==
  /\ sub \/ timer # "off"
  /\ Cut /\ timer' = "off"
  /\ UNCHANGED <<changes, load, shown, asked, best, failed>>

\* The button, or EventSource's own retry, opens a stream.
startLive ==
  /\ ~sub /\ sub' = TRUE
  /\ UNCHANGED <<changes, queue, lagged, owed, page>>

\* 500 ms without a message.
TimerRunsOut ==
  /\ timer = "fresh" /\ timer' = "ripe"
  /\ UNCHANGED <<changes, sub, queue, lagged, load, shown, owed, asked, best, failed>>

\* The timer's callback, unless a message comes first.
loadPings(l) ==
  /\ timer = "ripe" /\ load[l].pc = "idle"
  /\ timer' = "off"
  /\ load' = [load EXCEPT ![l].pc = "sent"]
  /\ asked' = changes
  /\ UNCHANGED <<changes, sub, queue, lagged, shown, owed, best, failed>>

\* The server reads the newest page.
Answer(l) ==
  /\ load[l].pc = "sent"
  /\ load' = [load EXCEPT ![l] = [pc |-> "answered", got |-> changes]]
  /\ UNCHANGED <<changes, sub, queue, lagged, timer, shown, owed, asked, best, failed>>

\* The section is replaced by whichever answer comes.
Replace(l) ==
  /\ load[l].pc = "answered"
  /\ shown' = load[l].got
  /\ best' = IF load[l].got > best THEN load[l].got ELSE best
  /\ failed' = (failed /\ load[l].got < asked)
  /\ load' = [load EXCEPT ![l] = NoLoad]
  /\ UNCHANGED <<changes, sub, queue, lagged, timer, owed, asked>>

\* The answer is an error, whose page replaces the section like any other: the status is
\* not looked at.
ErrorIsShown(l) ==
  /\ load[l].pc = "sent"
  /\ shown' = 0 /\ failed' = TRUE
  /\ load' = [load EXCEPT ![l] = NoLoad]
  /\ UNCHANGED <<changes, sub, queue, lagged, timer, owed, asked, best>>

\* No answer, or one that breaks off, leaves the section; the load is not repeated.
LoadFails(l) ==
  /\ load[l].pc # "idle"
  /\ load' = [load EXCEPT ![l] = NoLoad]
  /\ failed' = TRUE
  /\ UNCHANGED <<changes, sub, queue, lagged, timer, shown, owed, asked, best>>

TailNext ==
  \/ Change \/ ChangeOfAnother \/ sse_for_check
  \/ StreamBreaks \/ stopLive \/ startLive \/ TimerRunsOut
  \/ \E l \in Loads : loadPings(l) \/ Answer(l) \/ Replace(l) \/ ErrorIsShown(l) \/ LoadFails(l)

\* The stream is polled, time passes, and a callback that stays due is run; a message may
\* always come before it.  Requests end one way or the other, which frees their slots.
TailFairness ==
  /\ WF_tvars(sse_for_check)
  /\ WF_tvars(TimerRunsOut)
  /\ WF_tvars(\E l \in Loads : loadPings(l))
  /\ \A l \in Loads : WF_tvars(Answer(l) \/ Replace(l) \/ ErrorIsShown(l) \/ LoadFails(l))

TailSpec == TailInit /\ [][TailNext]_tvars /\ TailFairness

-----------------------------------------------------------------------------
(* Properties. *)

\* A load is going to begin.
Signalled == timer # "off" \/ lagged \/ \E i \in 1 .. Len(queue) : queue[i]

\* While the stream is open, no signal is lost, however far the page lags behind: a
\* change that was signalled has been asked for or will be; and when nothing is in
\* flight any more and no load has failed, the page has shown it.
TailShowsLatest ==
  sub /\ ~Signalled =>
    /\ asked >= owed
    /\ (\A l \in Loads : load[l].pc = "idle") /\ ~failed => best >= owed

\* A message finds the timer of an earlier one, and puts the load off.
PutOff == sse_for_check /\ timer # "off" /\ Said # {}

\* Every signalled change is asked for, unless the stream is closed or messages go on
\* forever coming within 500 ms of one another: nothing else starves the load, neither
\* lag nor the signals of other checks nor loads that fail or are slow.
TailCatchesUp ==
  <>[][~PutOff]_tvars => \A n \in 1 .. MaxChanges : owed = n ~> asked >= n \/ ~sub

\* A load in flight that will bring the page up to date.
Covers(q) == q.pc = "sent" \/ (q.pc = "answered" /\ q.got >= asked)

\* The types, and why TailShowsLatest goes on holding: what is owed is yet to be asked
\* for while a signal waits, and what was asked for is shown, on its way, or has failed.
TailInv ==
  /\ TailTypeOK
  /\ owed <= changes /\ asked <= changes
  /\ ~sub => queue = <<>> /\ ~lagged /\ owed = 0
  /\ sub /\ ~Signalled => asked >= owed
  /\ ~failed => best >= asked \/ \E l \in Loads : Covers(load[l])
=============================================================================
