----------------------------- MODULE CheckAlerts -----------------------------
(***************************************************************************)
(* CheckMonitor with history variables, and the safety of its alerts.      *)
(*                                                                         *)
(* ping::apply, scan_once and nag_once read a row, then write it in one or *)
(* more statements, and last hand an event to delivery.  Nothing keeps     *)
(* another task out of that window, so the alerts can be right only as     *)
(* long as no task writes a row inside another one's window and no task is *)
(* cut off between its first write and its event.  `disturbed` records the *)
(* checks to which this has happened.  The properties say that there is no *)
(* other way to go wrong: they hold of every check that is not disturbed,  *)
(* under every interleaving, fault and crash.                              *)
(***************************************************************************)
EXTENDS CheckMonitor

VARIABLES
  told,      \* per check: the last of Down and Up handed to delivery since an
             \* operator last paused or resumed the check
  heard,     \* per check: the `at` of the last Down or Reminder handed to delivery,
             \* NULL when there is none since the last Up, pause or resume
  earned,    \* per check: the schedule in the row when the last success was marked
  disturbed  \* per check: a window was broken into, or cut off

said  == <<told, heard>>
hist  == <<said, earned, disturbed>>
hvars == <<vars, hist>>

HTypeOK ==
  /\ TypeOK
  /\ told \in [Checks -> {"none", "down", "up"}]
  /\ heard \in [Checks -> Stamp]
  /\ earned \in [Checks -> Schedules]
  /\ disturbed \in [Checks -> BOOLEAN]

-----------------------------------------------------------------------------
(***************************************************************************)
(* Windows: from the statement that read a row to the last consequence the *)
(* task draws from it.  A task that will not write has none.               *)
(***************************************************************************)
PingWindow(r, c) ==
  /\ req[r].pc # "idle"
  /\ req[r].check = c
  /\ req[r].kind # "log"
  /\ req[r].snap.status # "paused"

LoopWindow(c) ==
  \/ scanPc = "scan" /\ c \in todo \cup cur \cup events
  \/ scanPc = "nag"  /\ c \in todo \cup events

\* A write of c lands: by request r, by the scan loop, or by a user.
PingWrites(r, c) ==
  disturbed' = [disturbed EXCEPT ![c] =
    @ \/ LoopWindow(c) \/ \E q \in Requests \ {r} : PingWindow(q, c)]

LoopWrites(c) ==
  disturbed' = [disturbed EXCEPT ![c] = @ \/ \E q \in Requests : PingWindow(q, c)]

UserWrites(c) ==
  disturbed' = [disturbed EXCEPT ![c] =
    @ \/ LoopWindow(c) \/ \E q \in Requests : PingWindow(q, c)]

Tell(c, what, at) == told' = [told EXCEPT ![c] = what] /\ heard' = [heard EXCEPT ![c] = at]

\* The status of c has been written and its event not yet handed over.
PingAnnouncing(r, c) == req[r].pc = "nag" /\ req[r].check = c
LoopAnnouncing(c)    == scanPc = "scan" /\ c \in cur \cup events
Announcing(c)        == LoopAnnouncing(c) \/ \E r \in Requests : PingAnnouncing(r, c)

\* A reminder of c has been recorded and not yet handed over.
Reminding(c) == scanPc = "nag" /\ c \in events

\* spawn_deliveries takes the events of a pass.
HandOver == heard' = [c \in Checks |-> IF c \in events THEN scanNow ELSE heard[c]]

-----------------------------------------------------------------------------
HUser(c) ==
  \/ (\E s \in Schedules : CreateCheck(c, s)) /\ UNCHANGED hist
  \/ /\ DeleteCheck(c) \/ AckCheck(c) \/ \E s \in Schedules : UpdateCheck(c, s)
     /\ UserWrites(c)
     /\ UNCHANGED <<said, earned>>
  \/ /\ PauseCheck(c) \/ ResumeCheck(c)
     /\ UserWrites(c)
     /\ Tell(c, "none", NULL)
     /\ UNCHANGED earned

HMark(r) ==
  /\ PingMark(r)
  /\ PingWrites(r, req[r].check)
  /\ earned' = IF req[r].kind = "success"
               THEN [earned EXCEPT ![req[r].check] = checks[req[r].check].sched] ELSE earned
  /\ UNCHANGED said

HPing(r) ==
  \/ PingInsert(r) /\ UNCHANGED hist
  \/ HMark(r)
  \/ /\ PingNag(r)
     /\ PingWrites(r, req[r].check)
     /\ IF IsRecovery(req[r]) THEN Tell(req[r].check, "up", NULL)
                              ELSE Tell(req[r].check, "down", req[r].now)
     /\ UNCHANGED earned

HPingDrop(r) ==
  /\ PingDrop(r)
  /\ disturbed' = [disturbed EXCEPT ![req[r].check] = @ \/ req[r].pc = "nag"]
  /\ UNCHANGED <<said, earned>>

HScan ==
  \/ (ScanBegin \/ ScanList \/ Heartbeat \/ NagProjects \/ NagGlobal \/ NagList) /\ UNCHANGED hist
  \/ \E c \in Checks :
       /\ ScanDown(c) \/ ScanBaseline(c) \/ NagRecord(c)
       /\ LoopWrites(c)
       /\ UNCHANGED <<said, earned>>
  \/ /\ ScanFinish
     /\ told' = [c \in Checks |-> IF c \in events THEN "down" ELSE told[c]]
     /\ HandOver
     /\ UNCHANGED <<earned, disturbed>>
  \/ NagFinish /\ HandOver /\ UNCHANGED <<told, earned, disturbed>>

HScanFault ==
  \/ (ScanListFails \/ NagReadFails) /\ UNCHANGED hist
  \/ \E c \in Checks : (ScanDownFails(c) \/ NagRecordFails(c)) /\ UNCHANGED hist
  \/ \E c \in Checks :
       /\ ScanBaselineFails(c)
       /\ disturbed' = [disturbed EXCEPT ![c] = TRUE]
       /\ UNCHANGED <<said, earned>>

HCrash ==
  /\ Crash
  /\ disturbed' = [c \in Checks |-> disturbed[c] \/ Announcing(c) \/ Reminding(c)]
  /\ UNCHANGED <<said, earned>>

HInit ==
  /\ Init
  /\ told = [c \in Checks |-> "none"]
  /\ heard = [c \in Checks |-> NULL]
  /\ earned = [c \in Checks |-> AnySchedule]
  /\ disturbed = [c \in Checks |-> FALSE]

HNext ==
  \/ Tick /\ UNCHANGED hist
  \/ \E c \in Checks : HUser(c)
  \/ EditLevel /\ UNCHANGED hist
  \/ \E r \in Requests, c \in Checks, kind \in Kinds :
       PingResolve(r, c, kind) /\ UNCHANGED hist
  \/ \E r \in Requests : HPing(r) \/ HPingDrop(r)
  \/ HScan
  \/ HScanFault
  \/ HCrash

HSpec == HInit /\ [][HNext]_hvars

\* The runtime polls every task that is ready: a request that has begun and the
\* scan loop go on.  Users, clients, faults and the clock owe nothing.
HFairSpec == HSpec /\ WF_hvars(HScan) /\ \A r \in Requests : WF_hvars(HPing(r))

-----------------------------------------------------------------------------
(***************************************************************************)
(* Properties.                                                             *)
(***************************************************************************)
\* What the channels were told is what the row says: a down check was announced
\* (ping.rs and scan_once emit Down) and has the baseline that nag_once needs;
\* and a check that the channels believe to be down is down, or gone.
Agrees(c) ==
  ~Announcing(c) =>
    /\ checks[c].status = "down" => told[c] = "down" /\ checks[c].last_alert # NULL
    /\ told[c] = "down" => checks[c].status \in {"down", "deleted"}

AlertsAgree == \A c \in Checks : ~disturbed[c] => Agrees(c)

\* Every Down or Up about to be handed over is news: no second Down for one
\* incident, no Up without a Down before it.
AlertsAreNews ==
  \A c \in Checks : ~disturbed[c] =>
    /\ LoopAnnouncing(c) => told[c] # "down"
    /\ \A r \in Requests :
         PingAnnouncing(r, c) => ((told[c] = "down") <=> IsRecovery(req[r]))

\* scan_once's Down opens an incident nobody has acknowledged, with the time of
\* the pass as its baseline, and the check is still down when the event is
\* handed over.
IncidentStartsFresh ==
  \A c \in Checks : ~disturbed[c] /\ scanPc = "scan" /\ c \in events =>
    /\ checks[c].status = "down"
    /\ ~checks[c].acked
    /\ checks[c].last_alert = scanNow

\* nag_once reminds only of what the channels know to be down and nobody has
\* acknowledged, and not before the interval that the pass read has gone by since
\* the Down or Reminder that was last handed to delivery.
RemindersDeserved ==
  \A c \in Checks : ~disturbed[c] /\ Reminding(c) =>
    /\ told[c] = "down" /\ heard[c] # NULL
    /\ ~checks[c].acked
    /\ ReadInterval(c) > 0
    /\ scanNow >= heard[c] + ReadInterval(c)

\* The stored next_due_at of an up check, from which the UI shows Late, is the
\* deadline that its last success earned under the schedule the check had then.
Earned(c) ==
  checks[c].status = "up" =>
    checks[c].next_due = due_time([checks[c] EXCEPT !.sched = earned[c]])

NextDueIsEarned == \A c \in Checks : ~disturbed[c] => Earned(c)

\* A paused check leaves that status only by check_resume or check_delete.
PausedUntilResumed ==
  [][\A c \in Checks :
       checks[c].status = "paused" /\ checks'[c].status \notin {"paused", "new", "deleted"}
         => disturbed'[c]]_hvars

\* last_ping_at, the anchor of every deadline, never moves back.
LastPingAdvances ==
  [][\A c \in Checks :
       checks'[c].last_ping < checks[c].last_ping
         => disturbed'[c] \/ checks'[c].status = "deleted"]_hvars

\* README: a check that is marked down is notified to its channels.
DownIsAnnounced ==
  \A c \in Checks : checks[c].status = "down" ~> (told[c] = "down" \/ checks[c].status # "down")

\* What the code keeps of it: no task stays for ever between the write of Down
\* and its event.
UndisturbedDownIsAnnounced ==
  \A c \in Checks :
    checks[c].status = "down" /\ ~disturbed[c]
      ~> (told[c] = "down" \/ checks[c].status # "down" \/ disturbed[c])

\* The next reminder of c is due by what the channels last heard and by the two
\* levels p and g of the cascade above the check's own.
ReminderOwed(c, h, p, g) ==
  LET interval == effective_nag_interval(checks[c].sched.nag, p, g) IN
  /\ checks[c].status = "down" /\ ~checks[c].acked
  /\ told[c] = "down" /\ heard[c] = h
  /\ projectNag[c] = p /\ globalNag = g
  /\ interval > 0 /\ clock >= h + interval

\* A reminder that is due is handed to delivery, unless the check recovers, is
\* acknowledged, paused, edited or deleted first, a level of the cascade is
\* edited (which may leave one owed anew), or the reminder is lost with the process.
NagDueIsHandled ==
  \A c \in Checks : \A h \in 0..MaxTime : \A p, g \in Intervals :
    ReminderOwed(c, h, p, g) ~> (~ReminderOwed(c, h, p, g) \/ disturbed[c])

-----------------------------------------------------------------------------
(***************************************************************************)
(* The inductive invariant behind these properties.                        *)
(***************************************************************************)
\* Where the tasks stand, whatever has happened to the checks.
TasksInv ==
  /\ \A r \in Requests :
       /\ req[r].pc # "idle" => req[r].snap.status \in Stored
       /\ req[r].pc = "mark" => req[r].kind # "log" /\ req[r].snap.status # "paused"
       /\ req[r].pc = "nag" => IsRecovery(req[r]) \/ IsFailure(req[r])
       /\ req[r].now <= clock
  /\ scanPc \notin {"scan", "nag"} => todo = {} /\ events = {}
  /\ scanPc # "scan" => cur = {}
  /\ \A c, d \in cur : c = d
  /\ \A c \in Checks : checks[c].last_ping <= clock

\* An id that has no row yet has no ping either.
Unborn == \A c \in Checks : checks[c].status = "absent" => checks[c].last_ping = NULL

\* A request that has written nothing yet sees the row as it is.
SnapshotsFresh(c) ==
  \A r \in Requests : PingWindow(r, c) /\ req[r].pc # "nag" =>
    /\ checks[c].status = req[r].snap.status
    /\ checks[c].next_due = req[r].snap.next_due
    /\ checks[c].sched = req[r].snap.sched
    /\ req[r].pc = "mark" => checks[c].last_ping <= req[r].now

\* A request that has yet to announce finds the status it wrote, the channels
\* not yet aware of it, and the scan loop with nothing to announce.
PingsHaveNews(c) ==
  \A r \in Requests : PingAnnouncing(r, c) =>
    /\ ~LoopAnnouncing(c)
    /\ IF IsRecovery(req[r])
       THEN checks[c].status = "up" /\ told[c] = "down"
       ELSE checks[c].status = "down" /\ told[c] # "down"

ScanHasNews(c) ==
  scanPc = "scan" =>
    /\ c \in todo => checks[c].status \in {"new", "up"}
    /\ c \in cur \cup events => checks[c].status = "down" /\ told[c] # "down"
    /\ c \in events => ~checks[c].acked /\ checks[c].last_alert = scanNow

\* The baseline in the row is what the channels last heard, or the reminder that
\* is on its way to them.
HeardIsBaseline(c) ==
  checks[c].status = "down" /\ ~Announcing(c) /\ ~Reminding(c) => heard[c] = checks[c].last_alert

NagDeserved(c) ==
  scanPc = "nag" =>
    /\ c \in todo => NagDue(checks[c], ReadInterval(c), scanNow)
    /\ c \in events =>
         /\ checks[c].status = "down" /\ ~checks[c].acked /\ checks[c].last_alert = scanNow
         /\ told[c] = "down" /\ heard[c] # NULL
         /\ ReadInterval(c) > 0 /\ scanNow >= heard[c] + ReadInterval(c)

Coherent(c) ==
  /\ SnapshotsFresh(c)
  /\ PingsHaveNews(c)
  /\ ScanHasNews(c)
  /\ NagDeserved(c)
  /\ HeardIsBaseline(c)
  /\ Agrees(c)
  /\ Earned(c)

HInv ==
  /\ HTypeOK
  /\ TasksInv
  /\ Unborn
  /\ \A c \in Checks : ~disturbed[c] => Coherent(c)
=============================================================================
