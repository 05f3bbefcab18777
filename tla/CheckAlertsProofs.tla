--------------------------- MODULE CheckAlertsProofs ---------------------------
(***************************************************************************)
(* The alerts of an undisturbed check are right: HInv is an inductive      *)
(* invariant of HSpec, and the properties of CheckAlerts follow from it.   *)
(***************************************************************************)
EXTENDS CheckAlerts, CheckMonitorProofs

USE DEF said, levels, nagReads

-----------------------------------------------------------------------------
(* The history variables watch CheckMonitor and do not steer it. *)

LEMMA HStepIsStep == [HNext]_hvars => [Next]_vars
<1> SUFFICES ASSUME [HNext]_hvars PROVE [Next]_vars
  OBVIOUS
<1>1. ASSUME NEW c \in Checks, HUser(c) PROVE UserOp(c)
  BY <1>1 DEF HUser, UserOp
<1>2. ASSUME NEW r \in Requests, HPing(r) \/ HPingDrop(r) PROVE PingStep(r) \/ PingDrop(r)
  BY <1>2 DEF HPing, HMark, HPingDrop, PingStep
<1>3. HScan => ScanStep
  BY DEF HScan, ScanStep
<1>4. HScanFault => ScanFault
  BY DEF HScanFault, ScanFault
<1>5. CASE UNCHANGED hvars
  BY <1>5 DEF hvars
<1> QED
  BY <1>1, <1>2, <1>3, <1>4, <1>5 DEF HNext, Next, HCrash

\* Every behaviour of HSpec is one of CheckMonitor: what is shown of HSpec's
\* rows and tasks is shown of the code's model itself.
THEOREM HistoryOnly == HSpec => Spec
BY HStepIsStep, PTL DEF HSpec, Spec, HInit

LEMMA HTypeInit == HInit => HTypeOK
BY TypeInit, AnySchedule_in DEF HInit, HTypeOK, Stamp

LEMMA HTypeNext == HTypeOK /\ [HNext]_hvars => HTypeOK'
<1> SUFFICES ASSUME HTypeOK, [HNext]_hvars PROVE HTypeOK'
  OBVIOUS
<1>1. TypeOK'
  BY HStepIsStep, TypeNext DEF HTypeOK
<1> DEFINE Told == told' \in [Checks -> {"none", "down", "up"}]
           Hrd  == heard' \in [Checks -> Stamp]
           Erd  == earned' \in [Checks -> Schedules]
           Dist == disturbed' \in [Checks -> BOOLEAN]
<1>2. (UNCHANGED told => Told) /\ (UNCHANGED heard => Hrd) /\ (UNCHANGED earned => Erd)
  BY DEF HTypeOK
<1>3. UNCHANGED disturbed => Dist
  BY DEF HTypeOK
<1>4. \A c \in Checks : UserWrites(c) \/ LoopWrites(c) => Dist
  BY Zenon DEF HTypeOK, UserWrites, LoopWrites
<1>5. \A r \in Requests, c \in Checks : PingWrites(r, c) => Dist
  BY Zenon DEF HTypeOK, PingWrites
<1>6. \A c \in Checks, w \in {"none", "down", "up"}, at \in Stamp : Tell(c, w, at) => Told /\ Hrd
  BY DEF HTypeOK, Tell
<1>7. HandOver => Hrd
  BY DEF HTypeOK, TypeOK, HandOver, Stamp
<1>8. ASSUME NEW c \in Checks, HUser(c) PROVE Told /\ Hrd /\ Erd /\ Dist
  <2>1. NULL \in Stamp
    BY DEF Stamp
  <2> QED BY <1>2, <1>3, <1>4, <1>6, <1>8, <2>1 DEF HUser, hist
<1>9. ASSUME NEW r \in Requests, HPing(r) PROVE Told /\ Hrd /\ Erd /\ Dist
  <2>1. /\ req[r].check \in Checks /\ checks[req[r].check].sched \in Schedules
        /\ req[r].now \in Stamp /\ NULL \in Stamp
    BY DEF HTypeOK, TypeOK, Request, Row, Stamp
  <2>2. HMark(r) => Erd
    BY <2>1 DEF HMark, HTypeOK
  <2>3. CASE HMark(r)
    BY <1>2, <1>5, <2>1, <2>2, <2>3 DEF HMark
  <2> QED BY <1>2, <1>3, <1>5, <1>6, <1>9, <2>1, <2>3 DEF HPing, hist
<1>10. ASSUME NEW r \in Requests, HPingDrop(r) PROVE Told /\ Hrd /\ Erd /\ Dist
  <2>1. Dist
    BY <1>10, Zenon DEF HPingDrop, HTypeOK
  <2> QED BY <1>2, <1>10, <2>1 DEF HPingDrop
<1>11. ASSUME HScan PROVE Told /\ Hrd /\ Erd /\ Dist
  <2>1. told' = [c \in Checks |-> IF c \in events THEN "down" ELSE told[c]] => Told
    BY DEF HTypeOK
  <2> QED BY <1>2, <1>3, <1>4, <1>7, <1>11, <2>1 DEF HScan, hist
<1>12. ASSUME HScanFault PROVE Told /\ Hrd /\ Erd /\ Dist
  <2>1. \A c \in Checks : disturbed' = [disturbed EXCEPT ![c] = TRUE] => Dist
    BY DEF HTypeOK
  <2> QED BY <1>2, <1>3, <1>12, <2>1 DEF HScanFault, hist
<1>13. ASSUME HCrash PROVE Told /\ Hrd /\ Erd /\ Dist
  <2>1. Dist
    BY <1>13, Zenon DEF HCrash, HTypeOK
  <2> QED BY <1>2, <1>13, <2>1 DEF HCrash
<1>14. CASE \/ Tick /\ UNCHANGED hist
            \/ EditLevel /\ UNCHANGED hist
            \/ \E r \in Requests, c \in Checks, kind \in Kinds :
                 PingResolve(r, c, kind) /\ UNCHANGED hist
            \/ UNCHANGED hvars
  BY <1>1, <1>2, <1>3, <1>14 DEF HTypeOK, hist, hvars
<1>15. (Told /\ Hrd /\ Erd /\ Dist) => HTypeOK'
  BY <1>1 DEF HTypeOK
<1> QED
  BY <1>8, <1>9, <1>10, <1>11, <1>12, <1>13, <1>14, <1>15 DEF HNext

-----------------------------------------------------------------------------
(* TasksInv: where the tasks stand.  No check's history matters to it. *)

LEMMA TasksInit == HInit => TasksInv
BY DEF HInit, Init, TasksInv, EmptyRow, IdleRequest, NULL

\* An UPDATE moves last_ping, if at all, to a time that has passed.
LEMMA LastPingPast ==
  ASSUME TypeOK, NEW d \in Checks, NEW row \in Row, Update(d, row),
         row.last_ping <= clock, \A c \in Checks : checks[c].last_ping <= clock
  PROVE  \A c \in Checks : checks'[c].last_ping <= clock
BY DEF Update, TypeOK

LEMMA TasksPing ==
  ASSUME TypeOK, TasksInv, NEW r \in Requests, PingStep(r) \/ PingDrop(r)
  PROVE  TasksInv'
<1>1. /\ req[r] \in Request /\ req[r].check \in Checks
      /\ checks[req[r].check] \in Row /\ clock \in Nat /\ req[r].now \in Nat
  BY DEF TypeOK, Request
<1>2. CASE PingInsert(r)
  BY <1>1, <1>2 DEF PingInsert, TasksInv, TypeOK, scanVars, IdleRequest, IsRecovery, IsFailure, Request
<1>3. CASE PingMark(r)
  <2>1. PingMarked(checks[req[r].check], req[r]).last_ping <= clock
    BY <1>1 DEF PingMarked, mark_ping, coalesce, TasksInv, Row, Stamp, NULL
  <2>2. \A c \in Checks : checks'[c].last_ping <= clock
    BY <1>1, <1>3, <2>1, PingMarkedType, LastPingPast DEF PingMark, TasksInv
  <2> QED BY <1>1, <1>3, <2>2 DEF PingMark, TasksInv, TypeOK, scanVars, IdleRequest, IsRecovery, IsFailure, Request
<1>4. PingNagged(checks[req[r].check], req[r]).last_ping <= clock
  BY <1>1 DEF PingNagged, clear_nag, begin_down_alert, TasksInv, Row
<1>5. CASE PingNag(r) \/ PingDrop(r)
  <2>1. \A c \in Checks : checks'[c].last_ping <= clock
    BY <1>1, <1>4, <1>5, PingNaggedType, LastPingPast DEF PingNag, PingDrop, TasksInv
  <2>2. req' = [req EXCEPT ![r] = IdleRequest] /\ UNCHANGED <<scanVars, clock>>
    BY <1>5 DEF PingNag, PingDrop
  <2> QED BY <1>1, <2>1, <2>2 DEF TasksInv, TypeOK, scanVars, IdleRequest, IsRecovery, IsFailure
<1> QED
  BY <1>2, <1>3, <1>5 DEF PingStep

LEMMA TasksUser ==
  ASSUME TypeOK, TasksInv, NEW d \in Checks, UserOp(d) PROVE TasksInv'
<1>1. UNCHANGED <<req, scanVars, clock>>
  BY DEF UserOp, CreateCheck, DeleteCheck, PauseCheck, ResumeCheck, AckCheck, UpdateCheck
<1>2. \A c \in Checks : checks'[c].last_ping <= clock
  <2>1. clock \in Nat /\ \A c \in Checks : checks[c].last_ping <= clock
    BY DEF TypeOK, TasksInv
  <2>2. PICK row : /\ checks' = [checks EXCEPT ![d] = row] \/ UNCHANGED checks
                   /\ row.last_ping \in {checks[d].last_ping, NULL}
    <3>1. /\ \A st : set_status(checks[d], st).last_ping = checks[d].last_ping
          /\ acknowledge(checks[d]).last_ping = checks[d].last_ping
          /\ \A s : update_check_schedule(checks[d], s).last_ping = checks[d].last_ping
          /\ EmptyRow("deleted").last_ping = NULL
          /\ \A s : [EmptyRow("new") EXCEPT !.created_at = clock, !.sched = s].last_ping = NULL
      BY DEF set_status, acknowledge, update_check_schedule, EmptyRow, TypeOK, Row
    <3> QED
      BY <3>1, Zenon DEF UserOp, CreateCheck, DeleteCheck, PauseCheck, ResumeCheck, AckCheck,
                  UpdateCheck, Update
  <2> QED BY <2>1, <2>2 DEF TypeOK, NULL
<1> QED
  BY <1>1, <1>2 DEF TasksInv, scanVars, IsRecovery, IsFailure

LEMMA TasksScan ==
  ASSUME TypeOK, TasksInv, ScanStep \/ ScanFault PROVE TasksInv'
<1>1. UNCHANGED <<req, clock>>
  BY DEF ScanStep, ScanFault, ScanBegin, ScanList, ScanFinish, Heartbeat, NagProjects, NagGlobal, NagList, NagFinish,
         ScanDown, ScanBaseline, NagRecord, ScanListFails, NagReadFails, ScanDownFails,
         ScanBaselineFails, NagRecordFails
<1>2. \A c \in Checks : checks'[c].last_ping <= clock
  <2>1. ASSUME NEW d \in Checks, ScanDown(d) \/ ScanBaseline(d) \/ NagRecord(d)
        PROVE  \A c \in Checks : checks'[c].last_ping = checks[c].last_ping
    <3>1. /\ set_status(checks[d], "down").last_ping = checks[d].last_ping
          /\ begin_down_alert(checks[d], scanNow).last_ping = checks[d].last_ping
          /\ record_reminder(checks[d], scanNow).last_ping = checks[d].last_ping
      BY DEF set_status, begin_down_alert, record_reminder, TypeOK, Row
    <3>2. PICK row : /\ checks' = [checks EXCEPT ![d] = row] \/ UNCHANGED checks
                     /\ row.last_ping = checks[d].last_ping
      BY <2>1, <3>1, Zenon DEF ScanDown, ScanBaseline, NagRecord, Update
    <3> QED BY <3>2 DEF TypeOK
  <2>2. \/ UNCHANGED checks
        \/ \E d \in Checks : ScanDown(d) \/ ScanBaseline(d) \/ NagRecord(d)
    BY DEF ScanStep, ScanFault, ScanBegin, ScanList, ScanFinish, Heartbeat, NagProjects, NagGlobal, NagList, NagFinish,
           ScanListFails, NagReadFails, ScanDownFails, ScanBaselineFails, NagRecordFails
  <2> QED BY <2>1, <2>2 DEF TasksInv
<1>3. /\ scanPc' \notin {"scan", "nag"} => todo' = {} /\ events' = {}
      /\ scanPc' # "scan" => cur' = {}
      /\ \A c, d \in cur' : c = d
  BY DEF ScanStep, ScanFault, ScanBegin, ScanList, ScanFinish, Heartbeat, NagProjects, NagGlobal, NagList, NagFinish,
         ScanDown, ScanBaseline, NagRecord, ScanListFails, NagReadFails, ScanDownFails,
         ScanBaselineFails, NagRecordFails, TasksInv
<1> QED
  BY <1>1, <1>2, <1>3 DEF TasksInv, IsRecovery, IsFailure

LEMMA TasksNext == TypeOK /\ TasksInv /\ [Next]_vars => TasksInv'
<1> SUFFICES ASSUME TypeOK, TasksInv, [Next]_vars PROVE TasksInv'
  OBVIOUS
<1>1. CASE Tick
  <2>1. /\ clock \in Nat /\ \A r \in Requests : req[r].now \in Nat
        /\ \A c \in Checks : checks[c].last_ping \in Int
    BY DEF TypeOK, Request, Row, Stamp, NULL
  <2> QED BY <1>1, <2>1 DEF Tick, TasksInv, scanVars, IsRecovery, IsFailure
<1>2. ASSUME NEW r \in Requests, NEW c \in Checks, NEW kind \in Kinds, PingResolve(r, c, kind)
      PROVE  TasksInv'
  BY <1>2 DEF PingResolve, TasksInv, TypeOK, scanVars, Exists, IsRecovery, IsFailure
<1>3. CASE Crash
  BY <1>3 DEF Crash, TasksInv, IdleRequest, IsRecovery, IsFailure, TypeOK
<1>4. CASE UNCHANGED vars
  BY <1>4 DEF vars, scanVars, TasksInv, IsRecovery, IsFailure
<1>5. CASE EditLevel
  BY <1>5 DEF EditLevel, scanVars, TasksInv, IsRecovery, IsFailure
<1> QED
  BY <1>1, <1>2, <1>3, <1>4, <1>5, TasksUser, TasksPing, TasksScan DEF Next

-----------------------------------------------------------------------------
(* What a step leaves alone. *)

\* A request that announces is inside its window.
LEMMA AnnouncingInWindow ==
  ASSUME TasksInv, NEW c \in Checks, NEW r \in Requests, PingAnnouncing(r, c)
  PROVE  PingWindow(r, c)
BY DEF TasksInv, PingAnnouncing, PingWindow, IsRecovery, IsFailure

\* A deadline depends on the schedule and the anchor only.
LEMMA DueByAnchor ==
  ASSUME NEW a \in Row, NEW b \in Row, a.sched = b.sched, anchor(a) = anchor(b)
  PROVE  due_time(a) = due_time(b)
BY DEF due_time

LEMMA EarnedKept ==
  ASSUME HTypeOK, HTypeOK', NEW c \in Checks, Earned(c), earned'[c] = earned[c],
         checks'[c].status = "up" => checks[c].status = "up",
         checks'[c].next_due = checks[c].next_due,
         checks'[c].last_ping = checks[c].last_ping,
         checks'[c].created_at = checks[c].created_at
  PROVE  Earned(c)'
<1> DEFINE s == earned[c]
<1> SUFFICES ASSUME checks'[c].status = "up"
             PROVE  checks'[c].next_due = due_time([checks'[c] EXCEPT !.sched = s])
  BY DEF Earned
<1>1. checks[c].next_due = due_time([checks[c] EXCEPT !.sched = s])
  BY DEF Earned
<1>2. checks[c] \in Row /\ checks'[c] \in Row /\ s \in Schedules
  BY DEF HTypeOK, TypeOK
<1> HIDE DEF s
<1>3. /\ [checks[c] EXCEPT !.sched = s] \in Row /\ [checks'[c] EXCEPT !.sched = s] \in Row
      /\ [checks[c] EXCEPT !.sched = s].sched = [checks'[c] EXCEPT !.sched = s].sched
      /\ anchor([checks[c] EXCEPT !.sched = s]) = anchor([checks'[c] EXCEPT !.sched = s])
  BY <1>2 DEF Row, anchor
<1>4. due_time([checks[c] EXCEPT !.sched = s]) = due_time([checks'[c] EXCEPT !.sched = s])
  BY <1>3, DueByAnchor
<1> QED BY <1>1, <1>4

\* What the history variables say of c stays.
SaidKept(c) == told'[c] = told[c] /\ heard'[c] = heard[c] /\ earned'[c] = earned[c]

\* A step that leaves the row of c, and what is being said about it, alone.
LEMMA RowFrame ==
  ASSUME HTypeOK, HTypeOK', NEW c \in Checks, Coherent(c),
         checks'[c] = checks[c], SaidKept(c),
         LoopAnnouncing(c)' <=> LoopAnnouncing(c), Reminding(c)' <=> Reminding(c),
         \A r \in Requests :
           req'[r] = req[r] \/ (~PingWindow(r, c)' /\ ~PingAnnouncing(r, c) /\ ~PingAnnouncing(r, c)')
  PROVE  SnapshotsFresh(c)' /\ PingsHaveNews(c)' /\ HeardIsBaseline(c)' /\ Agrees(c)' /\ Earned(c)'
<1> USE DEF SaidKept
<1>1. SnapshotsFresh(c)'
  BY DEF Coherent, SnapshotsFresh, PingWindow
<1>2. PingsHaveNews(c)'
  BY DEF Coherent, PingsHaveNews, PingAnnouncing, IsRecovery
<1>3. Announcing(c)' <=> Announcing(c)
  BY DEF Announcing, PingAnnouncing
<1>4. Agrees(c)'
  BY <1>3 DEF Coherent, Agrees
<1>5. HeardIsBaseline(c)'
  BY <1>3 DEF Coherent, HeardIsBaseline
<1>6. Earned(c)'
  BY EarnedKept DEF Coherent
<1> QED BY <1>1, <1>2, <1>4, <1>5, <1>6

\* The scan loop does not move towards c, or stops being about it.
LEMMA LoopFrame ==
  ASSUME NEW c \in Checks, Coherent(c), checks'[c] = checks[c],
         \/ /\ scanPc' = scanPc /\ scanNow' = scanNow /\ SaidKept(c) /\ UNCHANGED nagReads
            /\ c \in todo' => c \in todo
            /\ c \in cur' => c \in cur
            /\ c \in events' => c \in events
         \/ scanPc' \notin {"scan", "nag"}
  PROVE  ScanHasNews(c)' /\ NagDeserved(c)'
<1>1. CASE scanPc' \notin {"scan", "nag"}
  BY <1>1 DEF ScanHasNews, NagDeserved
<1>2. CASE /\ scanPc' = scanPc /\ scanNow' = scanNow /\ SaidKept(c) /\ UNCHANGED nagReads
           /\ c \in todo' => c \in todo
           /\ c \in cur' => c \in cur
           /\ c \in events' => c \in events
  <2>1. ReadInterval(c)' = ReadInterval(c)
    BY <1>2 DEF ReadInterval
  <2> QED BY <1>2, <2>1 DEF Coherent, ScanHasNews, NagDeserved, NagDue, SaidKept
<1> QED BY <1>1, <1>2

\* No task is inside a window on c.
LEMMA Shut ==
  ASSUME TasksInv, NEW c \in Checks, ~LoopWindow(c), \A r \in Requests : ~PingWindow(r, c)
  PROVE  /\ ~Announcing(c) /\ ~LoopAnnouncing(c) /\ ~Reminding(c)
         /\ \A r \in Requests : ~PingAnnouncing(r, c)
BY AnnouncingInWindow DEF Announcing, LoopAnnouncing, Reminding, LoopWindow

LEMMA ShutFrame ==
  ASSUME TasksInv, TasksInv', NEW c \in Checks,
         ~LoopWindow(c), \A r \in Requests : ~PingWindow(r, c), UNCHANGED <<req, scanVars>>
  PROVE  SnapshotsFresh(c)' /\ PingsHaveNews(c)' /\ ScanHasNews(c)' /\ NagDeserved(c)'
<1>1. SnapshotsFresh(c)'
  BY DEF SnapshotsFresh, PingWindow
<1>2. PingsHaveNews(c)'
  BY AnnouncingInWindow DEF PingsHaveNews, PingAnnouncing
<1>3. ScanHasNews(c)' /\ NagDeserved(c)'
  BY DEF ScanHasNews, NagDeserved, LoopWindow, scanVars
<1> QED BY <1>1, <1>2, <1>3

\* What it takes for a write to leave c undisturbed.
LEMMA Undisturbed ==
  ASSUME HTypeOK, NEW c \in Checks, NEW d \in Checks, ~disturbed'[c]
  PROVE  /\ UserWrites(d) => /\ ~disturbed[c]
                             /\ c = d => ~LoopWindow(c) /\ \A q \in Requests : ~PingWindow(q, c)
         /\ LoopWrites(d) => /\ ~disturbed[c]
                             /\ c = d => \A q \in Requests : ~PingWindow(q, c)
         /\ \A r \in Requests : PingWrites(r, d) =>
              /\ ~disturbed[c]
              /\ c = d => ~LoopWindow(c) /\ \A q \in Requests \ {r} : ~PingWindow(q, c)
<1>1. disturbed \in [Checks -> BOOLEAN]
  BY DEF HTypeOK
<1> QED BY <1>1, Zenon DEF UserWrites, LoopWrites, PingWrites

-----------------------------------------------------------------------------
(* Each operation keeps an undisturbed check coherent. *)

\* A check that is not there yet has no window open on it.
LEMMA AbsentIsShut ==
  ASSUME TasksInv, NEW c \in Checks, Coherent(c), checks[c].status = "absent"
  PROVE  ~LoopWindow(c) /\ \A r \in Requests : ~PingWindow(r, c)
<1>1. ~LoopWindow(c)
  BY DEF Coherent, ScanHasNews, NagDeserved, NagDue, LoopWindow
<1>2. ASSUME NEW r \in Requests, PingWindow(r, c) PROVE FALSE
  <2>1. CASE req[r].pc = "nag"
    BY <1>2, <2>1 DEF Coherent, PingsHaveNews, PingAnnouncing, PingWindow
  <2>2. CASE req[r].pc # "nag"
    BY <1>2, <2>2 DEF Coherent, SnapshotsFresh, PingWindow, TasksInv, Stored
  <2> QED BY <2>1, <2>2
<1> QED BY <1>1, <1>2

LEMMA UserCoherent ==
  ASSUME HInv, HTypeOK', TasksInv', NEW c \in Checks, ~disturbed'[c], NEW d \in Checks, HUser(d)
  PROVE  Coherent(c)'
<1>1. UNCHANGED <<req, scanVars>>
  BY DEF HUser, CreateCheck, DeleteCheck, PauseCheck, ResumeCheck, AckCheck, UpdateCheck
<1>2. ~disturbed[c] /\ Coherent(c)
  BY Undisturbed DEF HUser, HInv, hist
<1>3. TypeOK /\ TypeOK' /\ TasksInv /\ checks[c] \in Row
  BY DEF HInv, HTypeOK, TypeOK
<1>4. CASE c # d
  <2>1. checks'[c] = checks[c]
    BY <1>3, <1>4 DEF HUser, CreateCheck, DeleteCheck, PauseCheck, ResumeCheck, AckCheck,
                      UpdateCheck, Update, TypeOK
  <2>2. SaidKept(c)
    BY <1>4 DEF HUser, Tell, hist, HInv, HTypeOK, SaidKept
  <2>3. SnapshotsFresh(c)' /\ PingsHaveNews(c)' /\ HeardIsBaseline(c)' /\ Agrees(c)' /\ Earned(c)'
    BY <1>1, <1>2, <1>3, <2>1, <2>2, RowFrame DEF LoopAnnouncing, Reminding, scanVars, HInv
  <2>4. ScanHasNews(c)' /\ NagDeserved(c)'
    BY <1>1, <1>2, <2>1, <2>2, LoopFrame DEF scanVars
  <2> QED BY <2>3, <2>4 DEF Coherent
<1>5. CASE c = d
  <2>1. ~LoopWindow(c) /\ \A r \in Requests : ~PingWindow(r, c)
    BY <1>2, <1>3, <1>5, Undisturbed, AbsentIsShut DEF HUser, CreateCheck, HInv
  <2>2. SnapshotsFresh(c)' /\ PingsHaveNews(c)' /\ ScanHasNews(c)' /\ NagDeserved(c)'
    BY <1>1, <1>3, <2>1, ShutFrame
  <2>3. /\ checks[c].status = "down" => told[c] = "down" /\ checks[c].last_alert # NULL
        /\ told[c] = "down" => checks[c].status \in {"down", "deleted"}
        /\ checks[c].status = "down" => heard[c] = checks[c].last_alert
    BY <1>2, <1>3, <2>1, Shut DEF Coherent, Agrees, HeardIsBaseline
  <2>4. Agrees(c)' /\ HeardIsBaseline(c)' /\ Earned(c)'
    <3>1. CASE (\E s \in Schedules : CreateCheck(c, s)) /\ UNCHANGED hist
      <4>1. checks'[c].status = "new" /\ told'[c] # "down"
        BY <1>3, <2>3, <3>1 DEF CreateCheck, EmptyRow, hist, TypeOK
      <4> QED BY <4>1 DEF Agrees, HeardIsBaseline, Earned
    <3>2. CASE DeleteCheck(c)
      <4>1. checks'[c].status = "deleted"
        BY <1>3, <3>2 DEF DeleteCheck, EmptyRow, TypeOK
      <4> QED BY <4>1 DEF Agrees, HeardIsBaseline, Earned
    <3>3. CASE (AckCheck(c) \/ \E s \in Schedules : UpdateCheck(c, s)) /\ UNCHANGED <<said, earned>>
      <4>1. /\ checks'[c].status = checks[c].status
            /\ checks'[c].next_due = checks[c].next_due
            /\ checks'[c].last_ping = checks[c].last_ping
            /\ checks'[c].created_at = checks[c].created_at
            /\ checks'[c].last_alert = checks[c].last_alert
        BY <1>3, <3>3 DEF AckCheck, UpdateCheck, Update, acknowledge, update_check_schedule, TypeOK, Row
      <4>2. Earned(c)'
        BY <1>2, <1>3, <3>3, <4>1, EarnedKept DEF Coherent, HInv
      <4> QED BY <2>3, <3>3, <4>1, <4>2 DEF Agrees, HeardIsBaseline
    <3>4. CASE (PauseCheck(c) \/ ResumeCheck(c)) /\ Tell(c, "none", NULL)
      <4>1. checks'[c].status \in {"paused", "new"} /\ told'[c] = "none"
        BY <1>3, <3>4 DEF PauseCheck, ResumeCheck, Update, set_status, Tell, TypeOK, Row, HInv, HTypeOK
      <4> QED BY <4>1 DEF Agrees, HeardIsBaseline, Earned
    <3> QED BY <1>5, <3>1, <3>2, <3>3, <3>4 DEF HUser
  <2> QED BY <2>2, <2>4 DEF Coherent
<1> QED BY <1>4, <1>5

LEMMA ResolveCoherent ==
  ASSUME HInv, HTypeOK', NEW c \in Checks, Coherent(c),
         NEW r \in Requests, NEW d \in Checks, NEW kind \in Kinds, PingResolve(r, d, kind), UNCHANGED hist
  PROVE  Coherent(c)'
<1>1. TypeOK /\ TypeOK' /\ TasksInv /\ UNCHANGED <<checks, scanVars, told, heard, earned>>
  BY DEF HInv, HTypeOK, PingResolve, hist
<1>2. \A q \in Requests \ {r} : req'[q] = req[q]
  BY <1>1 DEF PingResolve, TypeOK
<1>3. /\ req[r].pc = "idle" /\ req'[r].pc = "insert" /\ req'[r].check = d
      /\ req'[r].snap.status = checks[d].status /\ req'[r].snap.next_due = checks[d].next_due
      /\ req'[r].snap.sched = checks[d].sched
  BY <1>1 DEF PingResolve, TypeOK
<1>4. SnapshotsFresh(c)'
  BY <1>1, <1>2, <1>3 DEF Coherent, SnapshotsFresh, PingWindow
<1>5. PingsHaveNews(c)' /\ HeardIsBaseline(c)' /\ Agrees(c)'
  BY <1>1, <1>2, <1>3 DEF Coherent, PingsHaveNews, HeardIsBaseline, Agrees, Announcing, LoopAnnouncing,
                          Reminding, PingAnnouncing, IsRecovery, scanVars
<1>6. ScanHasNews(c)' /\ NagDeserved(c)'
  BY <1>1, LoopFrame DEF scanVars, SaidKept
<1>7. Earned(c)'
  BY <1>1, EarnedKept DEF Coherent, HInv
<1> QED BY <1>4, <1>5, <1>6, <1>7 DEF Coherent

LEMMA InsertCoherent ==
  ASSUME HInv, HTypeOK', NEW c \in Checks, Coherent(c),
         NEW r \in Requests, PingInsert(r), UNCHANGED hist
  PROVE  Coherent(c)'
<1>1. TypeOK /\ TypeOK' /\ TasksInv /\ UNCHANGED <<checks, scanVars, told, heard, earned>>
  BY DEF HInv, HTypeOK, PingInsert, hist
<1>2. \A q \in Requests \ {r} : req'[q] = req[q]
  BY <1>1 DEF PingInsert, TypeOK
<1>3. /\ req[r].pc = "insert"
      /\ \/ req'[r].pc = "idle"
         \/ /\ req'[r].pc = "mark" /\ req'[r].check = req[r].check /\ req'[r].kind = req[r].kind
            /\ req'[r].snap = req[r].snap /\ req'[r].now = clock
  BY <1>1 DEF PingInsert, TypeOK, Request, IdleRequest
<1>4. SnapshotsFresh(c)'
  BY <1>1, <1>2, <1>3 DEF Coherent, SnapshotsFresh, PingWindow, TasksInv
<1>5. PingsHaveNews(c)' /\ HeardIsBaseline(c)' /\ Agrees(c)'
  BY <1>1, <1>2, <1>3 DEF Coherent, PingsHaveNews, HeardIsBaseline, Agrees, Announcing, LoopAnnouncing,
                          Reminding, PingAnnouncing, IsRecovery, scanVars
<1>6. ScanHasNews(c)' /\ NagDeserved(c)'
  BY <1>1, LoopFrame DEF scanVars, SaidKept
<1>7. Earned(c)'
  BY <1>1, EarnedKept DEF Coherent, HInv
<1> QED BY <1>4, <1>5, <1>6, <1>7 DEF Coherent

\* A statement of request r on the row of another check.
LEMMA PingElsewhere ==
  ASSUME HTypeOK, HTypeOK', NEW c \in Checks, Coherent(c), NEW r \in Requests, req[r].check # c,
         checks'[c] = checks[c], SaidKept(c), UNCHANGED scanVars,
         NEW q \in Request, req' = [req EXCEPT ![r] = q], q.check = req[r].check \/ q.pc = "idle"
  PROVE  Coherent(c)'
<1>1. \A p \in Requests :
        req'[p] = req[p] \/ (~PingWindow(p, c)' /\ ~PingAnnouncing(p, c) /\ ~PingAnnouncing(p, c)')
  BY DEF HTypeOK, TypeOK, PingWindow, PingAnnouncing
<1>2. SnapshotsFresh(c)' /\ PingsHaveNews(c)' /\ HeardIsBaseline(c)' /\ Agrees(c)' /\ Earned(c)'
  BY <1>1, RowFrame DEF LoopAnnouncing, Reminding, scanVars
<1>3. ScanHasNews(c)' /\ NagDeserved(c)'
  BY LoopFrame DEF scanVars
<1> QED BY <1>2, <1>3 DEF Coherent

\* A statement of request r on c, with every other window shut: what remains to
\* be shown is about r and the row.
LEMMA PingAlone ==
  ASSUME TypeOK, TasksInv, NEW c \in Checks, NEW r \in Requests, UNCHANGED scanVars,
         ~LoopWindow(c), \A q \in Requests \ {r} : ~PingWindow(q, c),
         NEW p \in Request, req' = [req EXCEPT ![r] = p], p.pc \in {"idle", "nag"}
  PROVE  /\ SnapshotsFresh(c)' /\ ScanHasNews(c)' /\ NagDeserved(c)'
         /\ ~LoopAnnouncing(c)' /\ ~Reminding(c)'
         /\ \A q \in Requests \ {r} : ~PingAnnouncing(q, c) /\ ~PingAnnouncing(q, c)'
<1>1. \A q \in Requests \ {r} : req'[q] = req[q]
  BY DEF TypeOK
<1>2. req'[r] = p
  BY DEF TypeOK
<1>3. SnapshotsFresh(c)'
  BY <1>1, <1>2 DEF SnapshotsFresh, PingWindow
<1>4. ScanHasNews(c)' /\ NagDeserved(c)' /\ ~LoopAnnouncing(c)' /\ ~Reminding(c)'
  BY DEF ScanHasNews, NagDeserved, LoopWindow, LoopAnnouncing, Reminding, scanVars
<1>5. \A q \in Requests \ {r} : ~PingAnnouncing(q, c) /\ ~PingAnnouncing(q, c)'
  BY <1>1, AnnouncingInWindow DEF PingAnnouncing
<1> QED BY <1>3, <1>4, <1>5

\* mark_ping: the snapshot is what the row still says, so what apply concludes
\* from the snapshot is right of the row.
LEMMA MarkCoherent ==
  ASSUME HInv, HTypeOK', NEW c \in Checks, ~disturbed'[c], NEW r \in Requests, HMark(r)
  PROVE  Coherent(c)'
<1> DEFINE q == req[r]
           p == IF IsRecovery(q) \/ IsFailure(q) THEN [q EXCEPT !.pc = "nag"] ELSE IdleRequest
<1>1. /\ HTypeOK /\ TypeOK /\ TypeOK' /\ TasksInv /\ UNCHANGED <<scanVars, told, heard>>
      /\ PingMark(r) /\ PingWrites(r, q.check)
      /\ q \in Request /\ q.check \in Checks /\ q.pc = "mark" /\ q.now \in Nat
      /\ checks[c] \in Row
  BY DEF HInv, HTypeOK, HMark, PingMark, TypeOK, Request
<1>2. ~disturbed[c] /\ Coherent(c)
  BY <1>1, Undisturbed DEF HInv
<1>3. p \in Request /\ req' = [req EXCEPT ![r] = p] /\ p.pc \in {"idle", "nag"}
      /\ (p.check = q.check \/ p.pc = "idle")
  BY <1>1, IdleRequestType DEF PingMark, Request, IdleRequest
<1>4. CASE q.check # c
  <2>1. checks'[c] = checks[c]
    BY <1>1, <1>4 DEF PingMark, Update, TypeOK
  <2>2. SaidKept(c)
    BY <1>1, <1>4 DEF HMark, SaidKept, HTypeOK
  <2> QED BY <1>1, <1>2, <1>3, <1>4, <2>1, <2>2, PingElsewhere
<1>5. CASE q.check = c
  <2>1. ~LoopWindow(c) /\ \A o \in Requests \ {r} : ~PingWindow(o, c)
    BY <1>1, <1>5, Undisturbed DEF HInv
  <2>2. /\ SnapshotsFresh(c)' /\ ScanHasNews(c)' /\ NagDeserved(c)' /\ ~LoopAnnouncing(c)' /\ ~Reminding(c)'
        /\ \A o \in Requests \ {r} : ~PingAnnouncing(o, c) /\ ~PingAnnouncing(o, c)'
    BY <1>1, <1>3, <2>1, PingAlone
  <2>3. /\ checks[c].status = q.snap.status /\ checks[c].next_due = q.snap.next_due
        /\ checks[c].sched = q.snap.sched
        /\ q.snap.status \in Stored /\ q.snap.status # "paused"
        /\ q.kind \in {"success", "fail", "start"}
    BY <1>1, <1>2, <1>5 DEF Coherent, SnapshotsFresh, PingWindow, TasksInv, Request, PingKind
  <2>4. /\ checks[c].status = "down" => told[c] = "down" /\ checks[c].last_alert # NULL
        /\ told[c] = "down" => checks[c].status \in {"down", "deleted"}
        /\ checks[c].status = "down" => heard[c] = checks[c].last_alert
    BY <1>1, <1>2, <2>1, <2>2
       DEF Coherent, Agrees, HeardIsBaseline, Announcing, LoopAnnouncing, Reminding, LoopWindow, PingAnnouncing
  <2>5. checks'[c] = PingMarked(checks[c], q)
    BY <1>1, <1>5, <2>3 DEF PingMark, Update, Exists, TypeOK
  <2>6. checks'[c].last_alert = checks[c].last_alert
    BY <1>1, <2>3, <2>5 DEF PingMarked, mark_ping, Row
  <2>7. checks'[c].status = IF q.kind = "success" THEN "up"
                            ELSE IF q.kind = "fail" THEN "down" ELSE checks[c].status
    BY <1>1, <2>3, <2>5 DEF PingMarked, mark_ping, Row
  <2>8. req'[r] = p
    BY <1>1, <1>3 DEF TypeOK
  <2>9. IsRecovery(req'[r]) => IsRecovery(q)
    BY <1>1, <2>8 DEF IsRecovery, Request, IdleRequest
  <2>10. PingAnnouncing(r, c)' <=> IsRecovery(q) \/ IsFailure(q)
    BY <1>1, <1>5, <2>8 DEF PingAnnouncing, Request, IdleRequest
  <2>11. IsRecovery(q) => IsRecovery(req'[r])
    BY <1>1, <2>8 DEF IsRecovery, Request
  <2>12. PingsHaveNews(c)'
    BY <1>1, <2>2, <2>3, <2>4, <2>7, <2>9, <2>10, <2>11 DEF PingsHaveNews, IsRecovery, IsFailure, Stored
  <2>13. Agrees(c)' /\ HeardIsBaseline(c)'
    BY <1>1, <2>2, <2>3, <2>4, <2>6, <2>7, <2>10
       DEF Agrees, HeardIsBaseline, Announcing, IsRecovery, IsFailure, Stored
  <2>14. Earned(c)'
    <3>1. CASE q.kind = "success"
      <4> DEFINE e == [EmptyRow("up") EXCEPT !.last_ping = q.now, !.sched = q.snap.sched]
                 f == [checks'[c] EXCEPT !.sched = q.snap.sched]
      <4>1. q.snap.sched \in Schedules /\ earned'[c] = q.snap.sched
        BY <1>1, <1>5, <2>3, <3>1 DEF Request, Snapshot, HMark, HTypeOK
      <4>2. checks'[c].next_due = due_time(e) /\ checks'[c].last_ping = q.now
        <5>1. checks'[c] = mark_ping(checks[c], "up", q.now, NULL, due_time(e))
          BY <2>5, <3>1 DEF PingMarked
        <5> HIDE DEF e, q
        <5> QED BY <1>1, <5>1 DEF mark_ping, coalesce, Row, NULL
      <4>3. EmptyRow("up") \in Row /\ checks'[c] \in Row
        BY <1>1, EmptyRowType DEF TypeOK, Status, Stored
      <4>4. e \in Row /\ f \in Row /\ e.sched = f.sched /\ anchor(e) = anchor(f)
        <5>1. e \in Row /\ e.sched = q.snap.sched /\ e.last_ping = q.now
          BY <1>1, <4>1, <4>3 DEF Row, Stamp
        <5>2. f \in Row /\ f.sched = q.snap.sched /\ f.last_ping = q.now
          BY <4>1, <4>2, <4>3 DEF Row
        <5> HIDE DEF e, f, q
        <5> QED BY <1>1, <5>1, <5>2 DEF anchor, NULL
      <4>5. due_time(e) = due_time(f)
        BY <4>4, DueByAnchor
      <4> QED BY <4>1, <4>2, <4>5 DEF Earned
    <3>2. CASE q.kind = "fail"
      BY <2>7, <3>2 DEF Earned
    <3>3. CASE q.kind = "start"
      <4>1. /\ checks'[c].next_due = checks[c].next_due
            /\ checks'[c].last_ping = checks[c].last_ping
            /\ checks'[c].created_at = checks[c].created_at
        BY <1>1, <2>3, <2>5, <3>3 DEF PingMarked, mark_ping, coalesce, Row
      <4>2. earned'[c] = earned[c]
        BY <3>3 DEF HMark
      <4> QED BY <1>1, <1>2, <2>7, <3>3, <4>1, <4>2, EarnedKept DEF Coherent
    <3> QED BY <2>3, <3>1, <3>2, <3>3
  <2> QED BY <2>2, <2>12, <2>13, <2>14 DEF Coherent
<1> QED BY <1>4, <1>5

\* clear_nag or begin_down_alert and the event: the channels now know.
LEMMA NagCoherent ==
  ASSUME HInv, HTypeOK', NEW c \in Checks, ~disturbed'[c], NEW r \in Requests,
         PingNag(r), PingWrites(r, req[r].check),
         IF IsRecovery(req[r]) THEN Tell(req[r].check, "up", NULL)
                               ELSE Tell(req[r].check, "down", req[r].now),
         UNCHANGED earned
  PROVE  Coherent(c)'
<1> DEFINE q == req[r]
<1>1. /\ HTypeOK /\ TypeOK /\ TypeOK' /\ TasksInv /\ UNCHANGED scanVars
      /\ q \in Request /\ q.check \in Checks /\ q.pc = "nag" /\ q.now \in Nat
      /\ checks[c] \in Row
      /\ told \in [Checks -> {"none", "down", "up"}] /\ heard \in [Checks -> Stamp]
  BY DEF HInv, HTypeOK, PingNag, TypeOK, Request
<1>2. ~disturbed[c] /\ Coherent(c)
  BY <1>1, Undisturbed DEF HInv
<1>3. req' = [req EXCEPT ![r] = IdleRequest] /\ IdleRequest \in Request /\ IdleRequest.pc = "idle"
  BY IdleRequestType DEF PingNag, IdleRequest
<1>4. CASE q.check # c
  <2>1. checks'[c] = checks[c] /\ SaidKept(c)
    BY <1>1, <1>4 DEF PingNag, Update, TypeOK, Tell, SaidKept
  <2> QED BY <1>1, <1>2, <1>3, <1>4, <2>1, PingElsewhere
<1>5. CASE q.check = c
  <2>1. ~LoopWindow(c) /\ \A o \in Requests \ {r} : ~PingWindow(o, c)
    BY <1>1, <1>5, Undisturbed DEF HInv
  <2>2. /\ SnapshotsFresh(c)' /\ ScanHasNews(c)' /\ NagDeserved(c)' /\ ~LoopAnnouncing(c)' /\ ~Reminding(c)'
        /\ \A o \in Requests \ {r} : ~PingAnnouncing(o, c) /\ ~PingAnnouncing(o, c)'
    BY <1>1, <1>3, <2>1, PingAlone
  <2>3. ~PingAnnouncing(r, c)'
    BY <1>1, <1>3 DEF PingAnnouncing, TypeOK
  <2>4. checks[c].status = IF IsRecovery(q) THEN "up" ELSE "down"
    BY <1>1, <1>2, <1>5 DEF Coherent, PingsHaveNews, PingAnnouncing
  <2>5. checks'[c] = PingNagged(checks[c], q)
    BY <1>1, <1>5, <2>4 DEF PingNag, Update, Exists, Stored, TypeOK
  <2>6. /\ checks'[c].status = checks[c].status
        /\ checks'[c].next_due = checks[c].next_due
        /\ checks'[c].last_ping = checks[c].last_ping
        /\ checks'[c].created_at = checks[c].created_at
        /\ ~IsRecovery(q) => checks'[c].last_alert = q.now
    BY <1>1, <2>5 DEF PingNagged, clear_nag, begin_down_alert, Row
  <2>7. IF IsRecovery(q) THEN told'[c] = "up" ELSE told'[c] = "down" /\ heard'[c] = q.now
    BY <1>1, <1>5 DEF Tell
  <2>8. PingsHaveNews(c)'
    BY <2>2, <2>3 DEF PingsHaveNews
  <2>9. Agrees(c)' /\ HeardIsBaseline(c)'
    BY <1>1, <2>4, <2>6, <2>7 DEF Agrees, HeardIsBaseline, NULL
  <2>10. Earned(c)'
    BY <1>1, <1>2, <2>6, EarnedKept DEF Coherent
  <2> QED BY <2>2, <2>8, <2>9, <2>10 DEF Coherent
<1> QED BY <1>4, <1>5

\* A request that is cut off before its first write leaves no trace.
LEMMA DropCoherent ==
  ASSUME HInv, HTypeOK', NEW c \in Checks, ~disturbed'[c], NEW r \in Requests, HPingDrop(r)
  PROVE  Coherent(c)'
<1>1. /\ HTypeOK /\ TypeOK /\ TypeOK' /\ UNCHANGED scanVars /\ SaidKept(c) /\ req[r].check \in Checks
      /\ disturbed \in [Checks -> BOOLEAN]
  BY DEF HInv, HTypeOK, HPingDrop, PingDrop, TypeOK, Request, SaidKept
<1>2. ~disturbed[c] /\ (req[r].check = c => req[r].pc # "nag")
  BY <1>1, Zenon DEF HPingDrop
<1>3. Coherent(c)
  BY <1>2 DEF HInv
<1>4. checks'[c] = checks[c]
  BY <1>1, <1>2 DEF HPingDrop, PingDrop, Update, TypeOK
<1>5. \A p \in Requests :
        req'[p] = req[p] \/ (~PingWindow(p, c)' /\ ~PingAnnouncing(p, c) /\ ~PingAnnouncing(p, c)')
  BY <1>1, <1>2 DEF HPingDrop, PingDrop, TypeOK, PingWindow, PingAnnouncing, IdleRequest
<1>6. SnapshotsFresh(c)' /\ PingsHaveNews(c)' /\ HeardIsBaseline(c)' /\ Agrees(c)' /\ Earned(c)'
  BY <1>1, <1>3, <1>4, <1>5, RowFrame DEF LoopAnnouncing, Reminding, scanVars
<1>7. ScanHasNews(c)' /\ NagDeserved(c)'
  BY <1>1, <1>3, <1>4, LoopFrame DEF scanVars
<1> QED BY <1>6, <1>7 DEF Coherent

\* The steps of the scan loop that write no row and say nothing.
LEMMA LoopQuietCoherent ==
  ASSUME HInv, HTypeOK', NEW c \in Checks, Coherent(c), UNCHANGED hist,
         \/ ScanBegin \/ ScanList \/ Heartbeat \/ NagProjects \/ NagGlobal \/ NagList
         \/ ScanListFails \/ NagReadFails
         \/ \E d \in Checks : ScanDownFails(d) \/ NagRecordFails(d)
  PROVE  Coherent(c)'
<1>1. HTypeOK /\ TypeOK /\ TypeOK' /\ TasksInv /\ UNCHANGED <<checks, req>> /\ SaidKept(c)
  BY DEF HInv, HTypeOK, SaidKept, hist, ScanBegin, ScanList, Heartbeat, NagProjects, NagGlobal, NagList, ScanListFails,
         NagReadFails, ScanDownFails, NagRecordFails
<1>2. (LoopAnnouncing(c)' <=> LoopAnnouncing(c)) /\ (Reminding(c)' <=> Reminding(c))
  BY <1>1 DEF LoopAnnouncing, Reminding, TasksInv, ScanBegin, ScanList, Heartbeat, NagProjects, NagGlobal, NagList,
              ScanListFails, NagReadFails, ScanDownFails, NagRecordFails
<1>3. SnapshotsFresh(c)' /\ PingsHaveNews(c)' /\ HeardIsBaseline(c)' /\ Agrees(c)' /\ Earned(c)'
  BY <1>1, <1>2, RowFrame
<1>4. ScanHasNews(c)' /\ NagDeserved(c)'
  <2>1. CASE ScanList
    BY <1>1, <2>1 DEF ScanList, ScanHasNews, NagDeserved, TasksInv, IsLate
  <2>2. CASE NagList
    <3>1. ReadInterval(c)' = ReadInterval(c)
      BY <1>1, <2>2 DEF NagList, ReadInterval
    <3> QED BY <1>1, <2>2, <3>1 DEF NagList, ScanHasNews, NagDeserved, NagDue, TasksInv
  <2>3. CASE \/ ScanBegin \/ Heartbeat \/ NagProjects \/ NagGlobal \/ ScanListFails \/ NagReadFails
             \/ \E d \in Checks : ScanDownFails(d) \/ NagRecordFails(d)
    BY <1>1, <2>3, LoopFrame DEF ScanBegin, Heartbeat, NagProjects, NagGlobal, ScanListFails, NagReadFails,
                           ScanDownFails, NagRecordFails
  <2> QED BY <2>1, <2>2, <2>3
<1> QED BY <1>3, <1>4 DEF Coherent

\* A statement of the scan loop on the row of a check.
LEMMA LoopWriteCoherent ==
  ASSUME HInv, HTypeOK', NEW c \in Checks, ~disturbed'[c], NEW d \in Checks,
         ScanDown(d) \/ ScanBaseline(d) \/ NagRecord(d), LoopWrites(d), UNCHANGED <<said, earned>>
  PROVE  Coherent(c)'
<1>1. /\ HTypeOK /\ TypeOK /\ TypeOK' /\ TasksInv /\ UNCHANGED <<req, scanPc, scanNow, nagReads>>
      /\ SaidKept(c)
      /\ checks[c] \in Row /\ scanNow \in Nat
  BY DEF HInv, HTypeOK, TypeOK, ScanDown, ScanBaseline, NagRecord, SaidKept
<1>2. ~disturbed[c] /\ Coherent(c)
  BY <1>1, Undisturbed DEF HInv
<1>3. CASE c # d
  <2>1. checks'[c] = checks[c]
    BY <1>1, <1>3 DEF ScanDown, ScanBaseline, NagRecord, Update, TypeOK
  <2>2. /\ c \in todo' <=> c \in todo
        /\ c \in cur' <=> c \in cur
        /\ c \in events' <=> c \in events
    BY <1>1, <1>3 DEF ScanDown, ScanBaseline, NagRecord, TasksInv, TypeOK
  <2>3. SnapshotsFresh(c)' /\ PingsHaveNews(c)' /\ HeardIsBaseline(c)' /\ Agrees(c)' /\ Earned(c)'
    BY <1>1, <1>2, <2>1, <2>2, RowFrame DEF LoopAnnouncing, Reminding
  <2>4. ScanHasNews(c)' /\ NagDeserved(c)'
    BY <1>1, <1>2, <2>1, <2>2, LoopFrame
  <2> QED BY <2>3, <2>4 DEF Coherent
<1>4. CASE c = d
  <2>1. /\ \A q \in Requests : ~PingWindow(q, c) /\ ~PingWindow(q, c)'
        /\ \A q \in Requests : ~PingAnnouncing(q, c) /\ ~PingAnnouncing(q, c)'
    BY <1>1, <1>4, Undisturbed, AnnouncingInWindow DEF HInv, PingWindow, PingAnnouncing
  <2>2. SnapshotsFresh(c)' /\ PingsHaveNews(c)'
    BY <2>1 DEF SnapshotsFresh, PingsHaveNews
  <2>3. CASE ScanDown(c)
    <3>1. checks[c].status \in {"new", "up"} /\ c \notin events
      BY <1>2, <2>3 DEF ScanDown, Coherent, ScanHasNews
    <3>2. told[c] # "down"
      BY <1>2, <2>1, <2>3, <3>1 DEF ScanDown, Coherent, Agrees, Announcing, LoopAnnouncing
    <3>3. checks'[c].status = "down"
      BY <1>1, <2>3, <3>1 DEF ScanDown, Update, Exists, Stored, set_status, TypeOK, Row
    <3> QED BY <1>1, <2>2, <2>3, <3>1, <3>2, <3>3
            DEF ScanDown, Coherent, ScanHasNews, NagDeserved, HeardIsBaseline, Agrees, Announcing, LoopAnnouncing, Earned
  <2>4. CASE ScanBaseline(c)
    <3>1. checks[c].status = "down" /\ told[c] # "down" /\ c \notin todo
      BY <1>2, <2>4 DEF ScanBaseline, Coherent, ScanHasNews
    <3>2. checks'[c].status = "down" /\ ~checks'[c].acked /\ checks'[c].last_alert = scanNow
      BY <1>1, <2>4, <3>1 DEF ScanBaseline, Update, Exists, Stored, begin_down_alert, TypeOK, Row
    <3> QED BY <1>1, <2>2, <2>4, <3>1, <3>2
            DEF ScanBaseline, Coherent, ScanHasNews, NagDeserved, HeardIsBaseline, Agrees, Announcing, LoopAnnouncing,
                Earned
  <2>5. CASE NagRecord(c)
    <3>1. /\ checks[c].status = "down" /\ ~checks[c].acked
          /\ checks[c].last_alert # NULL /\ ReadInterval(c) > 0
          /\ scanNow >= checks[c].last_alert + ReadInterval(c)
      BY <1>2, <2>5 DEF NagRecord, Coherent, NagDeserved, NagDue
    <3>2. ~Announcing(c) /\ ~Announcing(c)'
      BY <1>1, <2>1, <2>5 DEF NagRecord, Announcing, LoopAnnouncing
    <3>3. told[c] = "down"
      BY <1>2, <3>1, <3>2 DEF Coherent, Agrees
    <3>4. heard[c] # NULL /\ scanNow >= heard[c] + ReadInterval(c)
      <4>1. CASE Reminding(c)
        BY <1>2, <2>5, <4>1 DEF Reminding, Coherent, NagDeserved
      <4>2. CASE ~Reminding(c)
        BY <1>2, <3>1, <3>2, <4>2 DEF Coherent, HeardIsBaseline
      <4> QED BY <4>1, <4>2
    <3>5. /\ checks'[c].status = "down" /\ ~checks'[c].acked /\ checks'[c].last_alert = scanNow
          /\ checks'[c].sched = checks[c].sched
      BY <1>1, <2>5, <3>1 DEF NagRecord, Update, Exists, Stored, record_reminder, TypeOK, Row
    <3>6. ReadInterval(c)' = ReadInterval(c)
      BY <1>1, <3>5 DEF ReadInterval
    <3>7. scanPc = "nag" /\ scanPc' = "nag" /\ c \notin todo' /\ c \in events'
      BY <2>5 DEF NagRecord
    <3>8. NagDeserved(c)'
      BY <1>1, <3>1, <3>3, <3>4, <3>5, <3>6, <3>7 DEF NagDeserved, SaidKept
    <3>9. ScanHasNews(c)' /\ HeardIsBaseline(c)' /\ Earned(c)'
      BY <3>5, <3>7 DEF ScanHasNews, HeardIsBaseline, Reminding, Earned
    <3>10. Agrees(c)'
      BY <1>1, <3>3, <3>5 DEF Agrees, NULL, SaidKept
    <3> QED BY <2>2, <3>8, <3>9, <3>10 DEF Coherent
  <2> QED BY <1>4, <2>3, <2>4, <2>5
<1> QED BY <1>3, <1>4

\* The pass hands its Down events over.
LEMMA FinishCoherent ==
  ASSUME HInv, HTypeOK', NEW c \in Checks, ~disturbed'[c], ScanFinish,
         told' = [x \in Checks |-> IF x \in events THEN "down" ELSE told[x]], HandOver,
         UNCHANGED <<earned, disturbed>>
  PROVE  Coherent(c)'
<1>1. /\ HTypeOK /\ TypeOK /\ TypeOK' /\ TasksInv /\ UNCHANGED <<checks, req>> /\ scanNow \in Nat
      /\ scanPc = "scan" /\ scanPc' = "heartbeat" /\ cur = {}
  BY DEF HInv, HTypeOK, TypeOK, ScanFinish
<1>2. Coherent(c)
  BY DEF HInv
<1>3. ScanHasNews(c)' /\ NagDeserved(c)'
  BY <1>1, <1>2, LoopFrame
<1>4. CASE c \notin events
  <2>1. SaidKept(c)
    BY <1>4 DEF SaidKept, HandOver
  <2>2. SnapshotsFresh(c)' /\ PingsHaveNews(c)' /\ HeardIsBaseline(c)' /\ Agrees(c)' /\ Earned(c)'
    BY <1>1, <1>2, <1>4, <2>1, RowFrame DEF LoopAnnouncing, Reminding
  <2> QED BY <1>3, <2>2 DEF Coherent
<1>5. CASE c \in events
  <2>1. told'[c] = "down" /\ heard'[c] = scanNow /\ checks[c].status = "down" /\ checks[c].last_alert = scanNow
    BY <1>1, <1>2, <1>5 DEF Coherent, ScanHasNews, HandOver
  <2>2. \A r \in Requests : ~PingAnnouncing(r, c)'
    BY <1>1, <1>2, <1>5 DEF Coherent, PingsHaveNews, PingAnnouncing, LoopAnnouncing
  <2>3. SnapshotsFresh(c)'
    BY <1>1, <1>2 DEF Coherent, SnapshotsFresh, PingWindow
  <2> QED BY <1>1, <1>3, <2>1, <2>2, <2>3 DEF Coherent, PingsHaveNews, HeardIsBaseline, Agrees, Earned, NULL
<1> QED BY <1>4, <1>5

\* The nag pass hands its reminders over.
LEMMA NagFinishCoherent ==
  ASSUME HInv, HTypeOK', NEW c \in Checks, ~disturbed'[c], NagFinish, HandOver,
         UNCHANGED <<told, earned, disturbed>>
  PROVE  Coherent(c)'
<1>1. /\ HTypeOK /\ TypeOK /\ TypeOK' /\ TasksInv /\ UNCHANGED <<checks, req>>
      /\ scanPc = "nag" /\ scanPc' = "asleep"
  BY DEF HInv, HTypeOK, NagFinish
<1>2. Coherent(c)
  BY DEF HInv
<1>3. ScanHasNews(c)' /\ NagDeserved(c)'
  BY <1>1, <1>2, LoopFrame
<1>4. (Announcing(c)' <=> Announcing(c)) /\ ~Reminding(c)'
  BY <1>1 DEF Announcing, LoopAnnouncing, PingAnnouncing, Reminding
<1>5. SnapshotsFresh(c)' /\ PingsHaveNews(c)'
  BY <1>1, <1>2 DEF Coherent, SnapshotsFresh, PingsHaveNews, PingWindow, PingAnnouncing, LoopAnnouncing,
                    IsRecovery
<1>6. Agrees(c)'
  BY <1>1, <1>2, <1>4 DEF Coherent, Agrees
<1>7. HeardIsBaseline(c)'
  BY <1>1, <1>2, <1>4 DEF Coherent, HeardIsBaseline, NagDeserved, Reminding, HandOver
<1>8. Earned(c)'
  BY <1>1, <1>2, EarnedKept DEF Coherent
<1> QED BY <1>3, <1>5, <1>6, <1>7, <1>8 DEF Coherent

\* begin_down_alert fails: the check concerned is disturbed, no other is touched.
LEMMA BaselineFailsCoherent ==
  ASSUME HInv, HTypeOK', NEW c \in Checks, ~disturbed'[c], NEW d \in Checks,
         ScanBaselineFails(d), disturbed' = [disturbed EXCEPT ![d] = TRUE], UNCHANGED <<said, earned>>
  PROVE  Coherent(c)'
<1>1. /\ HTypeOK /\ TypeOK /\ TypeOK' /\ TasksInv /\ SaidKept(c)
      /\ UNCHANGED <<checks, req, scanPc, scanNow, todo, nagReads>>
      /\ disturbed \in [Checks -> BOOLEAN]
  BY DEF HInv, HTypeOK, ScanBaselineFails, SaidKept
<1>2. c # d /\ ~disturbed[c]
  BY <1>1
<1>3. Coherent(c)
  BY <1>2 DEF HInv
<1>4. (c \in cur' <=> c \in cur) /\ (c \in events' <=> c \in events)
  BY <1>1, <1>2 DEF ScanBaselineFails, TasksInv, TypeOK
<1>5. SnapshotsFresh(c)' /\ PingsHaveNews(c)' /\ HeardIsBaseline(c)' /\ Agrees(c)' /\ Earned(c)'
  BY <1>1, <1>3, <1>4, RowFrame DEF LoopAnnouncing, Reminding
<1>6. ScanHasNews(c)' /\ NagDeserved(c)'
  BY <1>1, <1>3, <1>4, LoopFrame
<1> QED BY <1>5, <1>6 DEF Coherent

\* A crash costs an event only of a check that is being announced.
LEMMA CrashCoherent ==
  ASSUME HInv, HTypeOK', NEW c \in Checks, ~disturbed'[c], HCrash
  PROVE  Coherent(c)'
<1>1. /\ HTypeOK /\ TypeOK /\ TypeOK' /\ UNCHANGED checks /\ SaidKept(c)
      /\ scanPc' = "asleep" /\ \A r \in Requests : req'[r].pc = "idle"
  BY DEF HInv, HTypeOK, HCrash, Crash, IdleRequest, SaidKept
<1>2. ~disturbed[c] /\ ~Announcing(c) /\ ~Reminding(c)
  BY Zenon DEF HCrash
<1>3. Coherent(c)
  BY <1>2 DEF HInv
<1>4. ScanHasNews(c)' /\ NagDeserved(c)'
  BY <1>1, <1>3, LoopFrame
<1>5. SnapshotsFresh(c)' /\ PingsHaveNews(c)' /\ HeardIsBaseline(c)' /\ Agrees(c)' /\ Earned(c)'
  BY <1>1, <1>2, <1>3, RowFrame DEF Announcing, PingWindow, PingAnnouncing, LoopAnnouncing, Reminding
<1> QED BY <1>4, <1>5 DEF Coherent

\* No statement turns a row into a missing one.
LEMMA AbsentKept ==
  ASSUME TypeOK, TasksInv, [Next]_vars, NEW c \in Checks, checks'[c].status = "absent"
  PROVE  checks'[c] = checks[c]
<1>1. ASSUME NEW d \in Checks, NEW row, Update(d, row), Exists(d) => row.status \in Stored
      PROVE  checks'[c] = checks[c]
  BY <1>1 DEF Update, TypeOK, Stored
<1>2. ASSUME NEW d \in Checks, UserOp(d) PROVE checks'[c] = checks[c]
  <2>1. CASE DeleteCheck(d) \/ \E s \in Schedules : CreateCheck(d, s)
    <3>1. /\ EmptyRow("deleted").status # "absent"
          /\ \A s : [EmptyRow("new") EXCEPT !.created_at = clock, !.sched = s].status # "absent"
      BY DEF EmptyRow
    <3>2. PICK row : checks' = [checks EXCEPT ![d] = row] /\ row.status # "absent"
      BY <2>1, <3>1, Zenon DEF DeleteCheck, CreateCheck
    <3> QED BY <3>2 DEF TypeOK
  <2>2. /\ set_status(checks[d], "paused").status \in Stored
        /\ set_status(checks[d], "new").status \in Stored
        /\ Exists(d) => acknowledge(checks[d]).status \in Stored
        /\ \A s : Exists(d) => update_check_schedule(checks[d], s).status \in Stored
    BY DEF set_status, acknowledge, update_check_schedule, Exists, Stored, TypeOK, Row
  <2> QED BY <1>1, <1>2, <2>1, <2>2 DEF UserOp, PauseCheck, ResumeCheck, AckCheck, UpdateCheck
<1>3. ASSUME NEW r \in Requests, PingStep(r) \/ PingDrop(r) PROVE checks'[c] = checks[c]
  <2> DEFINE d == req[r].check
  <2>1. d \in Checks /\ checks[d] \in Row /\ req[r] \in Request
    BY DEF TypeOK, Request
  <2>2. Exists(d) => PingNagged(checks[d], req[r]).status \in Stored
    BY <2>1 DEF PingNagged, clear_nag, begin_down_alert, Exists, Row
  <2>3. CASE PingMark(r)
    <3>1. req[r].snap.status \in Stored
      BY <2>3 DEF PingMark, TasksInv
    <3>2. Exists(d) => PingMarked(checks[d], req[r]).status \in Stored
      BY <2>1, <3>1 DEF PingMarked, mark_ping, Exists, Stored, Row
    <3> QED BY <1>1, <2>1, <2>3, <3>2 DEF PingMark
  <2> QED BY <1>1, <1>3, <2>1, <2>2, <2>3 DEF PingStep, PingDrop, PingInsert, PingNag
<1>4. CASE ScanStep \/ ScanFault
  <2>1. ASSUME NEW d \in Checks, ScanDown(d) \/ ScanBaseline(d) \/ NagRecord(d)
        PROVE  checks'[c] = checks[c]
    <3>1. /\ set_status(checks[d], "down").status \in Stored
          /\ Exists(d) => begin_down_alert(checks[d], scanNow).status \in Stored
          /\ Exists(d) => record_reminder(checks[d], scanNow).status \in Stored
      BY DEF set_status, begin_down_alert, record_reminder, Exists, Stored, TypeOK, Row
    <3> QED BY <1>1, <2>1, <3>1 DEF ScanDown, ScanBaseline, NagRecord
  <2>2. \/ UNCHANGED checks
        \/ \E d \in Checks : ScanDown(d) \/ ScanBaseline(d) \/ NagRecord(d)
    BY <1>4 DEF ScanStep, ScanFault, ScanBegin, ScanList, ScanFinish, Heartbeat, NagProjects, NagGlobal, NagList, NagFinish,
           ScanListFails, NagReadFails, ScanDownFails, ScanBaselineFails, NagRecordFails
  <2> QED BY <2>1, <2>2
<1>5. CASE \/ Tick \/ EditLevel \/ Crash \/ UNCHANGED vars
           \/ \E r \in Requests, d \in Checks, kind \in Kinds : PingResolve(r, d, kind)
  BY <1>5 DEF Tick, EditLevel, Crash, PingResolve, vars
<1> QED BY <1>2, <1>3, <1>4, <1>5 DEF Next

-----------------------------------------------------------------------------
LEMMA CoherentNext ==
  ASSUME HInv, [HNext]_hvars, HTypeOK', TasksInv', NEW c \in Checks, ~disturbed'[c]
  PROVE  Coherent(c)'
<1>1. ASSUME UNCHANGED disturbed PROVE Coherent(c)
  BY <1>1 DEF HInv
<1>2. CASE ((Tick \/ EditLevel) /\ UNCHANGED hist) \/ UNCHANGED hvars
  <2>1. HTypeOK /\ UNCHANGED <<checks, req, scanVars>> /\ SaidKept(c) /\ Coherent(c)
    BY <1>1, <1>2 DEF HInv, Tick, EditLevel, hvars, vars, hist, SaidKept
  <2>2. SnapshotsFresh(c)' /\ PingsHaveNews(c)' /\ HeardIsBaseline(c)' /\ Agrees(c)' /\ Earned(c)'
    BY <2>1, RowFrame DEF LoopAnnouncing, Reminding, scanVars
  <2>3. ScanHasNews(c)' /\ NagDeserved(c)'
    BY <2>1, LoopFrame DEF scanVars
  <2> QED BY <2>2, <2>3 DEF Coherent
<1>3. ASSUME NEW d \in Checks, HUser(d) PROVE Coherent(c)'
  BY <1>3, UserCoherent
<1>4. ASSUME NEW r \in Requests, NEW d \in Checks, NEW kind \in Kinds,
             PingResolve(r, d, kind), UNCHANGED hist
      PROVE  Coherent(c)'
  BY <1>1, <1>4, ResolveCoherent DEF hist
<1>5. ASSUME NEW r \in Requests, HPing(r) \/ HPingDrop(r) PROVE Coherent(c)'
  BY <1>1, <1>5, InsertCoherent, MarkCoherent, NagCoherent, DropCoherent DEF HPing, hist
<1>6. CASE HScan
  BY <1>1, <1>6, LoopQuietCoherent, LoopWriteCoherent, FinishCoherent, NagFinishCoherent DEF HScan, hist
<1>7. CASE HScanFault
  BY <1>1, <1>7, LoopQuietCoherent, BaselineFailsCoherent DEF HScanFault, hist
<1>8. CASE HCrash
  BY <1>8, CrashCoherent
<1> QED
  BY <1>2, <1>3, <1>4, <1>5, <1>6, <1>7, <1>8 DEF HNext

LEMMA HInvInit == HInit => HInv
<1> SUFFICES ASSUME HInit PROVE HInv
  OBVIOUS
<1>1. Unborn
  BY DEF HInit, Init, Unborn, EmptyRow
<1>2. ASSUME NEW c \in Checks PROVE Coherent(c)
  BY DEF HInit, Init, Coherent, SnapshotsFresh, PingsHaveNews, ScanHasNews, NagDeserved, HeardIsBaseline,
         Agrees, Earned, PingWindow, PingAnnouncing, IdleRequest, EmptyRow
<1> QED BY <1>1, <1>2, HTypeInit, TasksInit DEF HInv

LEMMA HInvNext == HInv /\ [HNext]_hvars => HInv'
<1> SUFFICES ASSUME HInv, [HNext]_hvars PROVE HInv'
  OBVIOUS
<1>1. HTypeOK /\ TypeOK /\ TasksInv /\ [Next]_vars
  BY HStepIsStep DEF HInv, HTypeOK
<1>2. HTypeOK' /\ TasksInv'
  BY <1>1, HTypeNext, TasksNext
<1>3. Unborn'
  BY <1>1, AbsentKept DEF HInv, Unborn
<1>4. \A c \in Checks : ~disturbed'[c] => Coherent(c)'
  BY <1>2, CoherentNext
<1> QED BY <1>2, <1>3, <1>4 DEF HInv

-----------------------------------------------------------------------------
(* The theorems. *)

\* Windows, snapshots and messages of every undisturbed check stay coherent:
\* the inductive invariant of HSpec.
THEOREM HInvariant == HSpec => []HInv
BY HInvInit, HInvNext, PTL DEF HSpec

\* The rows and the alerts of an undisturbed check agree: whatever the users,
\* the clients, the scan loop, failing statements and crashes do, in any order.
THEOREM AlertsAlwaysAgree == HSpec => []AlertsAgree
<1>1. HInv => AlertsAgree
  BY DEF HInv, Coherent, AlertsAgree
<1> QED BY <1>1, HInvariant, PTL

\* ping::apply and scan_once never announce what the channels already know.
THEOREM AlertsAlwaysNews == HSpec => []AlertsAreNews
<1>1. HInv => AlertsAreNews
  BY DEF HInv, Coherent, AlertsAreNews, PingsHaveNews, ScanHasNews, LoopAnnouncing
<1> QED BY <1>1, HInvariant, PTL

\* An incident that scan_once opens is down, unacknowledged and has the time of
\* the pass as its baseline until its Down is handed over.
THEOREM IncidentsStartFresh == HSpec => []IncidentStartsFresh
<1>1. HInv => IncidentStartsFresh
  BY DEF HInv, Coherent, IncidentStartsFresh, ScanHasNews
<1> QED BY <1>1, HInvariant, PTL

\* nag_once's reminders are of checks that the channels know to be down and that
\* nobody acknowledged, an interval after the message that was last handed over.
THEOREM RemindersAlwaysDeserved == HSpec => []RemindersDeserved
<1>1. HInv => RemindersDeserved
  BY DEF HInv, Coherent, RemindersDeserved, NagDeserved, Reminding
<1> QED BY <1>1, HInvariant, PTL

\* The next_due_at of an up check is the deadline of its last success under the
\* schedule that was in the row when that success was marked.
THEOREM NextDueAlwaysEarned == HSpec => []NextDueIsEarned
<1>1. HInv => NextDueIsEarned
  BY DEF HInv, Coherent, NextDueIsEarned
<1> QED BY <1>1, HInvariant, PTL

\* last_ping of an undisturbed check never moves back, except by its deletion.
LEMMA LastPingStep ==
  ASSUME HInv, [HNext]_hvars, HTypeOK', NEW c \in Checks,
         checks'[c].last_ping < checks[c].last_ping, ~disturbed'[c]
  PROVE  checks'[c].status = "deleted"
<1>1. /\ TypeOK /\ TypeOK' /\ TasksInv /\ checks[c] \in Row /\ checks[c].last_ping \in Int
      /\ checks[c].last_ping >= NULL
  BY DEF HInv, HTypeOK, TypeOK, Row, Stamp, NULL
<1>2. ASSUME checks'[c].last_ping = checks[c].last_ping PROVE FALSE
  BY <1>1, <1>2
<1>3. ASSUME NEW d \in Checks, HUser(d) PROVE checks'[c].status = "deleted"
  <2>1. CASE c # d
    <3>1. checks'[c] = checks[c]
      BY <1>1, <1>3, <2>1 DEF HUser, CreateCheck, DeleteCheck, PauseCheck, ResumeCheck, AckCheck,
                              UpdateCheck, Update, TypeOK
    <3> QED BY <1>2, <3>1
  <2>2. CASE DeleteCheck(c)
    BY <1>1, <2>2 DEF DeleteCheck, EmptyRow, TypeOK
  <2>3. CASE \E s \in Schedules : CreateCheck(c, s)
    <3>1. checks[c].last_ping = NULL
      BY <2>3 DEF CreateCheck, HInv, Unborn
    <3>2. checks'[c].last_ping = NULL
      BY <1>1, <2>3 DEF CreateCheck, EmptyRow, TypeOK
    <3> QED BY <1>2, <3>1, <3>2
  <2>4. CASE PauseCheck(c) \/ ResumeCheck(c) \/ AckCheck(c) \/ \E s \in Schedules : UpdateCheck(c, s)
    <3>1. checks'[c].last_ping = checks[c].last_ping
      BY <1>1, <2>4 DEF PauseCheck, ResumeCheck, AckCheck, UpdateCheck, Update, set_status,
                        acknowledge, update_check_schedule, TypeOK, Row
    <3> QED BY <1>2, <3>1
  <2> QED BY <1>3, <2>1, <2>2, <2>3, <2>4 DEF HUser
<1>4. ASSUME NEW r \in Requests, PingMark(r), PingWrites(r, req[r].check) PROVE FALSE
  <2> DEFINE q == req[r]
  <2>1. q \in Request /\ q.check \in Checks /\ q.pc = "mark" /\ q.now \in Nat
    BY <1>1, <1>4 DEF PingMark, TypeOK, Request
  <2>2. CASE q.check # c \/ ~Exists(c)
    <3>1. checks'[c] = checks[c]
      BY <1>1, <1>4, <2>1, <2>2 DEF PingMark, Update, TypeOK
    <3> QED BY <1>2, <3>1
  <2>3. CASE q.check = c /\ Exists(c)
    <3>1. Coherent(c)
      BY <1>4, <2>1, Undisturbed DEF HInv
    <3>2. checks[c].last_ping <= q.now
      BY <1>1, <2>1, <2>3, <3>1 DEF Coherent, SnapshotsFresh, PingWindow, TasksInv
    <3>3. checks'[c] = PingMarked(checks[c], q)
      BY <1>1, <1>4, <2>3 DEF PingMark, Update, TypeOK
    <3>4. checks'[c].last_ping \in {q.now, checks[c].last_ping}
      BY <1>1, <2>1, <3>3 DEF PingMarked, mark_ping, coalesce, Row
    <3> QED BY <1>1, <2>1, <3>2, <3>4
  <2> QED BY <2>2, <2>3
<1>5. ASSUME NEW r \in Requests, PingNag(r) \/ PingDrop(r) PROVE FALSE
  <2>1. req[r].check \in Checks /\ checks[req[r].check] \in Row
    BY <1>1 DEF TypeOK, Request
  <2>2. PingNagged(checks[req[r].check], req[r]).last_ping = checks[req[r].check].last_ping
    BY <2>1 DEF PingNagged, clear_nag, begin_down_alert, Row
  <2>3. checks'[c].last_ping = checks[c].last_ping
    BY <1>1, <1>5, <2>1, <2>2 DEF PingNag, PingDrop, Update, TypeOK
  <2> QED BY <1>2, <2>3
<1>6. ASSUME NEW d \in Checks, ScanDown(d) \/ ScanBaseline(d) \/ NagRecord(d) PROVE FALSE
  <2>1. /\ set_status(checks[d], "down").last_ping = checks[d].last_ping
        /\ begin_down_alert(checks[d], scanNow).last_ping = checks[d].last_ping
        /\ record_reminder(checks[d], scanNow).last_ping = checks[d].last_ping
    BY <1>1 DEF set_status, begin_down_alert, record_reminder, TypeOK, Row
  <2>2. PICK row : /\ checks' = [checks EXCEPT ![d] = row] \/ UNCHANGED checks
                   /\ row.last_ping = checks[d].last_ping
    BY <1>6, <2>1, Zenon DEF ScanDown, ScanBaseline, NagRecord, Update
  <2>3. checks'[c].last_ping = checks[c].last_ping
    BY <1>1, <2>2 DEF TypeOK
  <2> QED BY <1>2, <2>3
<1>7. ASSUME UNCHANGED checks PROVE FALSE
  BY <1>2, <1>7
<1>8. CASE HScan \/ HScanFault
  BY <1>6, <1>7, <1>8 DEF HScan, HScanFault, ScanBegin, ScanList, Heartbeat, NagProjects, NagGlobal, NagList, NagFinish,
     ScanFinish, ScanListFails, NagReadFails, ScanDownFails, NagRecordFails, ScanBaselineFails
<1>9. ASSUME NEW r \in Requests, HPing(r) \/ HPingDrop(r) PROVE FALSE
  BY <1>4, <1>5, <1>7, <1>9 DEF HPing, HMark, HPingDrop, PingInsert
<1>10. CASE \/ Tick \/ EditLevel \/ HCrash \/ UNCHANGED hvars
            \/ \E r \in Requests, d \in Checks, kind \in Kinds : PingResolve(r, d, kind)
  BY <1>7, <1>10 DEF Tick, EditLevel, HCrash, Crash, PingResolve, hvars, vars
<1> QED BY <1>3, <1>8, <1>9, <1>10 DEF HNext

\* last_ping_at, from which scan_once computes every deadline, advances only.
THEOREM LastPingAlwaysAdvances == HSpec => LastPingAdvances
<1>1. HInv /\ HTypeOK' /\ [HNext]_hvars =>
        [\A c \in Checks : checks'[c].last_ping < checks[c].last_ping
            => disturbed'[c] \/ checks'[c].status = "deleted"]_hvars
  BY LastPingStep
<1>2. HInv => HTypeOK
  BY DEF HInv
<1> QED BY <1>1, <1>2, HInvariant, PTL DEF HSpec, LastPingAdvances

LEMMA PausedStep ==
  ASSUME HInv, [HNext]_hvars, NEW c \in Checks, checks[c].status = "paused",
         checks'[c].status \notin {"paused", "new", "deleted"}
  PROVE  disturbed'[c]
<1> SUFFICES ASSUME ~disturbed'[c] PROVE FALSE
  OBVIOUS
<1>1. HTypeOK /\ TypeOK /\ TasksInv /\ checks[c] \in Row
  BY DEF HInv, HTypeOK, TypeOK
<1>2. ASSUME checks'[c].status = checks[c].status PROVE FALSE
  BY <1>2
<1>3. ASSUME NEW d \in Checks, HUser(d) PROVE FALSE
  <2>1. CASE c # d
    <3>1. checks'[c] = checks[c]
      BY <1>1, <1>3, <2>1 DEF HUser, CreateCheck, DeleteCheck, PauseCheck, ResumeCheck, AckCheck,
                              UpdateCheck, Update, TypeOK
    <3> QED BY <1>2, <3>1
  <2>2. CASE DeleteCheck(c) \/ \E s \in Schedules : CreateCheck(c, s)
    BY <1>1, <2>2 DEF DeleteCheck, CreateCheck, EmptyRow, TypeOK
  <2>3. CASE PauseCheck(c) \/ ResumeCheck(c) \/ AckCheck(c) \/ \E s \in Schedules : UpdateCheck(c, s)
    BY <1>1, <2>3 DEF PauseCheck, ResumeCheck, AckCheck, UpdateCheck, Update, set_status,
                      acknowledge, update_check_schedule, TypeOK, Row
  <2> QED BY <1>3, <2>1, <2>2, <2>3 DEF HUser
<1>4. ASSUME NEW r \in Requests, PingMark(r), PingWrites(r, req[r].check) PROVE FALSE
  <2>1. req[r].check \in Checks
    BY <1>1 DEF TypeOK, Request
  <2>2. CASE req[r].check # c
    BY <1>1, <1>2, <1>4, <2>1, <2>2 DEF PingMark, Update, TypeOK
  <2>3. CASE req[r].check = c
    <3>1. Coherent(c)
      BY <1>1, <1>4, <2>1, Undisturbed DEF HInv
    <3> QED BY <1>1, <1>4, <2>3, <3>1 DEF PingMark, Coherent, SnapshotsFresh, PingWindow, TasksInv
  <2> QED BY <2>2, <2>3
<1>5. ASSUME NEW r \in Requests, PingNag(r) \/ PingDrop(r) PROVE FALSE
  <2>1. req[r].check \in Checks /\ checks[req[r].check] \in Row
    BY <1>1 DEF TypeOK, Request
  <2>2. PingNagged(checks[req[r].check], req[r]).status = checks[req[r].check].status
    BY <2>1 DEF PingNagged, clear_nag, begin_down_alert, Row
  <2>3. checks'[c].status = checks[c].status
    BY <1>1, <1>5, <2>1, <2>2 DEF PingNag, PingDrop, Update, TypeOK
  <2> QED BY <1>2, <2>3
<1>6. ASSUME NEW d \in Checks, ScanDown(d), LoopWrites(d) PROVE FALSE
  <2>1. CASE c # d
    BY <1>1, <1>2, <1>6, <2>1 DEF ScanDown, Update, TypeOK
  <2>2. CASE c = d
    <3>1. Coherent(c)
      BY <1>1, <1>6, Undisturbed DEF HInv
    <3> QED BY <1>6, <2>2, <3>1 DEF ScanDown, Coherent, ScanHasNews
  <2> QED BY <2>1, <2>2
<1>7. ASSUME NEW d \in Checks, ScanBaseline(d) \/ NagRecord(d) PROVE FALSE
  <2>1. /\ begin_down_alert(checks[d], scanNow).status = checks[d].status
        /\ record_reminder(checks[d], scanNow).status = checks[d].status
    BY <1>1 DEF begin_down_alert, record_reminder, TypeOK, Row
  <2>2. PICK row : /\ checks' = [checks EXCEPT ![d] = row] \/ UNCHANGED checks
                   /\ row.status = checks[d].status
    BY <1>7, <2>1, Zenon DEF ScanBaseline, NagRecord, Update
  <2>3. checks'[c].status = checks[c].status
    BY <1>1, <2>2 DEF TypeOK
  <2> QED BY <1>2, <2>3
<1>8. ASSUME UNCHANGED checks PROVE FALSE
  BY <1>2, <1>8
<1>9. CASE HScan \/ HScanFault
  BY <1>6, <1>7, <1>8, <1>9 DEF HScan, HScanFault, ScanBegin, ScanList, Heartbeat, NagProjects, NagGlobal, NagList, NagFinish,
     ScanFinish, ScanListFails, NagReadFails, ScanDownFails, NagRecordFails, ScanBaselineFails
<1>10. ASSUME NEW r \in Requests, HPing(r) \/ HPingDrop(r) PROVE FALSE
  BY <1>4, <1>5, <1>8, <1>10 DEF HPing, HMark, HPingDrop, PingInsert
<1>11. CASE \/ Tick \/ EditLevel \/ HCrash \/ UNCHANGED hvars
            \/ \E r \in Requests, d \in Checks, kind \in Kinds : PingResolve(r, d, kind)
  BY <1>8, <1>11 DEF Tick, EditLevel, HCrash, Crash, PingResolve, hvars, vars
<1> QED BY <1>3, <1>9, <1>10, <1>11 DEF HNext

\* A pause lasts until check_resume or check_delete, unless it came inside the
\* window of a ping or of a scan pass.
THEOREM PausesLast == HSpec => PausedUntilResumed
<1>1. HInv /\ [HNext]_hvars =>
        [\A c \in Checks :
           checks[c].status = "paused" /\ checks'[c].status \notin {"paused", "new", "deleted"}
             => disturbed'[c]]_hvars
  BY PausedStep
<1> QED BY <1>1, HInvariant, PTL DEF HSpec, PausedUntilResumed
=============================================================================
