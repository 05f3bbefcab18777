-------------------------- MODULE CheckMonitorProofs --------------------------
(* Type correctness of CheckMonitor, for any checks, requests and schedules. *)
EXTENDS CheckMonitor, TLAPS

-----------------------------------------------------------------------------
(* The operators the actions are built from. *)

LEMMA AnySchedule_in == AnySchedule \in Schedules
BY SchedulesAssumption DEF AnySchedule

LEMMA AnyCheck_in == AnyCheck \in Checks
BY ChecksAssumption DEF AnyCheck

LEMMA EmptyRowType ==
  ASSUME NEW st \in Status PROVE EmptyRow(st) \in Row
BY AnySchedule_in DEF EmptyRow, Row, Stamp, NULL

LEMMA IdleRequestType == IdleRequest \in Request
BY AnySchedule_in, AnyCheck_in
   DEF IdleRequest, Request, Snapshot, PingKind, Status, Stored, Stamp, NULL

\* A cron expression's next tick lies after the anchor.
LEMMA NextTickLater ==
  ASSUME NEW every \in Nat \ {0}, NEW t \in Nat
  PROVE  NextTick(every, t) \in Nat /\ NextTick(every, t) > t
BY DEF NextTick

LEMMA DueTimeType ==
  ASSUME NEW row \in Row PROVE due_time(row) \in Stamp
<1>1. row.sched \in Schedule
  BY SchedulesAssumption DEF Row
<1>2. anchor(row) \in Nat
  BY DEF anchor, Row, Stamp
<1>3. CASE row.sched.every = NULL
  BY <1>3 DEF due_time, Stamp
<1>4. CASE row.sched.every # NULL
  <2>1. row.sched.every \in Nat \ {0} /\ row.sched.grace \in Nat
    BY <1>1, <1>4 DEF Schedule
  <2>2. NextTick(row.sched.every, anchor(row)) \in Nat
    BY <2>1, <1>2, NextTickLater
  <2> QED
    BY <1>2, <1>4, <2>1, <2>2 DEF due_time, Stamp
<1> QED
  BY <1>3, <1>4

LEMMA MarkPingType ==
  ASSUME NEW row \in Row, NEW st \in Status,
         NEW lp \in Stamp, NEW ls \in Stamp, NEW nd \in Stamp
  PROVE  mark_ping(row, st, lp, ls, nd) \in Row
BY DEF mark_ping, coalesce, Row

LEMMA PingMarkedType ==
  ASSUME NEW row \in Row, NEW q \in Request
  PROVE  PingMarked(row, q) \in Row
<1>1. /\ q.now \in Stamp /\ q.snap.status \in Status /\ q.snap.next_due \in Stamp
      /\ q.snap.sched \in Schedules /\ NULL \in Stamp
      /\ {"up", "down"} \subseteq Status
  BY DEF Request, Snapshot, Stamp, Status, Stored
<1>2. [EmptyRow("up") EXCEPT !.last_ping = q.now, !.sched = q.snap.sched] \in Row
  BY <1>1, EmptyRowType DEF Row
<1>3. due_time([EmptyRow("up") EXCEPT !.last_ping = q.now, !.sched = q.snap.sched]) \in Stamp
  BY <1>2, DueTimeType
<1> QED
  BY <1>1, <1>3, MarkPingType DEF PingMarked

LEMMA PingNaggedType ==
  ASSUME NEW row \in Row, NEW q \in Request
  PROVE  PingNagged(row, q) \in Row
BY DEF PingNagged, clear_nag, begin_down_alert, Row, Request, Stamp

LEMMA UpdateType ==
  ASSUME NEW c \in Checks, NEW row \in Row, checks \in [Checks -> Row], Update(c, row)
  PROVE  checks' \in [Checks -> Row]
BY DEF Update

-----------------------------------------------------------------------------
LEMMA TypeInit == Init => TypeOK
BY EmptyRowType, IdleRequestType, IntervalsAssumption DEF Init, TypeOK, Status

LEMMA TypeUser ==
  ASSUME TypeOK, NEW c \in Checks, UserOp(c) PROVE TypeOK'
<1> USE DEF TypeOK, scanVars, levels, nagReads
<1>1. checks[c] \in Row /\ "deleted" \in Status /\ "new" \in Status
  BY DEF Status, Stored
<1>2. CASE DeleteCheck(c)
  BY <1>1, <1>2, EmptyRowType DEF DeleteCheck
<1>3. CASE PauseCheck(c)
  <2>1. set_status(checks[c], "paused") \in Row
    BY <1>1 DEF set_status, Row, Status, Stored
  <2> QED BY <1>3, <2>1, UpdateType DEF PauseCheck
<1>4. CASE ResumeCheck(c)
  <2>1. set_status(checks[c], "new") \in Row
    BY <1>1 DEF set_status, Row, Status, Stored
  <2> QED BY <1>4, <2>1, UpdateType DEF ResumeCheck
<1>5. CASE AckCheck(c)
  <2>1. acknowledge(checks[c]) \in Row
    BY <1>1 DEF acknowledge, Row
  <2> QED BY <1>5, <2>1, UpdateType DEF AckCheck
<1>6. ASSUME NEW s \in Schedules, CreateCheck(c, s) PROVE TypeOK'
  <2>1. [EmptyRow("new") EXCEPT !.created_at = clock, !.sched = s] \in Row
    BY <1>1, EmptyRowType DEF Row
  <2> QED BY <1>6, <2>1 DEF CreateCheck
<1>7. ASSUME NEW s \in Schedules, UpdateCheck(c, s) PROVE TypeOK'
  <2>1. update_check_schedule(checks[c], s) \in Row
    BY <1>1 DEF update_check_schedule, Row
  <2> QED BY <1>7, <2>1, UpdateType DEF UpdateCheck
<1> QED
  BY <1>2, <1>3, <1>4, <1>5, <1>6, <1>7 DEF UserOp

LEMMA TypePing ==
  ASSUME TypeOK, NEW r \in Requests, PingStep(r) \/ PingDrop(r)
  PROVE  TypeOK'
<1> USE DEF TypeOK, scanVars, levels, nagReads
<1>1. req[r] \in Request /\ req[r].check \in Checks /\ checks[req[r].check] \in Row
  BY DEF Request
<1>2. CASE PingInsert(r)
  <2>1. [req[r] EXCEPT !.pc = "mark", !.now = clock] \in Request
    BY <1>1 DEF Request
  <2> QED BY <1>2, <2>1, IdleRequestType DEF PingInsert
<1>3. CASE PingMark(r)
  <2>1. [req[r] EXCEPT !.pc = "nag"] \in Request
    BY <1>1 DEF Request
  <2>2. checks' \in [Checks -> Row]
    BY <1>1, <1>3, PingMarkedType, UpdateType DEF PingMark
  <2> QED BY <1>3, <2>1, <2>2, IdleRequestType DEF PingMark
<1>4. PingNagged(checks[req[r].check], req[r]) \in Row
  BY <1>1, PingNaggedType
<1>5. CASE PingNag(r)
  BY <1>1, <1>4, <1>5, UpdateType, IdleRequestType DEF PingNag
<1>6. CASE PingDrop(r)
  <2>1. checks' \in [Checks -> Row]
    BY <1>1, <1>4, <1>6, UpdateType DEF PingDrop
  <2> QED BY <1>6, <2>1, IdleRequestType, BoundsAssumption DEF PingDrop, Fault
<1> QED
  BY <1>2, <1>3, <1>5, <1>6 DEF PingStep

LEMMA TypeScan ==
  ASSUME TypeOK, ScanStep \/ ScanFault PROVE TypeOK'
<1> USE DEF TypeOK, levels, nagReads
<1>1. CASE \/ ScanBegin \/ ScanList \/ ScanFinish \/ Heartbeat \/ NagProjects \/ NagGlobal
           \/ NagList \/ NagFinish \/ ScanListFails \/ NagReadFails
  BY <1>1, IntervalsAssumption
     DEF ScanBegin, ScanList, ScanFinish, Heartbeat, NagProjects, NagGlobal, NagList, NagFinish,
         ScanListFails, NagReadFails, NoReads, Fault
<1>2. ASSUME NEW c \in Checks, ScanDownFails(c) \/ ScanBaselineFails(c) \/ NagRecordFails(c)
      PROVE  TypeOK'
  BY <1>2 DEF ScanDownFails, ScanBaselineFails, NagRecordFails, Fault
<1>3. ASSUME NEW c \in Checks, ScanDown(c) \/ ScanBaseline(c) \/ NagRecord(c)
      PROVE  TypeOK'
  <2>1. /\ set_status(checks[c], "down") \in Row
        /\ begin_down_alert(checks[c], scanNow) \in Row
        /\ record_reminder(checks[c], scanNow) \in Row
    BY DEF set_status, begin_down_alert, record_reminder, Row, Status, Stored, Stamp
  <2>2. checks' \in [Checks -> Row]
    BY <1>3, <2>1, UpdateType DEF ScanDown, ScanBaseline, NagRecord
  <2> QED BY <1>3, <2>2 DEF ScanDown, ScanBaseline, NagRecord
<1> QED
  BY <1>1, <1>2, <1>3 DEF ScanStep, ScanFault

LEMMA TypeNext == TypeOK /\ [Next]_vars => TypeOK'
<1> SUFFICES ASSUME TypeOK, [Next]_vars PROVE TypeOK'
  OBVIOUS
<1>1. CASE Tick
  BY <1>1 DEF Tick, TypeOK, scanVars, levels, nagReads
<1>2. ASSUME NEW r \in Requests, NEW c \in Checks, NEW kind \in Kinds, PingResolve(r, c, kind)
      PROVE  TypeOK'
  <2>1. checks[c] \in Row /\ kind \in PingKind
    BY KindsAssumption DEF TypeOK
  <2>2. [pc |-> "insert", check |-> c, kind |-> kind, now |-> 0,
         snap |-> [status |-> checks[c].status, next_due |-> checks[c].next_due,
                   sched |-> checks[c].sched]] \in Request
    BY <2>1 DEF Request, Snapshot, Row
  <2> QED BY <1>2, <2>2 DEF PingResolve, TypeOK, scanVars, levels, nagReads
<1>3. CASE Crash
  BY <1>3, IdleRequestType, IntervalsAssumption DEF Crash, NoReads, Fault, TypeOK, levels
<1>4. CASE UNCHANGED vars
  BY <1>4 DEF vars, scanVars, levels, nagReads, TypeOK
<1>5. CASE EditLevel
  BY <1>5 DEF EditLevel, scanVars, nagReads, TypeOK
<1> QED
  BY <1>1, <1>2, <1>3, <1>4, <1>5, TypeUser, TypePing, TypeScan DEF Next

\* TypeOK is an invariant of CheckMonitor: no statement of the handlers, the
\* scan loop or the UI takes a row or a task outside its type.
THEOREM TypeCorrect == Spec => []TypeOK
BY TypeInit, TypeNext, PTL DEF Spec
=============================================================================
