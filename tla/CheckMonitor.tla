---------------------------- MODULE CheckMonitor ----------------------------
(***************************************************************************)
(* The monitoring core of pingward: the rows of table `checks`, the ping   *)
(* handler (ping.rs), the scan loop with its nag pass (scheduler.rs) and   *)
(* the operations of the web UI and the JSON API on a check (web.rs,       *)
(* api/v1.rs).                                                             *)
(*                                                                         *)
(* Every SQL statement is one atomic step; between two statements of one   *)
(* task (an .await) any other task may run.  A handler works on the row it *)
(* read first, its snapshot, and writes back without looking again.        *)
(*                                                                         *)
(* Time is a counter of abstract ticks.  A stored timestamp is a tick or   *)
(* NULL.                                                                   *)
(***************************************************************************)
EXTENDS Integers

CONSTANTS
  Checks,     \* ids of checks; an id is never used twice (AUTOINCREMENT)
  Requests,   \* slots for ping requests that are in flight at the same time
  Kinds,      \* the kinds of ping that clients send
  Schedules,  \* the schedules a user may give a check
  Intervals,  \* the nag intervals a project or the settings may have, 0 for none
  MaxTime,    \* bound: the clock stops here
  MaxFaults   \* bound: failed statements, dropped requests and crashes

ASSUME ChecksAssumption == Checks # {}

NULL == -1

(***************************************************************************)
(* A schedule: `every` is period_secs, or the distance of the ticks of the *)
(* cron expression; it is NULL for an expression with no next tick.  `nag` *)
(* is nag_interval_secs, the check's own level of the nag cascade, and 0   *)
(* when that is NULL or not positive; max_runtime is 0 for none.           *)
(***************************************************************************)
Schedule ==
  [kind : {"period", "cron"}, every : (Nat \ {0}) \cup {NULL}, grace : Nat,
   max_runtime : Nat, nag : Nat]

ASSUME SchedulesAssumption == Schedules # {} /\ Schedules \subseteq Schedule
ASSUME IntervalsAssumption == Intervals \subseteq Nat /\ 0 \in Intervals
ASSUME BoundsAssumption    == MaxTime \in Nat /\ MaxFaults \in Nat

Stamp == Nat \cup {NULL}

\* The four values of column `status`, and the two states of an id whose row
\* is not there.
Stored == {"new", "up", "down", "paused"}
Status == Stored \cup {"absent", "deleted"}

\* models.rs, Check: the columns that monitoring reads or writes.
Row ==
  [status : Status, created_at : Nat, last_ping : Stamp, last_start : Stamp,
   next_due : Stamp, last_alert : Stamp, acked : BOOLEAN, sched : Schedules]

PingKind == {"success", "fail", "start", "log"}

ASSUME KindsAssumption == Kinds \subseteq PingKind

\* What ping::apply keeps of the row it resolved.
Snapshot == [status : Status, next_due : Stamp, sched : Schedules]

Request ==
  [pc : {"idle", "insert", "mark", "nag"}, check : Checks, kind : PingKind,
   snap : Snapshot, now : Nat]

VARIABLES
  checks,     \* the rows of table checks
  projectNag, \* nag_interval_secs of each check's project
  globalNag,  \* the setting nag_interval
  req,        \* the ping requests in flight
  scanPc,     \* where the scan loop is
  scanNow,    \* the `now` of its current pass (scan_once) or half pass (nag_once)
  projectRead, globalRead,  \* the two levels as the nag pass has read them
  todo,       \* checks of the listed snapshot that the pass has yet to handle
  cur,        \* the check just set down, its alert baseline still to be written
  events,     \* checks whose event the pass has pushed but not handed to delivery
  clock,
  faults

levels   == <<projectNag, globalNag>>
nagReads == <<projectRead, globalRead>>
scanVars == <<scanPc, scanNow, nagReads, todo, cur, events>>
vars     == <<checks, levels, req, scanVars, clock, faults>>

AnySchedule == CHOOSE s \in Schedules : TRUE
AnyCheck    == CHOOSE c \in Checks : TRUE

EmptyRow(st) ==
  [status |-> st, created_at |-> 0, last_ping |-> NULL, last_start |-> NULL,
   next_due |-> NULL, last_alert |-> NULL, acked |-> FALSE, sched |-> AnySchedule]

IdleRequest ==
  [pc |-> "idle", check |-> AnyCheck, kind |-> "log",
   snap |-> [status |-> "absent", next_due |-> NULL, sched |-> AnySchedule],
   now |-> 0]

TypeOK ==
  /\ checks \in [Checks -> Row]
  /\ req \in [Requests -> Request]
  /\ projectNag \in [Checks -> Intervals] /\ globalNag \in Intervals
  /\ projectRead \in [Checks -> Intervals] /\ globalRead \in Intervals
  /\ scanPc \in {"asleep", "list", "scan", "heartbeat", "nagprojects", "nagglobal", "naglist", "nag"}
  /\ scanNow \in Nat
  /\ todo \subseteq Checks /\ cur \subseteq Checks /\ events \subseteq Checks
  /\ clock \in Nat
  /\ faults \in Nat

-----------------------------------------------------------------------------
(***************************************************************************)
(* scheduler.rs: when a check is late.                                     *)
(***************************************************************************)
anchor(row) == IF row.last_ping = NULL THEN row.created_at ELSE row.last_ping

\* cron::Schedule::after(t).next(): the first tick strictly after t.
NextTick(every, t) == t + every - (t % every)

due_time(row) ==
  LET s == row.sched IN
  IF s.every = NULL THEN NULL
  ELSE IF s.kind = "period" THEN anchor(row) + s.every + s.grace
  ELSE NextTick(s.every, anchor(row)) + s.grace

overrun_time(row) ==
  IF \/ row.sched.max_runtime = 0
     \/ row.last_start = NULL
     \/ row.last_ping # NULL /\ row.last_start <= row.last_ping
  THEN NULL
  ELSE row.last_start + row.sched.max_runtime

\* `opt.is_some_and(|t| now >= t)`
Reached(t, now) == t # NULL /\ now >= t

IsLate(row, now) ==
  /\ row.status \in {"new", "up"}
  /\ Reached(due_time(row), now) \/ Reached(overrun_time(row), now)

\* config.rs: the first positive level of check, project and global; else 0.
effective_nag_interval(own, project, global) ==
  IF own > 0 THEN own ELSE IF project > 0 THEN project ELSE global

\* Mutant: the interval is only tested for being there.
NagDueAtOnce(row, interval, now) ==
  /\ row.status = "down" /\ ~row.acked
  /\ interval > 0 /\ row.last_alert # NULL
  /\ now >= row.last_alert

\* Mutant: a reminder on the very second of its deadline waits.
NagDueLate(row, interval, now) ==
  /\ row.status = "down" /\ ~row.acked
  /\ interval > 0 /\ row.last_alert # NULL
  /\ now > row.last_alert + interval

\* nag_once's conditions on a listed row.
NagDue(row, interval, now) ==
  /\ row.status = "down"
  /\ ~row.acked
  /\ interval > 0
  /\ row.last_alert # NULL
  /\ now >= row.last_alert + interval

-----------------------------------------------------------------------------
(***************************************************************************)
(* store.rs: each UPDATE as the row it leaves behind.                      *)
(***************************************************************************)
\* Mutant: mark_ping without the COALESCE.
NoCoalesce(new, old) == new

coalesce(new, old) == IF new = NULL THEN old ELSE new

mark_ping(row, status, last_ping, last_start, next_due) ==
  [row EXCEPT !.status = status,
              !.last_ping = coalesce(last_ping, @),
              !.last_start = coalesce(last_start, @),
              !.next_due = next_due]

\* Mutant: begin_down_alert without `acknowledged = 0`.
BeginKeepsAck(row, at) == [row EXCEPT !.last_alert = at]

set_status(row, status)   == [row EXCEPT !.status = status]
begin_down_alert(row, at) == [row EXCEPT !.last_alert = at, !.acked = FALSE]
record_reminder(row, at)  == [row EXCEPT !.last_alert = at]
clear_nag(row)            == [row EXCEPT !.last_alert = NULL, !.acked = FALSE]
acknowledge(row)          == [row EXCEPT !.acked = TRUE]
update_check_schedule(row, s) == [row EXCEPT !.sched = s]

Exists(c) == checks[c].status \in Stored

\* UPDATE checks ... WHERE id = c: no row, no effect, and no error.
Update(c, row) ==
  checks' = IF Exists(c) THEN [checks EXCEPT ![c] = row] ELSE checks

Fault == faults < MaxFaults /\ faults' = faults + 1

-----------------------------------------------------------------------------
(***************************************************************************)
(* The operations of the UI and the API.  Each resolves the check it was   *)
(* asked for and then runs one statement, without a look at `status`.      *)
(***************************************************************************)
CreateCheck(c, s) ==
  /\ checks[c].status = "absent"
  /\ checks' = [checks EXCEPT ![c] =
       [EmptyRow("new") EXCEPT !.created_at = clock, !.sched = s]]
  /\ UNCHANGED <<levels, req, scanVars, clock, faults>>

DeleteCheck(c) ==
  /\ Exists(c)
  /\ checks' = [checks EXCEPT ![c] = EmptyRow("deleted")]
  /\ UNCHANGED <<levels, req, scanVars, clock, faults>>

PauseCheck(c) ==
  /\ Exists(c)
  /\ Update(c, set_status(checks[c], "paused"))
  /\ UNCHANGED <<levels, req, scanVars, clock, faults>>

ResumeCheck(c) ==
  /\ Exists(c)
  /\ Update(c, set_status(checks[c], "new"))
  /\ UNCHANGED <<levels, req, scanVars, clock, faults>>

AckCheck(c) ==
  /\ Exists(c)
  /\ Update(c, acknowledge(checks[c]))
  /\ UNCHANGED <<levels, req, scanVars, clock, faults>>

UpdateCheck(c, s) ==
  /\ Exists(c)
  /\ Update(c, update_check_schedule(checks[c], s))
  /\ UNCHANGED <<levels, req, scanVars, clock, faults>>

UserOp(c) ==
  \/ DeleteCheck(c)
  \/ PauseCheck(c)
  \/ ResumeCheck(c)
  \/ AckCheck(c)
  \/ \E s \in Schedules : CreateCheck(c, s) \/ UpdateCheck(c, s)

\* project_update and settings_save: a level of the nag cascade is edited; no
\* row of `checks` is written.
EditLevel ==
  /\ \E n \in Intervals :
       \/ globalNag' = n /\ UNCHANGED projectNag
       \/ \E c \in Checks : projectNag' = [projectNag EXCEPT ![c] = n] /\ UNCHANGED globalNag
  /\ UNCHANGED <<checks, req, scanVars, clock, faults>>

-----------------------------------------------------------------------------
(***************************************************************************)
(* ping.rs: one request, from resolve to the spawned delivery.             *)
(***************************************************************************)
\* resolve(): an unknown uuid is a 404, which changes nothing.  Exit codes are
\* a success (0) or a fail (any other) from here on.
PingResolve(r, c, kind) ==
  /\ req[r].pc = "idle"
  /\ Exists(c)
  /\ req' = [req EXCEPT ![r] =
       [pc |-> "insert", check |-> c, kind |-> kind, now |-> 0,
        snap |-> [status |-> checks[c].status, next_due |-> checks[c].next_due,
                  sched |-> checks[c].sched]]]
  /\ UNCHANGED <<checks, levels, scanVars, clock, faults>>

\* Mutant: no early return for a paused check.
InsertIgnoresPause(r) ==
  /\ req[r].pc = "insert"
  /\ req' = [req EXCEPT ![r] =
       IF ~Exists(req[r].check) \/ req[r].kind = "log"
       THEN IdleRequest
       ELSE [req[r] EXCEPT !.pc = "mark", !.now = clock]]
  /\ UNCHANGED <<checks, levels, scanVars, clock, faults>>

\* now = Utc::now(), insert_ping, and the early return of a paused check.  The
\* foreign key refuses the ping of a check deleted meanwhile.
PingInsert(r) ==
  /\ req[r].pc = "insert"
  /\ req' = [req EXCEPT ![r] =
       IF \/ ~Exists(req[r].check)
          \/ req[r].snap.status = "paused"
          \/ req[r].kind = "log"
       THEN IdleRequest
       ELSE [req[r] EXCEPT !.pc = "mark", !.now = clock]]
  /\ UNCHANGED <<checks, levels, scanVars, clock, faults>>

\* Mutant: the deadline of a success is computed before last_ping is updated.
MarkedFromOldAnchor(row, q) ==
  CASE q.kind = "success" ->
         mark_ping(row, "up", q.now, NULL, due_time([row EXCEPT !.sched = q.snap.sched]))
    [] q.kind = "fail"  -> mark_ping(row, "down", q.now, NULL, NULL)
    [] q.kind = "start" -> mark_ping(row, q.snap.status, NULL, q.now, q.snap.next_due)
    [] OTHER            -> row

\* The row mark_ping writes: only next_due and, for a start, status come from
\* the snapshot; due_time is that of the snapshot with this ping as its last.
PingMarked(row, q) ==
  CASE q.kind = "success" ->
         mark_ping(row, "up", q.now, NULL,
                   due_time([EmptyRow("up") EXCEPT !.last_ping = q.now, !.sched = q.snap.sched]))
    [] q.kind = "fail"  -> mark_ping(row, "down", q.now, NULL, NULL)
    [] q.kind = "start" -> mark_ping(row, q.snap.status, NULL, q.now, q.snap.next_due)
    [] OTHER            -> row

\* Mutants: the first fail of a new check is not announced; every fail is.
FailureOfUpOnly(q) == q.kind = "fail" /\ q.snap.status = "up"
FailureAlways(q)   == q.kind = "fail"

\* The transitions that are announced, judged by the snapshot's status.
IsRecovery(q) == q.kind = "success" /\ q.snap.status = "down"
IsFailure(q)  == q.kind = "fail" /\ q.snap.status \in {"up", "new"}

PingMark(r) ==
  LET q == req[r] IN
  /\ q.pc = "mark"
  /\ Update(q.check, PingMarked(checks[q.check], q))
  /\ req' = [req EXCEPT ![r] =
       IF IsRecovery(q) \/ IsFailure(q) THEN [q EXCEPT !.pc = "nag"] ELSE IdleRequest]
  /\ UNCHANGED <<levels, scanVars, clock, faults>>

PingNagged(row, q) ==
  IF IsRecovery(q) THEN clear_nag(row) ELSE begin_down_alert(row, q.now)

\* clear_nag or begin_down_alert, then spawn_delivery.
PingNag(r) ==
  LET q == req[r] IN
  /\ q.pc = "nag"
  /\ Update(q.check, PingNagged(checks[q.check], q))
  /\ req' = [req EXCEPT ![r] = IdleRequest]
  /\ UNCHANGED <<levels, scanVars, clock, faults>>

PingStep(r) == PingInsert(r) \/ PingMark(r) \/ PingNag(r)

\* The next statement fails (`?` answers 500), or the client hangs up and the
\* server drops the handler at its await; the last statement may then have
\* been applied, with nobody left to spawn the delivery.
PingDrop(r) ==
  LET q == req[r] IN
  /\ q.pc # "idle"
  /\ Fault
  /\ \/ UNCHANGED checks
     \/ q.pc = "nag" /\ Update(q.check, PingNagged(checks[q.check], q))
  /\ req' = [req EXCEPT ![r] = IdleRequest]
  /\ UNCHANGED <<levels, scanVars, clock>>

-----------------------------------------------------------------------------
(***************************************************************************)
(* scheduler.rs: the scan loop.                                            *)
(***************************************************************************)
ScanBegin ==
  /\ scanPc = "asleep"
  /\ scanPc' = "list"
  /\ scanNow' = clock
  /\ UNCHANGED <<checks, levels, req, nagReads, todo, cur, events, clock, faults>>

\* Mutant: the list leaves out the checks that were never pinged.
ListUpOnly ==
  /\ scanPc = "list"
  /\ scanPc' = "scan"
  /\ todo' = {c \in Checks : checks[c].status = "up" /\ IsLate(checks[c], scanNow)}
  /\ UNCHANGED <<checks, levels, req, nagReads, scanNow, cur, events, clock, faults>>

\* list_active_checks, and the pass's decision on each row of the list.
ScanList ==
  /\ scanPc = "list"
  /\ scanPc' = "scan"
  /\ todo' = {c \in Checks : IsLate(checks[c], scanNow)}
  /\ UNCHANGED <<checks, levels, req, nagReads, scanNow, cur, events, clock, faults>>

\* A query before the loop fails: scan_once returns the error, which is logged.
ScanListFails ==
  /\ scanPc = "list"
  /\ Fault
  /\ scanPc' = "heartbeat"
  /\ UNCHANGED <<checks, levels, req, nagReads, scanNow, todo, cur, events, clock>>

ScanDown(c) ==
  /\ scanPc = "scan" /\ cur = {} /\ c \in todo
  /\ Update(c, set_status(checks[c], "down"))
  /\ todo' = todo \ {c}
  /\ cur' = {c}
  /\ UNCHANGED <<levels, req, nagReads, scanPc, scanNow, events, clock, faults>>

\* set_status fails: this check is skipped until the next pass.
ScanDownFails(c) ==
  /\ scanPc = "scan" /\ cur = {} /\ c \in todo
  /\ Fault
  /\ todo' = todo \ {c}
  /\ UNCHANGED <<checks, levels, req, nagReads, scanPc, scanNow, cur, events, clock>>

ScanBaseline(c) ==
  /\ scanPc = "scan" /\ c \in cur
  /\ Update(c, begin_down_alert(checks[c], scanNow))
  /\ cur' = {}
  /\ events' = events \cup {c}
  /\ UNCHANGED <<levels, req, nagReads, scanPc, scanNow, todo, clock, faults>>

\* begin_down_alert fails: logged, and the Down event is pushed all the same.
ScanBaselineFails(c) ==
  /\ scanPc = "scan" /\ c \in cur
  /\ Fault
  /\ cur' = {}
  /\ events' = events \cup {c}
  /\ UNCHANGED <<checks, levels, req, nagReads, scanPc, scanNow, todo, clock>>

\* Mutant: the vector of events is not emptied between passes.
FinishKeepsEvents ==
  /\ scanPc = "scan" /\ todo = {} /\ cur = {}
  /\ scanPc' = "heartbeat"
  /\ UNCHANGED <<checks, levels, req, nagReads, scanNow, todo, cur, events, clock, faults>>

\* scan_once returns and spawn_deliveries takes its events.
ScanFinish ==
  /\ scanPc = "scan" /\ todo = {} /\ cur = {}
  /\ events' = {}
  /\ scanPc' = "heartbeat"
  /\ UNCHANGED <<checks, levels, req, nagReads, scanNow, todo, cur, clock, faults>>

\* set_setting("last_scan_at"), which only /admin reads and whose failure is
\* dropped, then nag_once(Utc::now()).
Heartbeat ==
  /\ scanPc = "heartbeat"
  /\ scanPc' = "nagprojects"
  /\ scanNow' = clock
  /\ UNCHANGED <<checks, levels, req, nagReads, todo, cur, events, clock, faults>>

\* all_project_nag_intervals
NagProjects ==
  /\ scanPc = "nagprojects"
  /\ scanPc' = "nagglobal"
  /\ projectRead' = projectNag
  /\ UNCHANGED <<checks, levels, req, scanNow, globalRead, todo, cur, events, clock, faults>>

\* get_setting("nag_interval")
NagGlobal ==
  /\ scanPc = "nagglobal"
  /\ scanPc' = "naglist"
  /\ globalRead' = globalNag
  /\ UNCHANGED <<checks, levels, req, scanNow, projectRead, todo, cur, events, clock, faults>>

\* The interval of c by the row as it is and the levels that the pass has read.
ReadInterval(c) == effective_nag_interval(checks[c].sched.nag, projectRead[c], globalRead)

\* list_down_checks, and the pass's decision on each row of the list.
NagList ==
  /\ scanPc = "naglist"
  /\ scanPc' = "nag"
  /\ todo' = {c \in Checks : NagDue(checks[c], ReadInterval(c), scanNow)}
  /\ UNCHANGED <<checks, levels, req, scanNow, nagReads, cur, events, clock, faults>>

NoReads == projectRead' = [c \in Checks |-> 0] /\ globalRead' = 0

\* A query before the loop fails: nag_once returns the error, which is logged.
NagReadFails ==
  /\ scanPc \in {"nagprojects", "nagglobal", "naglist"}
  /\ Fault
  /\ scanPc' = "asleep"
  /\ scanNow' = 0
  /\ NoReads
  /\ UNCHANGED <<checks, levels, req, todo, cur, events, clock>>

NagRecord(c) ==
  /\ scanPc = "nag" /\ c \in todo
  /\ Update(c, record_reminder(checks[c], scanNow))
  /\ todo' = todo \ {c}
  /\ events' = events \cup {c}
  /\ UNCHANGED <<levels, req, nagReads, scanPc, scanNow, cur, clock, faults>>

\* record_reminder fails: no reminder for this check in this pass.
NagRecordFails(c) ==
  /\ scanPc = "nag" /\ c \in todo
  /\ Fault
  /\ todo' = todo \ {c}
  /\ UNCHANGED <<checks, levels, req, nagReads, scanPc, scanNow, cur, events, clock>>

\* The reminders are handed to delivery and the loop sleeps; the length of the
\* sleep is left open.
NagFinish ==
  /\ scanPc = "nag" /\ todo = {}
  /\ events' = {}
  /\ scanPc' = "asleep"
  /\ scanNow' = 0
  /\ NoReads
  /\ UNCHANGED <<checks, levels, req, todo, cur, clock, faults>>

ScanStep ==
  \/ ScanBegin \/ ScanList \/ ScanFinish
  \/ Heartbeat \/ NagProjects \/ NagGlobal \/ NagList \/ NagFinish
  \/ \E c \in Checks : ScanDown(c) \/ ScanBaseline(c) \/ NagRecord(c)

ScanFault ==
  \/ ScanListFails \/ NagReadFails
  \/ \E c \in Checks : ScanDownFails(c) \/ ScanBaselineFails(c) \/ NagRecordFails(c)

\* The process dies and is started again: every task is gone, and with it the
\* events a pass had collected.  The rows stay.
Crash ==
  /\ Fault
  /\ req' = [r \in Requests |-> IdleRequest]
  /\ scanPc' = "asleep" /\ scanNow' = 0
  /\ NoReads
  /\ todo' = {} /\ cur' = {} /\ events' = {}
  /\ UNCHANGED <<checks, levels, clock>>

Tick ==
  /\ clock < MaxTime
  /\ clock' = clock + 1
  /\ UNCHANGED <<checks, levels, req, scanVars, faults>>

-----------------------------------------------------------------------------
Init ==
  /\ checks = [c \in Checks |-> EmptyRow("absent")]
  /\ req = [r \in Requests |-> IdleRequest]
  /\ projectNag = [c \in Checks |-> 0] /\ globalNag = 0
  /\ projectRead = [c \in Checks |-> 0] /\ globalRead = 0
  /\ scanPc = "asleep" /\ scanNow = 0
  /\ todo = {} /\ cur = {} /\ events = {}
  /\ clock = 0
  /\ faults = 0

Next ==
  \/ Tick
  \/ \E c \in Checks : UserOp(c)
  \/ EditLevel
  \/ \E r \in Requests, c \in Checks, kind \in Kinds : PingResolve(r, c, kind)
  \/ \E r \in Requests : PingStep(r) \/ PingDrop(r)
  \/ ScanStep
  \/ ScanFault
  \/ Crash

Spec == Init /\ [][Next]_vars

-----------------------------------------------------------------------------
(***************************************************************************)
(* Liveness, under the fairness that CheckAlerts states; the safety of the *)
(* alerts is stated there too.                                             *)
(***************************************************************************)
\* A check past its deadline does not stay active: the scan loop downs it,
\* unless a ping, a new schedule, a pause or a deletion comes first.
LateIsHandled == \A c \in Checks : IsLate(checks[c], clock) ~> ~IsLate(checks[c], clock)

-----------------------------------------------------------------------------
(***************************************************************************)
(* What a comment of the code says, and the code does not keep.            *)
(***************************************************************************)
\* ping.rs: "A paused check's ping is recorded but must not move it to up/down."
PausedNotMoved ==
  [][\A c \in Checks :
       checks[c].status = "paused" => checks'[c].status \notin {"up", "down"}]_vars
=============================================================================
