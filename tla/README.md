# pingward in TLA+

pingward (Rust, axum, SQLite or Postgres) watches recurring jobs: a job pings the
URL of its *check*, and when a ping is overdue or reports a failure the check goes
*down* and its channels are notified. This directory holds TLA+ models of the
program, the TLC configurations that check them on small instances, and proofs
that TLAPS checks for every instance. Definitions keep the names of the source
(`due_time`, `mark_ping`, `begin_down_alert`, ...), and `PROJECT.json` maps each
one to the lines it models.

Run inside this directory: `tlc -workers 2 -config X.cfg MCModule` for a run of
`PROJECT.json` (the longest takes about three minutes), `tlapm ModuleProofs.tla` for
the proofs.

## The system

Everything runs in one process on the tokio runtime, over one SQL pool. There is
no lock and no transaction around monitoring: each SQL statement is atomic, and
between two statements of one task (an `.await`) any other task may run.

| Component | State | Operations | Interacts with | What makes it correct |
|---|---|---|---|---|
| Check rows (`models.rs`, `store.rs`) | status, last ping/start, next due, last alert, acknowledged, schedule | one UPDATE per operation, keyed by id | everything below | a row agrees with what the channels were told |
| Ping endpoint (`ping.rs`) | the row read by `resolve`, kept to the end of the request | resolve, insert_ping, mark_ping, clear_nag / begin_down_alert, spawn_delivery | rows, delivery, live tail | each transition is announced once; a pause holds |
| Scan loop (`scheduler.rs`) | the rows listed at the start of the pass, the events collected so far | scan_once, heartbeat, nag_once, sleep | rows, delivery, live tail, shutdown | a late check is handled, reminders are due and wanted |
| Check operations (`web.rs`, `api/v1.rs`) | none | create, edit, delete, pause, resume, acknowledge, regenerate, bind | rows, channels | acknowledgement and pause mean what they say |
| Delivery (`notify.rs`) | the channels listed, attempts per channel, table notifications | deliver_event, send_with_retry, record_notification | channels, shutdown | every usable channel is tried, every outcome recorded, copies bounded |
| Projects, channels, access (`web.rs`, `api/v1.rs`, `store.rs`) | projects, checks, channels, bindings, audit log | create, edit, delete, bind, test | three surfaces over the same rows: owner, admin, API | nobody reaches a stranger's rows, an admin leaves a trace, bindings stay inside a project |
| Accounts (`web.rs`, `auth.rs`) | users, roles, disabled, API keys | setup, create, delete, promote, disable, password | sessions, elevations | an enabled administrator remains; old sessions end |
| Sessions (`auth.rs`, `store.rs`) | sessions | login, forward auth, renewal, revocation, sweeps | accounts, prune loop | no use after revocation or past the cap; use keeps a session alive |
| Elevation (`elevate.rs`) | windows in memory, per session handle | unlock, lapse, revoke | sessions | a window ends with a session that is ended; when the session expires it is left to its TTL |
| Rate limiter (`ratelimit.rs`) | attempts per key and window, overflow bucket | try_acquire, release, clear | login, and the password asked again for unlock, password change and API keys | never more guesses than the limit |
| Retention (`prune.rs`, `settings_save`) | pings, notifications, audit, settings | prune_once, settings_save | sessions | exactly the old rows go; a changed setting is on record as long as the audit log is |
| Shutdown (`shutdown.rs`, `main.rs`) | one flag | trigger, drain, join, close | both loops, server, deliveries | loops end before the pool closes; the process ends |
| Live tail (`state.rs`, `web.rs`, `app.js`) | broadcast channel, the page's timer and loads | send, receive, lag, load | ping, scan | a viewer that lags catches up once changes pause |
| History pages (`store.rs`, `web.rs`) | cursor | keyset_page | pruning | no row that was there is skipped |

Formatting (templates, markdown, DTOs, assets), the channel drivers' HTTP and SMTP,
and start-up (environment, secrets, migrations) carry no state of interest and are
not modelled.

The hardest part is the combination of the second and third row of the table with
everything else that writes a check: both act on a row they read earlier, in up to
three statements, and hand over an event at the end. A ping, the scan loop, a user,
a failing statement, a client that hangs up (the handler is dropped at its await)
or a crash can come between any two of these. The same shape returns on a smaller
scale in every handler of several statements: bind_channels, channel_update,
settings_save, the user management, the renewal of a session. All hazards are listed
in `PROJECT.json`, each at its line.

## Modules

`CheckMonitor` is the program: the check rows, ping requests, the scan loop with its
nag pass, and the users' operations. It has one action per SQL statement.

| State | In the code |
|---|---|
| `checks[c]` | the row; an id is `absent` before its INSERT and `deleted` for good after its DELETE (ids are AUTOINCREMENT) |
| `req[r]` | a ping request: program counter, the snapshot `resolve` returned, `now` |
| `scanPc`, `scanNow`, `todo`, `cur`, `events` | where the pass is, its `now`, the listed checks still to handle, the check between set_status and begin_down_alert, the events pushed |
| `projectNag`, `globalNag`; `projectRead`, `globalRead` | the two upper levels of the nag cascade; the levels as the nag pass has read them |
| `clock`, `faults` | abstract time; failed statements, dropped requests and crashes so far |

`PingInsert`, `PingMark`, `PingNag` are the three statements of `apply`;
`ScanBegin` ... `NagFinish` the statements of a pass in their order; every `?` and
`if let Err` is an action of its own (`...Fails`, `PingDrop`). An action that lists
rows (`ScanList`, `NagList`) also takes the pass's decision about each of them,
because the decision depends only on the listed row and on what the pass has read
before; the writes come later, one at a time. A user's operation is one action: it reads only to find
out whether the row exists, so nothing it read can be stale. Time is a counter;
`created_at` and the rest are ticks or `NULL`. A cron expression ticks every
`every` ticks (`NextTick`, the cron crate's `after().next()`); time zones are left
out. The nag interval is a cascade: `nag` in the check's schedule, then `projectNag`,
then `globalNag` (`effective_nag_interval`). The nag pass reads the projects, the
setting and the rows in three queries (`NagProjects`, `NagGlobal`, `NagList`), and
`EditLevel` may change a level between them. `validate_check` is why `Schedule` has positive periods only.

`CheckAlerts` adds four history variables and the properties. `told[c]` is the last
of Down and Up handed to delivery since the last pause or resume, `heard[c]` the time of
the last Down or Reminder handed over, `earned[c]` the schedule that was in the row when
the last success was marked. `disturbed[c]` becomes true, for good, when a write lands inside another task's window on `c`
(between the read of a row and the last write or event that rests on it), when a
task is cut off between its first write and its event, or when begin_down_alert
fails in the scan. Such a check can be wrong, and the code makes no attempt to
prevent it: `AlertsAgree` and the rest say that these are the *only* ways to go
wrong. The distinction is what a reviewer of `ping.rs` needs: the snapshots are safe
as long as no one writes in between, and each hazard is a named way of doing so.
`HistoryOnly` (proved) says that the four variables only watch.

The same device returns in other modules, and has the same limit everywhere. `disturbed`,
`touched` (Workspace), `raced`, `stray` and `expired` (Accounts), `late` (RateLimiter),
`stale` and `clean` (Retention) mark what a race, a cut-off or a failure has already spoilt.
A property that excuses the mark *bounds* the race: it shows that nothing else goes wrong
and that nothing outside the marked row is affected. It does not show the race to be
harmless, and the section on disagreements says what the races do.

`Workspace` is the ownership model: projects, checks, channels, bindings, and every
handler of the owner's pages, the pages under `/admin` and the JSON API that reads or
writes them. A resolver (`owned_project`, `owned_check`, the admin resolvers, the API's)
is an operator that says which callers get past it, and every handler names its
resolver and what it audits, as in the code. Handlers of one write are one
step; `check_create_core`, `bind_channels` and `channel_update` are split statement by
statement, because what they read can change under them. Of a channel's configuration
one credential is kept: enough for `merged` (a blank field keeps what is stored) and
`channel_config` (the box `ntfy_token_clear` drops an optional token, and a required
credential may not end up empty). The stored JSON of a channel in `Fragile` may be spoilt
by hand (`HandEdit`); it then counts as empty (`StoredConfig`). Histories: `owed` (the
channels a new check should have), `given` (the credentials a channel may have by what was
submitted for it: the last one, and those that edits then in flight had read), `last` (what
the last step did, to which project, by what right), `touched` (what others wrote meanwhile).

`Accounts` has users, sessions, elevations and API keys, and the handlers that create
and end them, statement by statement: the extractor's read, the read of the target,
the write, `delete_sessions_for_user`, `revoke_user`. A request may be dropped after
any of them and the process restarted. Passwords are an `epoch`, raised when the account is
disabled or its password changes; a session remembers the epoch of the credentials
it was opened with. There is no clock: a session may expire (its row is reaped by the prune
pass or the owner's account page) and an elevation lapse at any time. Handlers that end a session close its window;
expiry does not, and leaves it to its TTL, which `expired` remembers.

`Sessions` is the clock side of the same rows: `refreshed_expiry`, the cap, and a request
that takes its time, reads the row and writes the renewal later. A row may come from
another build with another idle window. `last_seen_at` is left out: it is shown, not tested.

`RateLimiter` is `ratelimit.rs`: two limiters with the same map, one of which refunds a
success (`release`) and one of which forgets the key (`clear`). `rate_limit_key` takes the
address of the peer, or the last hop a trusted proxy wrote; a hop that does not parse falls
back to the peer and a request without a peer to loopback. `tries` counts what was
really admitted, `late` the refunds that hit a bucket which had not paid.

`Delivery` has the delivery tasks, the channels they meet and the process around them:
requests, both loops (which may panic), the flag, `main`. Channels are edited, unbound and
deleted, the check may be deleted, and old rows are pruned. `Mail` are the channels whose
driver has no timeout. `Outbox` is the abstract specification: copies
and rows per event and channel, as seen from outside. `Delivery` implements it with
`copies` and `row` as they are (`KeepsThePromise`).

`Retention` follows one row per table through prune passes, query by query, and
settings that are saved key by key. `traced` is the day of the audit entry for the latest
change of a setting; the pass deletes it like any row of the audit log. `last` and `windows`
remember when the setting changed and which audit retentions have been in force since.
`History` walks keyset pages over ids that become
visible out of order. `LiveTail` has the bus, the event stream and the script of the page:
every message starts the 500 ms timer again (`onmessage`), so a message may always come
before the load, and a load may fail, be overtaken, or put an error page in the section.

`CheckMonitor` hands an event over in one step and `Delivery` takes it from there: what
connects them is the event, and no property relates the rest. In the same way
`Accounts` decides who opens and ends sessions and `Sessions` how long they last.

The `MC` modules supply constants, symmetry and constraints for TLC. `MCUpkeep` and
`MCHistory` hold two specifications each, which share no variable; `part` explores one at a
time (and `MCUpkeep` two sides of `Retention` apart). The proofs are in modules of their own: `CheckMonitorProofs`, `CheckAlertsProofs`,
`WorkspaceProofs`, `AccountsProofs`, `RateLimiterProofs`, `DeliveryProofs`, `UpkeepProofs`
(`Sessions` and `Retention`) and `HistoryProofs` (`History` and `LiveTail`). An operator whose comment begins with *Mutant* is a plausible bug in the
definition that follows it; no specification uses it, and `PROJECT.json` names the
property that catches it.

## Runs

| Run | Instance | Shows |
|---|---|---|
| `alerts` | 1 check, 2 requests (symmetric), success/fail/start, ticks 0..1, 1 fault; 656 thousand states | the inductive invariant `HInv`, `AlertsAgree`, `AlertsAreNews`, and the action properties `PausedUntilResumed`, `LastPingAdvances` |
| `alerts_time` | 1 check, 1 request, success/start, ticks 0..2, a period and a cron schedule to switch between, project and global nag interval 0 or 1, 1 fault; 2.7 million states | `IncidentStartsFresh`, `RemindersDeserved`, `NextDueIsEarned` |
| `liveness` | 1 check, 1 request, success/fail/start, ticks 0..1, 1 fault; 472 thousand states | `LateIsHandled`, `NagDueIsHandled`, `UndisturbedDownIsAnnounced` |
| `crash_before_alert` | nagging off, no pings, 1 fault | `DownIsAnnounced` is violated |
| `paused_not_moved` | 1 request, no fault | `PausedNotMoved` is violated |
| `workspace` | 2 users, 2 projects, 1 check, 2 channels that may be edited by hand, 1 split handler | `AccessIsEarned`, `ForeignChangeIsAudited`, `BindingsInProject`, `WorkspaceInv` |
| `bindings` | 1 user, 1 project, 1 check, 2 channels with an optional token, 2 split handlers | `OwedAreBound`, `SavedAsSubmitted`, `CredentialsAreSubmitted` |
| `accounts` | 2 users, 1 session, 1 key, 2 handlers, 1 new epoch per user; 792 thousand states | `RevokedSessionsAreGone`, `WindowsEndWithSessions`, `LastAdminLostByStaleActor`, `AccountsInv` |
| `ratelimit` | 2 keys (one is loopback) and the proxy, 2 attempts, limit 2, a map for 1 key, window 2, ticks 0..3 | `GuessesAreBounded`, `ChargedToTheClient`, `LiveCountersStay`, `LimiterInv` |
| `delivery` | 1 event, 2 channels, one of them e-mail, 1 request, 2 attempts; 782 thousand states | `EveryChannelIsTried`, `LoopsMeetAnOpenPool`, the refinement `KeepsThePromise`, `DeliveriesEnd`, `ShutdownEnds`, `DeliveryInv` |
| `upkeep` | 1 session, 2 requests, half window 2, cap 6, ticks 0..8; 2 tables, one of them the audit log, 2 saves, days 0..2; 2.5 million states | `ExpiryTracksUse`, `SweptWereDead`, `PassIsExact`, `ChangesLeaveATrace` |
| `history` | 4 ids, page size 1, 2 filters; capacity 2, 2 loads, 3 changes; 275 thousand states | `NothingIsSkipped`, `WalkIsComplete`, `TailShowsLatest`, `TailCatchesUp` |

Bounds. Checks interact only through the pass that lists them together, and no
property relates two checks, so TLC gets one check; the proofs cover any number.
Two requests are enough for every pairwise race, and the scan loop and the user
are two more actors. In the schedule `Tight` everything falls due after one tick, so
that ticks 0..1 already hold an overdue check, an overrun, a reminder and two pings
at different times; `alerts_time` adds grace, cron, schedule edits and a second
reminder, and intervals edited between the reads of a nag pass. One fault means one failed statement, dropped request or crash anywhere.
`SomeUndisturbed` stops exploring once the only check is disturbed, since nothing is
claimed of it from then on (not used for liveness).

In `workspace` two users and two projects give an owner, a stranger and an admin in
every combination; the second channel is there so that bindings can be wrong; a VIEW
leaves out `last`, which no guard reads. `bindings` lets two handlers of several
statements meet; one credential value beside "none" is enough to lose or to bring back one. In `accounts` one session id is reused once nothing refers to it, two
handlers give every pair of racing requests (an administrator against another, a login
against a reset), one epoch a session that is too old; `KeysApart` explores API keys
with one handler only, since all they meet is the deletion of their user. In `ratelimit` the
map is full with one key, so the second one overflows; two attempts in flight, taken
again and again, exceed the limit, and a window and a half lets a refund come late
(`FewLate` stops after the second of them). In `delivery` channels are deleted, unbound,
unusable or failing at any point; two attempts are one retry; events share nothing but
channels, so one is enough. In `upkeep` the session lives through renewal, clamp, cap and sweep
within eight ticks; a request may stall for half an idle window (the window is
counted in hours, so no request comes near it; with a longer stall a late renewal could
shorten another's). 3 stands for a number of days beyond what
chrono can subtract. `Bounds` keeps apart what need not be multiplied: in "rows" a pass
meets rows and one save, in "trail" two saves meet each other, and a pass the entries they
leave. In `history` a page size of 1 makes every row a page border; two
loads are enough to overtake each other, and a bus of two signals to lag.
Deadlock checking is off where bounds or the end of the process stop the model for good.

Fairness. `HFairSpec` is weakly fair to the scan loop and to each request that has
begun: tokio polls every task that is ready, and no task waits for another. It
promises nothing about clients, users, faults or the clock; the sleep between passes
is taken to end. Under it a late check is handled although queries may fail, and a
Down that was written leads to an event unless the window was broken or cut off. A due
reminder (`NagDueIsHandled`) is owed until it is handed to delivery: recording it in the
row is not enough, and one lost between `record_reminder` and `spawn_deliveries` counts
as cut off.

`Delivery` is weakly fair to the steps of a task that are known to return: a query returns
or fails, and the HTTP client has a timeout of 10 s (`notify.rs:148`). The e-mail driver
sets none and none is put around it (`notify.rs:621-655`), so nothing is assumed of a send
to a channel in `Mail`: `DeliveriesEnd` has the condition that no mail server keeps a send
waiting for ever (`[]<>~InMail(e)`), and without it is false. It is also fair to both loops (their sleeps
end) and to `main`, whose waits all have a timer except the join of the loops. Nothing is assumed of
requests and users: a live tail may stay open for ever, and the process still ends.
`LiveTail` is weakly fair to the stream, to time (a timer left alone runs out), to a
callback that stays due, and to the requests of the page (which frees their slots). None of
this keeps the next message from starting the timer again: `TailCatchesUp` has the condition
that messages do not for ever come within 500 ms of one another (`<>[][~PutOff]`), and
without it is false. A busy check, or a bus that lags again and again over the
signals of others, starves the load as long as it lasts.

## Where code and text disagree

* `paused_not_moved`: a comment in `ping.rs` says "A paused check's ping is recorded
  but must not move it to up/down." The test is made on the snapshot: resolve, then
  the user pauses, then `mark_ping` writes `up`.
* `crash_before_alert`: ARCHITECTURE.md calls the loop "stateless across restarts
  (every pass recomputes from the DB)". The events of a pass are state: `scan_once`
  commits `down` for each check and the events leave only when it returns. After a
  crash in between, later passes list only `new` and `up` checks, so the incident is
  never announced; with nagging off (the default), or without the baseline, nag_once
  does not make up for it.

What the models allow and the code accepts, or a comment overlooks, without a promise
that is broken:

* Two administrators who act on each other at the same moment can leave none. The guard
  `count_enabled_admins` is commented "Unreachable (the actor is another enabled
  admin)"; it is reached when the actor was demoted after the extractor read it, and
  it does not exclude the race. `LastAdminLostByStaleActor` says that this is the only way.
* Two racing first visitors both become administrators; the code says so.
* A login that has verified its password just before the account is disabled still opens
  its session. `resolve_user` refuses a disabled user, but enabling the account again
  revives it (`raced` in `RevokedSessionsAreGone`).
* "Shortening the window leaves a trace", as long as the audit retention leaves it, and for
  saves whose comparison was not overtaken by another and that reach their audit entry.
* A blank credential field keeps what the edit had read, not what is stored by then: an edit
  that read a token before it was replaced or cleared brings it back
  (`CredentialsAreSubmitted` says that nothing else does).
* A mail server that accepts the connection and then says nothing holds up a delivery, and
  the channels listed after it, until the process ends.
* A loop that panics stays dead until the shutdown; nothing else notices.
* An elevation outlives a session that expires, until its TTL; the handle cannot be used.
* Down and Up of one check are delivered by tasks that nothing orders; a shutdown cuts
  deliveries off, and a retry after a timeout may deliver twice.
* A row with an expiry past its cap keeps it (the cap ends it anyway).
* A page reached by a newer link always offers an older one, which may be empty.
* Answers of two loads may replace each other in the wrong order in `app.js`, and the page of
  an HTTP error replaces the section like any answer. `TailShowsLatest` therefore speaks of
  what has been shown, and of loads that did not fail.

## Proofs

**Monitoring** (`CheckMonitorProofs`, `CheckAlertsProofs`). For any sets of checks, requests, kinds and schedules and any bounds, from the five
named assumptions of `CheckMonitor` (the sets of checks and of schedules are not
empty, schedules, kinds and nag intervals have their types, bounds are naturals):

* `TypeCorrect`: `Spec => []TypeOK`.
* `HistoryOnly`: `HSpec => Spec`.
* `HInvariant`: `HSpec => []HInv`, and from it `AlertsAlwaysAgree`,
  `AlertsAlwaysNews`, `IncidentsStartFresh`, `RemindersAlwaysDeserved`,
  `NextDueAlwaysEarned`, and the action properties `LastPingAlwaysAdvances` and
  `PausesLast`.

`AlertsAgree` alone is not inductive: whether `mark_ping` leaves the row and the
channels in agreement depends on the snapshot. `HInv` adds where the tasks stand
(`TasksInv`, `Unborn`) and, for an undisturbed check, `Coherent(c)`: requests that
have written nothing yet hold a fresh snapshot (`SnapshotsFresh`), those between
their write and their event find the status they wrote, the channels unaware and the
scan loop silent (`PingsHaveNews`), and the same of the pass (`ScanHasNews`,
`NagDeserved`). `NagDue` looks at the baseline in the row, `RemindersDeserved` at what
the channels heard: `HeardIsBaseline` ties them. The argument is the same for every write: if it leaves `c`
undisturbed, all other windows on `c` are shut (`Undisturbed`), so only the row and
the writer remain to be looked at (`ShutFrame`, `PingAlone`); steps that do not
concern `c` are covered once by `RowFrame` and `LoopFrame`.

**Sessions** (`UpkeepProofs`). For any sets of sessions and requests, any half window of
at least one tick, any cap of at least an idle window, and stalls of at most half a window
(`WindowsAssumption`): `SessionsInvariant` (`SessionsSpec => []SessionsInv`), and from it
`ExpiryAlwaysTracksUse` and `SweptAlwaysDead`. `ExpiryTracksUse` is not inductive: a
renewal is written after it was computed. `SessionsInv` adds what a request in flight holds
(`Pending`: it took its time at most `MaxStall` ago, and its renewal is the one of that
time) and that rows are not ahead of the clock (`RowsAreSound`). Then a late renewal is
harmless: any other request was let in at most half a window later, so what is left is
still half a window after the latest use (`RenewedSound`); and a request that writes
nothing leaves a row that needs no renewal (`LetInSound`).

**Retention** (`UpkeepProofs`). For any sequence of distinct tables, any administrators and
any settings that include "unset": `RetentionInvariant`, `PassAlwaysExact`,
`ChangesAlwaysLeaveATrace`. The invariant falls into two parts that meet in the settings
only. Of a pass (`PassInv`): each table it is past is exact, and its time is not ahead of
the clock, so that a row inserted behind it is too young to be missed (`RowsAndDaysInv`);
leaving a table concerns that table alone because none is listed twice (`PastOneMore`). Of
the saves: what one has compared and found equal is as its form has it, unless another has
written the key since (`Knows`). A change made over a comparison that still holds is
therefore one the save will record. Of the log (`TrailIsDated`): an entry is not older
than the change it tells of, and the audit retention a pass is about to delete by has been in
force since that change or cannot reach it, so an entry is pruned only once such a
retention has run out (`RunOut`).

**Delivery** (`DeliveryProofs`). For any events and attempts and any nonempty set of
channels: `DeliveryInvariant`, `EveryChannelAlwaysTried`, `LoopsAlwaysMeetAnOpenPool`, and
the refinement `DeliveryImplementsOutbox`. `DeliveryInv` adds to the channels dealt with
the ones at hand: those not reached yet are untouched, and the number of sends to the
current one is its count of attempts (`Progress`); rows are gone exactly with their
channel or check (`RowsFollowChannels`); `main` is ahead of nobody it waits for (`MainWaits`). Under
the refinement a send that arrives is `Arrive`, a recorded outcome is `Settle`, the deletion of a channel or of
the check is `Forget`, the pruning of old rows `Expire`, and every other step a stutter. `Progress` is what makes `Arrive` and `Settle`
enabled: attempts are left, there is no row yet, and a success has brought a copy.

**Rate limiter** (`RateLimiterProofs`). For any finite nonempty set of keys and any limits,
window and attempts, any proxy apart from the keys: `LimiterInvariant`, `GuessesAlwaysBounded`, `AlwaysChargedToTheClient`,
`LiveCountersAlwaysStay`. What is inductive is that no counter falls behind what it
admitted by more than the refunds another bucket had paid for; the bound on guesses
follows because a counter never passes its limit. That the map stays within its limit is an
argument about cardinalities: a key is added only where the map has room.

**Accounts** (`AccountsProofs`). For any users, sessions, keys and handlers, and any number
of epochs: `AccountsInvariant`, `RevokedSessionsAlwaysGone`, `WindowsAlwaysEndWithSessions`,
`LastAdminOnlyLostByStaleActor`. `RevokedSessionsAreGone` is not inductive: a change of
one's own password spares the session it came with, and two of them may spare different
ones. `StaleAreDoomed` says more: a session that is too old always meets a handler that
does not spare it. `WindowsEndWithSessions` is inductive once expiry is told apart from
the handlers that end a session. `Equipped` is what handlers have in hand at each step. For the last
administrator, nobody acts on their own account, so an actor who is still an enabled
administrator remains one.

**Workspace** (`WorkspaceProofs`). For any users, projects, checks, channels, handlers and
credentials, from `IdsAreApart`, `ValuesAreApart` and `FragileAssumption`: `WorkspaceInvariant`,
`BindingsAlwaysInProject`, `OwedAlwaysBound`, `AccessAlwaysEarned`,
`SavesAlwaysAsSubmitted`, `CredentialsAlwaysSubmitted`, `ForeignChangeAlwaysAudited`. The
handlers of the three surfaces are first reduced to a few effects on the tables
(`ProjectRequestsDo`, `CheckRequestsDo`, `ChannelRequestsDo`, `LongRequestsDo`), each
made by right; every effect is then treated once. `WorkspaceInv` adds to the tables what a
handler between two statements aims at (`Aimed`) and what it believes (`Believes`): true of
every row that no other handler has touched, and of a credential it may keep. A step leaves the handlers of others
fit because it touches what it writes (`OthersFit`, `TouchingFits`). A change to the rows
of a project comes from a step whose target lies in it (`OnlyItsTarget`), and steps with a
target there are the owner's or audited (`OnlyByRight`).

**History and live tail** (`HistoryProofs`). For any page size, number of ids, kinds of rows and
filters, of which the empty one is one (`HistoryAssumption`): `HistoryInvariant`,
`NothingEverSkipped`, `WalkAlwaysComplete`. A page is closed: any row that matches and lies
between the cursor and a row of the page is on it, because a page that is not full has
everything and a full one the nearest rows (`NewestOf`, `OldestOf`: cardinalities, and least
elements by the well-foundedness of the naturals). `HistoryInv` adds that links start
from rows the reader has seen, and that what there was to be found lies among ids that are
visible or pruned. For any capacity of the bus and any number of loads: `TailInvariant` and
`TailAlwaysShowsLatest`. `TailInv` says where a change is that is not shown yet: signalled
or lagged over while the stream is open, waiting for the page's timer, asked for by a load
that will answer with it (`Covers`), or lost to a load that failed. No restart of the timer
loses it.

`HInv`, `WorkspaceInv`, `AccountsInv`, `LimiterInv` and `DeliveryInv` are invariants of the
runs; `SessionsInv`, `RetentionInv`, `HistoryInv` and `TailInv` hold on the instances of
`upkeep` and `history`, whose runs check the properties that follow from them.

**Only model-checked.** The liveness properties (`LateIsHandled`, `NagDueIsHandled`,
`UndisturbedDownIsAnnounced`, `DeliveriesEnd`, `ShutdownEnds`, `TailCatchesUp`): fairness and
ENABLED are out of the prover's reach, as are induction over data and RECURSIVE operators,
which these modules do not need. The two violations are TLC's. All other properties of the
runs are proved.

## Not modelled

* CSRF tokens, cookies, response headers: stateless, and about the strength of an HMAC.
* Run durations, the scan interval, display status: pure functions of one input, tested
  in the repository.
* Dashboard and statistics: read-only aggregation.
* Channel drivers: the requests and texts of six services. `Delivery` keeps what they
  return: success, an error, or an error after the message arrived.
* Templates, markdown, assets, DTOs: formatting without state.
* Configuration, secrets, migrations, database set-up: sequential start-up code.
* Parts of modelled components: time zones of cron schedules, body truncation and the
  client address of a ping, the hash and expiry of API keys, audit rows of user
  management, `last_seen_at`, pages of the live tail's section reached by its other links.

## Plan

1. Theorems that tie components together: that a session `Accounts` has ended is none that
   `Sessions` can renew, and that the events `CheckMonitor` hands over are the ones
   `Delivery` starts from.
2. Stronger abstract specifications to refine: the rate limiter as a bound on guesses per
   key, the audit log as the history of the settings.
3. Safety facts under the liveness properties (what a pass of the scan loop has done when it
   ends), which can be proved where the liveness itself cannot.
