----------------------------- MODULE Retention ------------------------------
(***************************************************************************)
(* Retention: the prune loop (prune.rs) deletes what is older than the     *)
(* settings allow, one table after the other, while admins save the        *)
(* settings (settings_save) and rows come in.  A save compares with what   *)
(* is stored, then writes key by key, then records in the audit log which  *)
(* keys it changed; a pass reads a setting, then deletes by it, and from   *)
(* the audit log it deletes those entries as well.  Every query is a step  *)
(* of its own and may fail.                                                *)
(*                                                                         *)
(* Of each table the model follows one row, and of the audit log, for each *)
(* setting, also the entry of its latest change; deletion treats all rows  *)
(* of a table alike.                                                       *)
(***************************************************************************)
EXTENDS Integers, Sequences

CONSTANTS
  Tables,    \* the pruned tables, in the order of prune_once
  Audit,     \* the one of them that is the audit log
  Admins,    \* slots for saves under way
  Days,      \* retention settings: positive numbers of days, and 0 for unset
  MaxDays,   \* the most days chrono can subtract from a date
  LastDay    \* bound: the clock stops here

ASSUME DaysAssumption == 0 \in Days /\ Days \subseteq Nat /\ MaxDays \in Nat /\ LastDay \in Nat

VARIABLES
  day,
  retention,  \* the settings <table>_retention_days
  rows,       \* per table: when the row followed was created; None if there is none
  pass,       \* the prune loop
  save,       \* the saves under way
  traced,     \* per setting: the day of the entry for its latest change, None without one
  last,       \* history, per setting: when it last changed, and whether cleanly
  windows     \* history, per setting: the audit retentions in force since then

trail == <<traced, last, windows>>
rvars == <<day, retention, rows, pass, save, trail>>

Keys == {Tables[i] : i \in DOMAIN Tables}
None == -1

\* There is a table to prune, and none is listed twice.
ASSUME TablesAssumption ==
  /\ Tables \in Seq(Keys) /\ Tables # <<>> /\ Audit \in Keys
  /\ \A i, j \in DOMAIN Tables : Tables[i] = Tables[j] => i = j

\* `i`: the table at hand.  `cut`: the setting read for each table.  `had`: history:
\* the row each table had when the pass came to it.  `ok`: no query has failed.
Pass == [pc : {"sleep", "read", "delete", "sweep", "beat"}, i : Nat, at : Nat,
         cut : [Keys -> Days], had : [Keys -> Int], ok : BOOLEAN]

\* `i`: the key to be compared, or to be written.  `stale`: history: the keys that
\* another save has written since this one compared them.
Save == [pc : {"idle", "diff", "write", "audit"}, form : [Keys -> Days],
         i : Nat, changed : SUBSET Keys, stale : SUBSET Keys]

NoSave == [pc |-> "idle", form |-> [k \in Keys |-> 0], i |-> 1, changed |-> {}, stale |-> {}]
Asleep == [pc |-> "sleep", i |-> 1, at |-> 0, cut |-> [k \in Keys |-> 0],
           had |-> [k \in Keys |-> None], ok |-> TRUE]

RetentionTypeOK ==
  /\ day \in Nat
  /\ retention \in [Keys -> Days] /\ traced \in [Keys -> Nat \cup {None}]
  /\ rows \in [Keys -> Nat \cup {None}]
  /\ pass \in Pass
  /\ save \in [Admins -> Save]
  /\ last \in [Keys -> [on : Nat \cup {None}, clean : BOOLEAN]]
  /\ windows \in [Keys -> SUBSET Days]

\* Every retention is off until someone sets it.
RetentionInit ==
  /\ day = 0
  /\ retention = [k \in Keys |-> 0] /\ traced = [k \in Keys |-> None]
  /\ rows = [k \in Keys |-> None]
  /\ pass = Asleep
  /\ save = [a \in Admins |-> NoSave]
  /\ last = [k \in Keys |-> [on |-> None, clean |-> TRUE]]
  /\ windows = [k \in Keys |-> {0}]

-----------------------------------------------------------------------------
(* The prune loop. *)

\* run_prune_loop wakes up and takes the time.
BeginPass ==
  /\ pass.pc = "sleep"
  /\ pass' = [Asleep EXCEPT !.pc = "read", !.at = day]
  /\ UNCHANGED <<day, retention, rows, save, trail>>

AfterTable == IF pass.i < Len(Tables) THEN [pass EXCEPT !.pc = "read", !.i = @ + 1]
              ELSE [pass EXCEPT !.pc = "sweep"]

\* No cutoff when retention is off, or out of chrono's range.
retention_cutoff(now, d) == IF d > 0 /\ d <= MaxDays THEN {now - d} ELSE {}

\* prune_table reads its setting; without a cutoff the table is done.
ReadSetting ==
  /\ pass.pc = "read"
  /\ LET k == Tables[pass.i]
         d == retention[k]
         read(p) == [p EXCEPT !.cut[k] = d, !.had[k] = rows[k]]
     IN IF retention_cutoff(pass.at, d) = {} THEN pass' = read(AfterTable)
        ELSE pass' = read([pass EXCEPT !.pc = "delete"])
  /\ UNCHANGED <<day, retention, rows, save, trail>>

\* What a deletion leaves of a row created at t.
KeptFrom(cutoff, t) == IF t # None /\ t < cutoff THEN None ELSE t

\* delete_pings_before and its twins; delete_audit_before takes the entries of changed
\* settings with it.
DeleteBefore ==
  /\ pass.pc = "delete"
  /\ LET k == Tables[pass.i]
     IN \E cutoff \in retention_cutoff(pass.at, pass.cut[k]) :
          /\ rows' = [rows EXCEPT ![k] = KeptFrom(cutoff, @)]
          /\ traced' = IF k = Audit THEN [j \in Keys |-> KeptFrom(cutoff, traced[j])] ELSE traced
          /\ pass' = [AfterTable EXCEPT !.had[k] = rows[k]]
  /\ UNCHANGED <<day, retention, save, last, windows>>

\* delete_expired_sessions: see Sessions.
SweepSessions ==
  /\ pass.pc = "sweep"
  /\ pass' = [pass EXCEPT !.pc = "beat"]
  /\ UNCHANGED <<day, retention, rows, save, trail>>

\* Mutant: a table that fails is skipped in silence.
GoesOn == AfterTable

\* What a failed query leaves of the pass.
GivenUp == [pass EXCEPT !.pc = "beat", !.ok = FALSE]

\* Any query of the pass fails: `?` leaves prune_once, the error is logged.
PruneFails ==
  /\ pass.pc \in {"read", "delete", "sweep"}
  /\ pass' = GivenUp
  /\ UNCHANGED <<day, retention, rows, save, trail>>

\* last_prune_at is written after a failed pass as well, then the loop sleeps.
Heartbeat ==
  /\ pass.pc = "beat"
  /\ pass' = Asleep
  /\ UNCHANGED <<day, retention, rows, save, trail>>

PruneNext ==
  BeginPass \/ ReadSetting \/ DeleteBefore \/ SweepSessions \/ PruneFails \/ Heartbeat

-----------------------------------------------------------------------------
(* Saving the settings. *)

\* validate_settings refuses the form as a whole or parses all of it.
settings_save(a, form) ==
  /\ save[a].pc = "idle"
  /\ save' = [save EXCEPT ![a] = [NoSave EXCEPT !.pc = "diff", !.form = form]]
  /\ UNCHANGED <<day, retention, rows, pass, trail>>

\* Mutant: only what was unset before counts as a change.
DiffersFromUnset(stored, value) == stored = 0 /\ value # 0

Differs(stored, value) == stored # value

\* On to the next key, or from the last one to the next phase.
Advance(w, phase) ==
  IF w.i < Len(Tables) THEN [w EXCEPT !.i = @ + 1] ELSE [w EXCEPT !.i = 1, !.pc = phase]

changed_settings(a) ==
  /\ save[a].pc = "diff"
  /\ LET k == Tables[save[a].i]
         found == IF Differs(retention[k], save[a].form[k]) THEN {k} ELSE {}
     IN save' = [save EXCEPT ![a] = [Advance(save[a], "write") EXCEPT !.changed = @ \cup found,
                                                                   !.stale = @ \ {k}]]
  /\ UNCHANGED <<day, retention, rows, pass, trail>>

\* Key k is written: the comparisons of the other saves under way no longer hold for it.
OthersStale(a, k, b) ==
  IF b # a /\ save[b].pc # "idle" THEN [save[b] EXCEPT !.stale = @ \cup {k}] ELSE save[b]

\* The trail of key k after save a has changed it: no entry tells of it yet.
Changed(a, k) ==
  /\ traced' = [traced EXCEPT ![k] = None]
  /\ last' = [last EXCEPT ![k] = [on |-> day, clean |-> k \notin save[a].stale]]
  /\ windows' = [j \in Keys |-> (IF j = k THEN {} ELSE windows[j]) \cup {retention'[Audit]}]

\* The keys are written one by one, also those that stay as they are.
set_setting(a) ==
  /\ save[a].pc = "write"
  /\ LET k == Tables[save[a].i]
     IN /\ retention' = [retention EXCEPT ![k] = save[a].form[k]]
        /\ save' = [b \in Admins |->
             IF b = a THEN Advance(save[a], "audit") ELSE OthersStale(a, k, b)]
        /\ IF save[a].form[k] = retention[k] THEN UNCHANGED trail ELSE Changed(a, k)
  /\ UNCHANGED <<day, rows, pass>>

\* Nothing changed: no entry.
record_audit(a) ==
  /\ save[a].pc = "audit"
  /\ traced' = [k \in Keys |-> IF k \in save[a].changed THEN day ELSE traced[k]]
  /\ save' = [save EXCEPT ![a] = NoSave]
  /\ UNCHANGED <<day, retention, rows, pass, last, windows>>

Written(w) ==
  CASE w.pc = "write" -> {Tables[j] : j \in {n \in DOMAIN Tables : n < w.i}}
    [] w.pc = "audit" -> Keys
    [] OTHER          -> {}

\* The changes a save has made and not recorded.
Owing(w) == Written(w) \cap w.changed

\* A query fails: what is written stays written, and no entry will tell of it.
SaveFails(a) ==
  /\ save[a].pc # "idle"
  /\ last' = [k \in Keys |->
       [last[k] EXCEPT !.clean = @ /\ k \notin Owing(save[a])]]
  /\ save' = [save EXCEPT ![a] = NoSave]
  /\ UNCHANGED <<day, retention, rows, pass, traced, windows>>

SaveNext(a) ==
  \/ \E form \in [Keys -> Days] : settings_save(a, form)
  \/ changed_settings(a) \/ set_setting(a) \/ record_audit(a) \/ SaveFails(a)

-----------------------------------------------------------------------------
\* A ping, a notification or an audit entry comes in.
InsertRow(k) ==
  /\ rows[k] = None
  /\ rows' = [rows EXCEPT ![k] = day]
  /\ UNCHANGED <<day, retention, pass, save, trail>>

NextDay ==
  /\ day < LastDay
  /\ day' = day + 1
  /\ UNCHANGED <<retention, rows, pass, save, trail>>

RetentionNext ==
  \/ PruneNext
  \/ \E a \in Admins : SaveNext(a)
  \/ \E k \in Keys : InsertRow(k)
  \/ NextDay

RetentionSpec == RetentionInit /\ [][RetentionNext]_rvars

-----------------------------------------------------------------------------
(* Properties. *)

\* The pass has come past table i.
Behind(i) == pass.pc # "sleep" /\ (i < pass.i \/ pass.pc \in {"sweep", "beat"})

TooOld(t, d) == d > 0 /\ d <= MaxDays /\ t # None /\ t + d < pass.at

\* A pass in which no query failed has deleted, from each table it is past, exactly the
\* rows that the setting it read no longer allows, whatever was saved and inserted
\* meanwhile: nothing that is too old is left, nothing younger is gone, and a table
\* without retention, or with one out of range, is untouched.
PassIsExact ==
  pass.ok =>
    \A i \in DOMAIN Tables :
      Behind(i) =>
        LET k == Tables[i]
        IN /\ ~TooOld(rows[k], pass.cut[k])
           /\ pass.had[k] # None /\ ~TooOld(pass.had[k], pass.cut[k]) => rows[k] = pass.had[k]

\* A save has changed k and not yet recorded it.
Unrecorded(k) == \E a \in Admins : k \in Owing(save[a])

\* An audit retention in force since k last changed has run out since.
RunOut(k) ==
  \E d \in windows[k] : d > 0 /\ d <= MaxDays /\ last[k].on + d < day

\* Whatever saves, failures and passes interleave, the audit log tells of the latest
\* change of each setting ("shortening the window leaves a trace"), as soon as the save
\* is over and until an audit retention in force since has run out; except for a change
\* made over a comparison that another save had overtaken, and one whose save failed
\* before its entry.
ChangesLeaveATrace ==
  \A k \in Keys :
    last[k].on # None /\ last[k].clean => traced[k] # None \/ Unrecorded(k) \/ RunOut(k)

\* What save w has compared and not yet written, and found equal, is still as its form
\* has it, unless another save has written it since.
Knows(w) ==
  \A j \in DOMAIN Tables :
    \/ w.pc = "diff" /\ j < w.i
    \/ w.pc = "write" /\ w.i <= j
    => Tables[j] \in w.changed \cup w.stale \/ retention[Tables[j]] = w.form[Tables[j]]

\* An entry is not older than the change it tells of, and the audit retention in force,
\* also as a pass has read it, is one that the setting has seen since its change, or
\* cannot reach that change.
TrailIsDated(k) ==
  /\ traced[k] # None => last[k].on <= traced[k]
  /\ retention[Audit] \in windows[k]
  /\ last[k].on <= day
  /\ pass.pc = "delete" /\ Tables[pass.i] = Audit =>
       pass.cut[Audit] \in windows[k] \/ pass.at <= last[k].on

\* The types and all that the steps preserve together.
RetentionInv ==
  /\ RetentionTypeOK
  /\ pass.i \in DOMAIN Tables /\ pass.at <= day
  /\ PassIsExact
  /\ \A a \in Admins : save[a].i \in DOMAIN Tables /\ Knows(save[a])
  /\ \A k \in Keys : TrailIsDated(k)
  /\ ChangesLeaveATrace
=============================================================================
