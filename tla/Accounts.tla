------------------------------ MODULE Accounts ------------------------------
(***************************************************************************)
(* Users and their roles, the sessions they sign in with, the elevations   *)
(* that unlock access-granting actions, and API keys: first-run setup,     *)
(* login, forward auth, logout, /account and the user management under     *)
(* /admin (web.rs, auth.rs, elevate.rs, store.rs).                         *)
(*                                                                         *)
(* A handler authenticates its caller (one read), reads its target, and    *)
(* writes statement by statement; every one of these is a step, and other  *)
(* handlers run in between.  What it read it believes to the end.          *)
(*                                                                         *)
(* Passwords are abstracted to `epoch`: disabling an account and changing  *)
(* its password each begin a new one, and what was opened in an older      *)
(* epoch is to be gone.  Time is not modelled here (Sessions has it): a    *)
(* session may expire, and an elevation lapse, at any moment.              *)
(***************************************************************************)
EXTENDS Naturals, FiniteSets

CONSTANTS
  Users,     \* user ids, never used twice (AUTOINCREMENT)
  Sessions,  \* session ids
  Keys,      \* ids of API keys
  Handlers,  \* slots for requests in flight at the same time
  MaxEpoch   \* bound: how often an account is disabled or its password changed

None == "none"

ASSUME NoneIsNoId     == None \notin Users \cup Sessions
ASSUME EpochAssumption == MaxEpoch \in Nat

VARIABLES
  user,      \* table users
  session,   \* table sessions
  elevated,  \* Elevations.granted: the user a session handle was unlocked for
  key,       \* table api_keys: whose key it is
  req,       \* the handlers in flight
  stray,     \* history: handles unlocked for another user than the session's or
             \* after its end, or whose revocation was cut off
  expired    \* history: handles whose session expired while they were unlocked

rows == <<user, session, elevated, key>>
excuses == <<stray, expired>>
vars == <<rows, req, excuses>>

\* `hash`: the account has a local password; forward-auth accounts have none.
User ==
  [row : {"absent", "here", "gone"}, admin : BOOLEAN, disabled : BOOLEAN,
   hash : BOOLEAN, epoch : Nat]
EmptyUser(row) ==
  [row |-> row, admin |-> FALSE, disabled |-> FALSE, hash |-> FALSE, epoch |-> 0]

\* `epoch`: the epoch in which the credentials behind it were read.  `raced`: the
\* session was opened when that epoch had already ended, or its end was cut short.
Session == [user : Users \cup {None}, epoch : Nat, raced : BOOLEAN]
NoSession == [user |-> None, epoch |-> 0, raced |-> FALSE]

\* A handler: who calls (`actor`, as authenticated, and the session of the cookie),
\* whom it is about, and what it read and still needs.  `value` is the flag to be written or the
\* admin box of the form, `epoch` the epoch its credentials belong to, `hash` whether
\* the caller has a local password.
Request ==
  [pc : {"idle", "setup", "open", "create", "target", "write", "sessions", "finish",
         "unlock", "end_session"},
   op : {None, "delete", "password", "admin", "disabled", "others", "logout"},
   actor : Users \cup {None}, cookie : Sessions \cup {None},
   target : Users \cup Sessions \cup {None}, value : BOOLEAN, epoch : Nat,
   hash : BOOLEAN]

Idle ==
  [pc |-> "idle", op |-> None, actor |-> None, cookie |-> None, target |-> None,
   value |-> FALSE, epoch |-> 0, hash |-> FALSE]

TypeOK ==
  /\ user \in [Users -> User]
  /\ session \in [Sessions -> Session]
  /\ elevated \in [Sessions -> Users \cup {None}]
  /\ key \in [Keys -> Users \cup {None}]
  /\ req \in [Handlers -> Request]
  /\ stray \subseteq Sessions /\ expired \subseteq Sessions

-----------------------------------------------------------------------------
(***************************************************************************)
(* store.rs                                                                *)
(***************************************************************************)
Here(u) == u \in Users /\ user[u].row = "here"
Live(s) == s \in Sessions /\ session[s].user # None

count_users == Cardinality({u \in Users : Here(u)})
EnabledAdmins == {u \in Users : Here(u) /\ user[u].admin /\ ~user[u].disabled}
count_enabled_admins == Cardinality(EnabledAdmins)

SessionsOf(u) == {s \in Sessions : session[s].user = u}

\* A random token: nothing in the system refers to it yet.
FreshSession(s) ==
  ~Live(s) /\ elevated[s] = None /\ \A h \in Handlers : s \notin {req[h].cookie, req[h].target}

\* The username is UNIQUE: a duplicate fails, which is the handler not going on.
create_user(u, admin, hash) ==
  /\ user[u].row = "absent"
  /\ user' = [user EXCEPT ![u] =
       [row |-> "here", admin |-> admin, disabled |-> FALSE, hash |-> hash, epoch |-> 0]]

\* DELETE FROM users: sessions and API keys go by cascade.
delete_user(u) ==
  /\ user' = [user EXCEPT ![u] = EmptyUser("gone")]
  /\ session' = [s \in Sessions |-> IF s \in SessionsOf(u) THEN NoSession ELSE session[s]]
  /\ key' = [k \in Keys |-> IF key[k] = u THEN None ELSE key[k]]

set_user_disabled(u, value) ==
  user' = IF Here(u)
          THEN [user EXCEPT ![u].disabled = value,
                            ![u].epoch = IF value THEN @ + 1 ELSE @]
          ELSE user

\* `keep`: the session of a user who changes their own password stays, with the new
\* password's epoch.
set_user_password(u, keep) ==
  /\ user' = IF Here(u) THEN [user EXCEPT ![u].hash = TRUE, ![u].epoch = @ + 1] ELSE user
  /\ session' = IF Here(u) /\ keep \in SessionsOf(u) /\ ~session[keep].raced
                THEN [session EXCEPT ![keep].epoch = user[u].epoch + 1] ELSE session

set_user_admin(u, value) ==
  user' = IF Here(u) THEN [user EXCEPT ![u].admin = value] ELSE user

\* delete_sessions_for_user and, with a session to keep, delete_other_sessions_for_user.
delete_sessions(u, keep) ==
  session' = [s \in Sessions |-> IF s \in SessionsOf(u) \ {keep} THEN NoSession ELSE session[s]]

delete_session(s) == session' = [session EXCEPT ![s] = NoSession]

-----------------------------------------------------------------------------
(***************************************************************************)
(* auth.rs: who is calling.  find_session_user joins users; resolve_user   *)
(* refuses a disabled user and falls back to the identity header of a      *)
(* trusted gateway, when the cookie names nobody.                          *)
(***************************************************************************)
find_session_user(s, u) == Live(s) /\ session[s].user = u

forward_auth_user(u) == Here(u) /\ ~user[u].disabled

resolve_user(u, s) ==
  IF Live(s) /\ ~user[session[s].user].disabled
  THEN find_session_user(s, u)
  ELSE forward_auth_user(u)

CurrentUser(u, s) == resolve_user(u, s)

AdminUser(u, s) == CurrentUser(u, s) /\ user[u].admin

\* elevation(): passwordless accounts have nothing to re-assert; the rest need the
\* window of the session whose cookie they present.
ElevationAllows(hash, s) == ~hash \/ (s # None /\ elevated[s] # None)

-----------------------------------------------------------------------------
Begin(h, q) ==
  req[h].pc = "idle" /\ req' = [req EXCEPT ![h] = q] /\ UNCHANGED <<rows, excuses>>
Goto(h, pc) == req' = [req EXCEPT ![h].pc = pc, ![h].value = FALSE]
End(h)      == req' = [req EXCEPT ![h] = Idle]

Called(pc, op, u, s, target) ==
  [Idle EXCEPT !.pc = pc, !.op = op, !.actor = u, !.cookie = s, !.target = target,
               !.hash = IF op = "admin" THEN user[u].hash ELSE FALSE]

(***************************************************************************)
(* First-run setup and signing in.                                         *)
(***************************************************************************)
setup_submit(h) ==
  /\ count_users = 0
  /\ Begin(h, Called("setup", None, None, None, None))

\* "Two racing first visitors both pass the check": with two names both get in.
SetupCreate(h, u) ==
  /\ req[h].pc = "setup"
  /\ create_user(u, TRUE, TRUE)
  /\ req' = [req EXCEPT ![h] = Called("open", None, None, None, u)]
  /\ UNCHANGED <<session, elevated, key, excuses>>

\* login_submit up to the refusal of a disabled user: the password was right.
login_submit(h, u) ==
  /\ Here(u) /\ user[u].hash /\ ~user[u].disabled
  /\ Begin(h, [Called("open", None, None, None, u) EXCEPT !.epoch = user[u].epoch])

\* forward_auth_session: a cookie with a live session is left alone; else the
\* gateway's user gets a session, and on first sight an account.
forward_auth_session(h, u, s) ==
  /\ ~Live(s)
  /\ forward_auth_user(u)
  /\ Begin(h, [Called("open", None, None, None, u) EXCEPT !.epoch = user[u].epoch])

AutoProvision(h, u) ==
  /\ req[h].pc = "idle"
  /\ create_user(u, FALSE, FALSE)
  /\ req' = [req EXCEPT ![h] = Called("open", None, None, None, u)]
  /\ UNCHANGED <<session, elevated, key, excuses>>

\* INSERT INTO sessions; the foreign key fails when the user was deleted.
open_session(h, s) ==
  LET q == req[h] IN
  /\ q.pc = "open"
  /\ FreshSession(s)
  /\ session' = IF Here(q.target)
                THEN [session EXCEPT ![s] = [user |-> q.target, epoch |-> q.epoch,
                                             raced |-> q.epoch < user[q.target].epoch]]
                ELSE session
  /\ End(h)
  /\ UNCHANGED <<user, elevated, key, excuses>>

-----------------------------------------------------------------------------
(***************************************************************************)
(* User management.                                                        *)
(***************************************************************************)
users_create(h, u, s, admin) ==
  /\ AdminUser(u, s) /\ ElevationAllows(user[u].hash, s)
  /\ Begin(h, [Called("create", None, None, None, None) EXCEPT !.value = admin])

\* create_user, then its audit row.
UsersCreated(h, new) ==
  /\ req[h].pc = "create"
  /\ create_user(new, req[h].value, TRUE)
  /\ End(h)
  /\ UNCHANGED <<session, elevated, key, excuses>>

\* Mutant: the self-check is dropped.
SelfToo(h, op, u, s, v) ==
  AdminUser(u, s) /\ Begin(h, Called("target", op, u, IF op = "admin" THEN s ELSE None, v))

\* users_delete, users_toggle_admin, users_set_disabled: nobody acts on themselves.
users_op(h, op, u, s, v) ==
  /\ AdminUser(u, s)
  /\ v # u
  /\ Begin(h, Called("target", op, u, IF op = "admin" THEN s ELSE None, v))

\* users_set_password: elevation first; oneself is allowed.
users_set_password(h, u, s, v) ==
  /\ AdminUser(u, s) /\ ElevationAllows(user[u].hash, s)
  /\ Begin(h, Called("target", "password", u, IF u = v THEN s ELSE None, v))

\* account_password: reauthenticate has verified the current password.
account_password(h, u, s) ==
  /\ CurrentUser(u, s) /\ user[u].hash
  /\ Begin(h, Called("write", "password", u, s, u))

\* "Unreachable (the actor is another enabled admin); defence in depth."
LastAdmin(v) == user[v].admin /\ ~user[v].disabled /\ count_enabled_admins <= 1

\* find_user_by_id and the refusals that follow; the rest of the handler writes the
\* opposite of what it read here.  A refusal, or a page that asks for confirmation,
\* ends the request.
ReadTarget(h) ==
  LET q == req[h] v == q.target
      refused ==
        \/ ~Here(v)
        \/ q.op = "delete" /\ LastAdmin(v)
        \/ q.op = "admin" /\ user[v].admin /\ LastAdmin(v)
        \/ q.op = "admin" /\ ~user[v].admin /\ ~ElevationAllows(q.hash, q.cookie)
        \/ q.op = "disabled" /\ ~user[v].disabled /\ LastAdmin(v)
  IN
  /\ q.pc = "target"
  /\ \/ ~refused
        /\ req' = [req EXCEPT ![h].pc = "write", ![h].hash = FALSE,
             ![h].cookie = IF q.op = "admin" THEN None ELSE @,
             ![h].value = IF q.op = "admin" THEN ~user[v].admin
                          ELSE IF q.op = "disabled" THEN ~user[v].disabled ELSE FALSE]
     \/ End(h)
  /\ UNCHANGED <<rows, excuses>>

\* The session that a password change spares: one's own.
Kept(q) == IF q.op \in {"password", "others"} /\ q.target = q.actor THEN q.cookie ELSE None

DeleteUser(h) ==
  /\ req[h].pc = "write" /\ req[h].op = "delete"
  /\ delete_user(req[h].target)
  /\ Goto(h, "finish")
  /\ UNCHANGED <<elevated, excuses>>

SetPassword(h) ==
  LET q == req[h] IN
  /\ q.pc = "write" /\ q.op = "password"
  /\ user[q.target].epoch < MaxEpoch
  /\ set_user_password(q.target, Kept(q))
  /\ Goto(h, "sessions")
  /\ UNCHANGED <<elevated, key, excuses>>

\* Sessions and elevations of a demoted user stay: is_admin is read per request.
SetAdmin(h) ==
  /\ req[h].pc = "write" /\ req[h].op = "admin"
  /\ set_user_admin(req[h].target, req[h].value)
  /\ End(h)
  /\ UNCHANGED <<session, elevated, key, excuses>>

\* Mutant: disabling leaves the sessions to resolve_user.
DisableOnly(h) ==
  LET q == req[h] IN
  /\ q.pc = "write" /\ q.op = "disabled"
  /\ q.value => user[q.target].epoch < MaxEpoch
  /\ set_user_disabled(q.target, q.value)
  /\ End(h)
  /\ UNCHANGED <<session, elevated, key, excuses>>

\* "On disable, or disable->enable resurrects sessions."
SetDisabled(h) ==
  LET q == req[h] IN
  /\ q.pc = "write" /\ q.op = "disabled"
  /\ q.value => user[q.target].epoch < MaxEpoch
  /\ set_user_disabled(q.target, q.value)
  /\ IF q.value THEN Goto(h, "sessions") ELSE End(h)
  /\ UNCHANGED <<session, elevated, key, excuses>>

DeleteSessions(h) ==
  LET q == req[h] IN
  /\ q.pc = "sessions"
  /\ delete_sessions(q.target, Kept(q))
  /\ Goto(h, "finish")
  /\ UNCHANGED <<user, elevated, key, excuses>>

\* h has begun a new epoch of u and is about to delete the sessions of the old one.
Ending(h, u) ==
  req[h].pc = "sessions" /\ req[h].op \in {"password", "disabled"} /\ req[h].target = u

\* h has deleted session s and is about to close its window.
Pending(h, s) ==
  /\ req[h].pc = "finish"
  /\ IF req[h].op = "logout" THEN req[h].target = s
     ELSE elevated[s] = req[h].target /\ Kept(req[h]) # s

\* A window that is closed needs no excuse.
Closed ==
  LET shut == {s \in Sessions : elevated'[s] = None} IN
  stray' = stray \ shut /\ expired' = expired \ shut

\* Mutant: revoke_user is forgotten.
RevokeNothing(u, keep) == UNCHANGED elevated

\* Elevations::revoke_user.
revoke_user(u, keep) ==
  elevated' = [s \in Sessions |-> IF elevated[s] = u /\ s # keep THEN None ELSE elevated[s]]

\* revoke_user, then the audit row.
RevokeElevations(h) ==
  LET q == req[h] IN
  /\ q.pc = "finish" /\ q.op # "logout"
  /\ revoke_user(q.target, Kept(q))
  /\ Closed
  /\ End(h)
  /\ UNCHANGED <<user, session, key>>

-----------------------------------------------------------------------------
(***************************************************************************)
(* One's own sessions, elevation and keys.                                 *)
(***************************************************************************)
\* The cookie alone decides: no authentication.
logout(h, s) == Begin(h, Called("end_session", "logout", None, None, s))

\* The handle is looked up among the caller's own live sessions.
sessions_revoke(h, u, s, t) ==
  /\ CurrentUser(u, s)
  /\ session[t].user = u
  /\ Begin(h, Called("end_session", "logout", None, None, t))

EndSession(h) ==
  /\ req[h].pc = "end_session"
  /\ delete_session(req[h].target)
  /\ Goto(h, "finish")
  /\ UNCHANGED <<user, elevated, key, excuses>>

\* Elevations::revoke.
RevokeElevation(h) ==
  /\ req[h].pc = "finish" /\ req[h].op = "logout"
  /\ elevated' = [elevated EXCEPT ![req[h].target] = None]
  /\ Closed
  /\ End(h)
  /\ UNCHANGED <<user, session, key>>

sessions_revoke_others(h, u, s) ==
  /\ CurrentUser(u, s)
  /\ Begin(h, Called("sessions", "others", u, s, u))

\* reauthenticate passes: the right password, or an account without one.
admin_unlock(h, u, s) ==
  /\ AdminUser(u, s) /\ s # None
  /\ Begin(h, Called("unlock", None, u, s, None))

grant_elevation(h) ==
  /\ req[h].pc = "unlock"
  /\ elevated' = [elevated EXCEPT ![req[h].cookie] = req[h].actor]
  /\ stray' = IF session[req[h].cookie].user = req[h].actor
              THEN stray \ {req[h].cookie} ELSE stray \cup {req[h].cookie}
  /\ expired' = expired \ {req[h].cookie}
  /\ End(h)
  /\ UNCHANGED <<user, session, key>>

\* ELEVATION_TTL_SECS are over.
ElevationLapses(s) ==
  /\ elevated[s] # None
  /\ elevated' = [elevated EXCEPT ![s] = None]
  /\ Closed
  /\ UNCHANGED <<user, session, key, req>>

\* Sessions past their idle window or the absolute cap are refused, and the prune pass or
\* the owner's /account page reaps their rows.  No handler ends them: their elevations are
\* left to the TTL.
delete_expired_sessions(S) ==
  /\ S # {} /\ \A s \in S : Live(s)
  /\ session' = [s \in Sessions |-> IF s \in S THEN NoSession ELSE session[s]]
  /\ expired' = expired \cup {s \in S : elevated[s] # None}
  /\ UNCHANGED <<user, elevated, key, req, stray>>

\* Sessions that handlers H were about to delete stay, and nothing deletes them later.
CutOff(H) ==
  session' = [s \in Sessions |->
    IF \E h \in H : /\ Ending(h, session[s].user)
                    /\ session[s].epoch < user[session[s].user].epoch
    THEN [session[s] EXCEPT !.raced = TRUE] ELSE session[s]]

\* The process is restarted: requests are lost and so is every elevation.
Restart ==
  /\ elevated' = [s \in Sessions |-> None]
  /\ stray' = {} /\ expired' = {}
  /\ req' = [h \in Handlers |-> Idle]
  /\ CutOff(Handlers)
  /\ UNCHANGED <<user, key>>

\* reauthenticate passes, then INSERT INTO api_keys: a deletion of the user in between
\* fails the foreign key, which is the request not happening.
api_keys_create(u, s, k) ==
  /\ CurrentUser(u, s) /\ key[k] = None
  /\ key' = [key EXCEPT ![k] = u]
  /\ UNCHANGED <<user, session, elevated, req, excuses>>

\* api_keys_delete: owner-scoped.
api_keys_delete(u, s, k) ==
  /\ CurrentUser(u, s) /\ key[k] = u
  /\ key' = [key EXCEPT ![k] = None]
  /\ UNCHANGED <<user, session, elevated, req, excuses>>

\* The client hangs up or a statement fails.
Drop(h) ==
  /\ req[h].pc # "idle"
  /\ End(h)
  /\ CutOff({h})
  /\ stray' = stray \cup {s \in Sessions : elevated[s] # None /\ Pending(h, s)}
  /\ UNCHANGED <<user, elevated, key, expired>>

-----------------------------------------------------------------------------
Calls(h, u, s) ==
  \/ \E admin \in BOOLEAN : users_create(h, u, s, admin)
  \/ \E v \in Users :
       \/ \E op \in {"delete", "admin", "disabled"} : users_op(h, op, u, s, v)
       \/ users_set_password(h, u, s, v)
  \/ account_password(h, u, s)
  \/ \E t \in Sessions : sessions_revoke(h, u, s, t)
  \/ sessions_revoke_others(h, u, s)
  \/ admin_unlock(h, u, s)
  \/ forward_auth_session(h, u, s)

Continues(h) ==
  \/ \E u \in Users : SetupCreate(h, u) \/ UsersCreated(h, u)
  \/ \E s \in Sessions : open_session(h, s)
  \/ ReadTarget(h) \/ DeleteUser(h) \/ SetPassword(h) \/ SetAdmin(h) \/ SetDisabled(h)
  \/ DeleteSessions(h) \/ RevokeElevations(h)
  \/ EndSession(h) \/ RevokeElevation(h)
  \/ grant_elevation(h)
  \/ Drop(h)

Init ==
  /\ user = [u \in Users |-> EmptyUser("absent")]
  /\ session = [s \in Sessions |-> NoSession]
  /\ elevated = [s \in Sessions |-> None]
  /\ key = [k \in Keys |-> None]
  /\ req = [h \in Handlers |-> Idle]
  /\ stray = {} /\ expired = {}

Next ==
  \/ \E h \in Handlers :
       \/ setup_submit(h)
       \/ \E u \in Users : login_submit(h, u) \/ AutoProvision(h, u)
       \/ \E s \in Sessions : logout(h, s)
       \/ \E u \in Users, s \in Sessions \cup {None} : Calls(h, u, s)
       \/ Continues(h)
  \/ \E s \in Sessions : ElevationLapses(s)
  \/ \E S \in SUBSET Sessions : delete_expired_sessions(S)
  \/ \E u \in Users, s \in Sessions \cup {None}, k \in Keys :
       api_keys_create(u, s, k) \/ api_keys_delete(u, s, k)
  \/ Restart

Spec == Init /\ [][Next]_vars

-----------------------------------------------------------------------------
\* Sessions and keys belong to a user that exists: a login or a key creation that a
\* deletion overtakes opens nothing.
RowsHaveOwners ==
  /\ \A s \in Sessions : Live(s) => Here(session[s].user)
  /\ \A k \in Keys : key[k] # None => Here(key[k])

\* The session stems from an epoch that has ended since it was opened.
Stale(s) ==
  Live(s) /\ ~session[s].raced /\ session[s].epoch < user[session[s].user].epoch

\* Disabling an account or changing its password ends what was opened before: once the
\* handler is past delete_sessions_for_user, no session of the account stems from an
\* older epoch, except one whose login was between its password check and its INSERT
\* (users_set_disabled and users_set_password do not reach it), and those of a handler
\* that was cut off before it deleted them.
RevokedSessionsAreGone ==
  \A s \in Sessions : Stale(s) => \E h \in Handlers : Ending(h, session[s].user)

\* "Every handler that ends a session drops its entry; expiry [...] leaves it to the
\* TTL": an unlocked window is that of a live session of the user who unlocked it, or a
\* handler is about to close it, or its session expired.  The exceptions are an unlock
\* that came too late or for another user, and a handler that was cut off.
WindowsEndWithSessions ==
  \A s \in Sessions :
    elevated[s] # None /\ s \notin stray
      => \/ session[s].user = elevated[s]
         \/ ~Live(s) /\ (s \in expired \/ \E h \in Handlers : Pending(h, s))

\* The last enabled administrator is lost only by the hand of someone who has
\* meanwhile ceased to be one: the self-checks make count_enabled_admins redundant
\* as long as no two administrators act on each other at the same time.
LastAdminLostByStaleActor ==
  [][EnabledAdmins # {} /\ EnabledAdmins' = {}
       => \E h \in Handlers :
            /\ req[h].pc = "write" /\ req'[h] # req[h]
            /\ req[h].actor \notin EnabledAdmins]_vars

\* Who may act on whom, carried from the check to the write.
NobodyActsOnThemselves ==
  \A h \in Handlers :
    req[h].op \in {"delete", "admin", "disabled"} => req[h].actor # req[h].target

\* Of two password changes that spare different sessions each ends the other's: a stale
\* session always meets a handler that does not spare it.
StaleAreDoomed ==
  \A s \in Sessions :
    Stale(s) => \E h \in Handlers : Ending(h, session[s].user) /\ Kept(req[h]) # s

\* What a handler has in hand at each of its steps.
Equipped(q) ==
  /\ q.pc \in {"open", "target", "write", "sessions"} => q.target \in Users
  /\ q.pc \in {"target", "write", "sessions"} => q.op # "logout"
  /\ q.pc = "end_session" => q.op = "logout" /\ q.target \in Sessions
  /\ q.pc = "finish" => q.target \in IF q.op = "logout" THEN Sessions ELSE Users
  /\ q.pc = "unlock" => q.actor \in Users /\ q.cookie \in Sessions

\* The types and all that the steps preserve together.
AccountsInv ==
  TypeOK /\ RowsHaveOwners /\ StaleAreDoomed /\ WindowsEndWithSessions
    /\ NobodyActsOnThemselves /\ \A h \in Handlers : Equipped(req[h])
=============================================================================
