--------------------------- MODULE AccountsProofs ---------------------------
(***************************************************************************)
(* Proofs about Accounts, for any number of users, sessions, keys and      *)
(* requests in flight.                                                     *)
(***************************************************************************)
EXTENDS Accounts, TLAPS

USE DEF excuses

\* What is true of one handler, wherever it stands.
Sound(q) ==
  /\ q \in Request /\ Equipped(q)
  /\ q.op \in {"delete", "admin", "disabled"} => q.actor # q.target

\* Session s is about to be deleted by a handler that does not spare it.
Doomed(s) == \E h \in Handlers : Ending(h, session[s].user) /\ Kept(req[h]) # s

\* The window of s is in order.
Windowed(s) ==
  elevated[s] # None /\ s \notin stray
    => \/ session[s].user = elevated[s]
       \/ ~Live(s) /\ (s \in expired \/ \E h \in Handlers : Pending(h, s))

\* The rows have their types.
RowsOK ==
  /\ user \in [Users -> User] /\ session \in [Sessions -> Session]
  /\ elevated \in [Sessions -> Users \cup {None}] /\ key \in [Keys -> Users \cup {None}]
  /\ stray \subseteq Sessions /\ expired \subseteq Sessions

LEMMA InvByParts ==
  AccountsInv <=> /\ RowsOK /\ RowsHaveOwners
                  /\ req \in [Handlers -> Request]
                  /\ \A h \in Handlers : Sound(req[h])
                  /\ \A s \in Sessions : Stale(s) => Doomed(s)
                  /\ \A s \in Sessions : Windowed(s)
  BY DEF AccountsInv, TypeOK, RowsOK, Sound, Doomed, Windowed, StaleAreDoomed,
         WindowsEndWithSessions, NobodyActsOnThemselves

LEMMA InvByPartsPrime ==
  AccountsInv' <=> /\ RowsOK' /\ RowsHaveOwners'
                   /\ req' \in [Handlers -> Request]
                   /\ \A h \in Handlers : Sound(req'[h])
                   /\ \A s \in Sessions : Stale(s)' => Doomed(s)'
                   /\ \A s \in Sessions : Windowed(s)'
  BY DEF AccountsInv, TypeOK, RowsOK, Sound, Doomed, Windowed, StaleAreDoomed,
         WindowsEndWithSessions, NobodyActsOnThemselves

-----------------------------------------------------------------------------
(* Requests. *)

LEMMA IdleSound == Sound(Idle) /\ Idle.pc = "idle"
  BY DEF Sound, Idle, Request, Equipped, None

\* Where a handler may begin, and what it may be about.
FirstSteps ==
  {"setup", "open", "create", "target", "write", "sessions", "unlock", "end_session"}
Operations == {None, "delete", "password", "admin", "disabled", "others", "logout"}

\* The fields of a request as Called builds it.
LEMMA CalledFields ==
  ASSUME TypeOK,
         NEW pc \in FirstSteps, NEW op \in Operations,
         NEW u \in Users \cup {None}, NEW s \in Sessions \cup {None},
         NEW target \in Users \cup Sessions \cup {None}, op = "admin" => u \in Users
  PROVE  LET q == Called(pc, op, u, s, target) IN
         /\ q \in Request /\ q.pc = pc /\ q.op = op /\ q.actor = u /\ q.cookie = s
         /\ q.target = target
  <1>1. PICK b \in BOOLEAN : b = IF op = "admin" THEN user[u].hash ELSE FALSE
    BY DEF TypeOK, User
  <1>2. Called(pc, op, u, s, target) =
          [Idle EXCEPT !.pc = pc, !.op = op, !.actor = u, !.cookie = s, !.target = target,
                       !.hash = b]
    BY <1>1 DEF Called
  <1>3. Idle \in Request
    BY IdleSound DEF Sound
  <1> DEFINE q == Called(pc, op, u, s, target)
  <1>4. q.pc = pc /\ q.op = op /\ q.actor = u /\ q.cookie = s /\ q.target = target
    BY <1>2, <1>3 DEF Request
  <1>5. [Idle EXCEPT !.pc = pc, !.op = op, !.actor = u, !.cookie = s, !.target = target,
                       !.hash = b] \in Request
    <2>1. PICK P : P = {"idle", "setup", "open", "create", "target", "write", "sessions",
                        "finish", "unlock", "end_session"}
      OBVIOUS
    <2>2. pc \in P
      BY <2>1 DEF FirstSteps
    <2>3. Request = [pc : P, op : Operations, actor : Users \cup {None},
                     cookie : Sessions \cup {None}, target : Users \cup Sessions \cup {None},
                     value : BOOLEAN, epoch : Nat, hash : BOOLEAN]
      BY <2>1 DEF Request, Operations
    <2> QED BY <1>3, <2>2, <2>3
  <1> HIDE DEF q
  <1>6. q \in Request /\ q = Called(pc, op, u, s, target)
    BY <1>2, <1>5 DEF q
  <1> QED BY <1>4, <1>6

LEMMA CalledSound ==
  ASSUME TypeOK,
         NEW pc \in FirstSteps, NEW op \in Operations,
         NEW u \in Users \cup {None}, NEW s \in Sessions \cup {None},
         NEW target \in Users \cup Sessions \cup {None},
         op \in {"delete", "admin", "disabled"} => u # target,
         op = "admin" => u \in Users,
         pc \in {"open", "target", "write", "sessions"} => target \in Users,
         pc \in {"target", "write", "sessions"} => op # "logout",
         pc = "end_session" => op = "logout" /\ target \in Sessions,
         pc = "unlock" => u \in Users /\ s \in Sessions
  PROVE  Sound(Called(pc, op, u, s, target))
  <1>1. PICK q : q = Called(pc, op, u, s, target)
    OBVIOUS
  <1>2. /\ q \in Request /\ q.pc = pc /\ q.op = op /\ q.actor = u /\ q.cookie = s
        /\ q.target = target
    BY <1>1, CalledFields
  <1>3. Sound(q)
    BY <1>2 DEF Sound, Equipped, FirstSteps
  <1> QED BY <1>1, <1>3

LEMMA WithEpoch ==
  ASSUME NEW q, Sound(q), NEW n \in Nat
  PROVE  Sound([q EXCEPT !.epoch = n])
  BY DEF Sound, Request, Equipped

LEMMA WithValue ==
  ASSUME NEW q, Sound(q), NEW b \in BOOLEAN
  PROVE  Sound([q EXCEPT !.value = b])
  BY DEF Sound, Request, Equipped

\* Goto leaves all but the program counter as it is.
LEMMA GotoStep ==
  ASSUME req \in [Handlers -> Request], NEW h \in Handlers, Sound(req[h]),
         NEW pc \in {"sessions", "finish"}, Goto(h, pc),
         pc = "sessions" => req[h].pc = "write",
         pc = "finish" => req[h].pc \in {"write", "sessions", "end_session"}
  PROVE  \E n : /\ req' = [req EXCEPT ![h] = n]
                /\ Sound(n) /\ n.pc = pc /\ n.op = req[h].op /\ n.target = req[h].target
                /\ Kept(n) = Kept(req[h])
  <1>1. PICK q : q = req[h]
    OBVIOUS
  <1>2. PICK n : n = [q EXCEPT !.pc = pc, !.value = FALSE]
    OBVIOUS
  <1>3. req' = [req EXCEPT ![h] = n]
    BY <1>1, <1>2 DEF Goto
  <1>4. /\ n \in Request /\ n.pc = pc /\ n.op = q.op /\ n.target = q.target
        /\ n.actor = q.actor /\ n.cookie = q.cookie
    BY <1>1, <1>2 DEF Sound, Request
  <1>5. Sound(n)
    BY <1>1, <1>4 DEF Sound, Equipped
  <1>6. Kept(n) = Kept(q)
    BY <1>4 DEF Kept
  <1> QED BY <1>1, <1>3, <1>4, <1>5, <1>6

-----------------------------------------------------------------------------
(* Frames. *)

\* A step of handler h outside of "sessions" takes no session's doom away.
LEMMA DoomStays ==
  ASSUME req \in [Handlers -> Request], NEW h \in Handlers, NEW q,
         req' = [req EXCEPT ![h] = q], req[h].pc # "sessions",
         NEW s \in Sessions, session'[s].user = session[s].user, Doomed(s)
  PROVE  Doomed(s)'
  BY DEF Doomed, Ending

\* A step of h outside of "finish" closes no window that was to be closed.
LEMMA PendingStays ==
  ASSUME req \in [Handlers -> Request], NEW h \in Handlers, NEW q,
         req' = [req EXCEPT ![h] = q], req[h].pc # "finish",
         NEW s \in Sessions, elevated'[s] = elevated[s], NEW g \in Handlers, Pending(g, s)
  PROVE  Pending(g, s)'
  <1>1. g # h
    BY DEF Pending
  <1>2. req'[g] = req[g]
    BY <1>1
  <1> QED BY <1>2 DEF Pending

\* A step that leaves sessions and windows alone and neither removes a user nor ends
\* an epoch.
LEMMA QuietStep ==
  ASSUME AccountsInv, NEW h \in Handlers, NEW q,
         req' = [req EXCEPT ![h] = q], Sound(q), req[h].pc \notin {"sessions", "finish"},
         user' \in [Users -> User],
         \A u \in Users : Here(u) => user'[u].row = "here" /\ user'[u].epoch = user[u].epoch,
         UNCHANGED <<session, elevated, key, excuses>>
  PROVE  AccountsInv'
  <1>1. /\ RowsOK /\ RowsHaveOwners /\ req \in [Handlers -> Request]
        /\ \A g \in Handlers : Sound(req[g])
        /\ \A s \in Sessions : Stale(s) => Doomed(s)
        /\ \A s \in Sessions : Windowed(s)
    BY InvByParts
  <1>2. RowsOK'
    BY <1>1 DEF RowsOK
  <1>3. RowsHaveOwners'
    BY <1>1 DEF RowsOK, RowsHaveOwners, Here, Live
  <1>4. req' \in [Handlers -> Request] /\ \A g \in Handlers : Sound(req'[g])
    BY <1>1 DEF Sound
  <1>5. ASSUME NEW s \in Sessions, Stale(s)' PROVE Doomed(s)'
    <2>1. Stale(s)
      BY <1>1, <1>5 DEF Stale, Live, RowsHaveOwners, Here
    <2> QED BY <2>1, <1>1, DoomStays
  <1>6. ASSUME NEW s \in Sessions PROVE Windowed(s)'
    <2>1. Live(s)' <=> Live(s)
      BY DEF Live
    <2>2. CASE ~Live(s) /\ (s \in expired \/ \E g \in Handlers : Pending(g, s))
      BY <2>1, <2>2, <1>1, PendingStays DEF Windowed
    <2> QED BY <2>2, <1>1 DEF Windowed
  <1> QED BY <1>2, <1>3, <1>4, <1>5, <1>6, InvByPartsPrime

\* Begin, and every read that ends a step.
LEMMA ReadStep ==
  ASSUME AccountsInv, NEW h \in Handlers, NEW q,
         req' = [req EXCEPT ![h] = q], Sound(q), req[h].pc \notin {"sessions", "finish"},
         UNCHANGED <<rows, excuses>>
  PROVE  AccountsInv'
  <1>1. UNCHANGED <<user, session, elevated, key, excuses>>
    BY DEF rows
  <1>2. user' \in [Users -> User] /\ \A u \in Users : Here(u) => user'[u].row = "here"
    BY <1>1 DEF AccountsInv, TypeOK, Here
  <1> QED BY <1>1, <1>2, QuietStep

LEMMA BeginStep ==
  ASSUME AccountsInv, NEW h \in Handlers, NEW q, Sound(q), Begin(h, q)
  PROVE  AccountsInv'
  BY ReadStep DEF Begin
-----------------------------------------------------------------------------
(* Signing in and the beginnings of the other handlers. *)

LEMMA CallsInv ==
  ASSUME AccountsInv, NEW h \in Handlers, NEW u \in Users, NEW s \in Sessions \cup {None},
         Calls(h, u, s)
  PROVE  AccountsInv'
  <1> USE DEF None, FirstSteps, Operations
  <1>0. TypeOK
    BY DEF AccountsInv
  <1>1. ASSUME NEW admin \in BOOLEAN, users_create(h, u, s, admin)
        PROVE  AccountsInv'
    BY <1>0, <1>1, CalledSound, WithValue, BeginStep DEF users_create
  <1>2. ASSUME NEW v \in Users, NEW op \in {"delete", "admin", "disabled"},
               users_op(h, op, u, s, v)
        PROVE  AccountsInv'
    <2>1. PICK c \in Sessions \cup {None} : c = IF op = "admin" THEN s ELSE None
      OBVIOUS
    <2>2. v # u /\ Begin(h, Called("target", op, u, c, v))
      BY <1>2, <2>1 DEF users_op
    <2> QED BY <1>0, <2>2, CalledSound, BeginStep
  <1>3. ASSUME NEW v \in Users, users_set_password(h, u, s, v)
        PROVE  AccountsInv'
    <2>1. PICK c \in Sessions \cup {None} : c = IF u = v THEN s ELSE None
      OBVIOUS
    <2>2. Begin(h, Called("target", "password", u, c, v))
      BY <1>3, <2>1 DEF users_set_password
    <2> QED BY <1>0, <2>2, CalledSound, BeginStep
  <1>4. CASE account_password(h, u, s)
    BY <1>0, <1>4, CalledSound, BeginStep DEF account_password
  <1>5. ASSUME NEW t \in Sessions, sessions_revoke(h, u, s, t)
        PROVE  AccountsInv'
    BY <1>0, <1>5, CalledSound, BeginStep DEF sessions_revoke
  <1>6. CASE sessions_revoke_others(h, u, s)
    BY <1>0, <1>6, CalledSound, BeginStep DEF sessions_revoke_others
  <1>7. CASE admin_unlock(h, u, s)
    BY <1>0, <1>7, CalledSound, BeginStep DEF admin_unlock
  <1>8. CASE forward_auth_session(h, u, s)
    <2>1. user[u].epoch \in Nat
      BY <1>0 DEF TypeOK, User
    <2> QED BY <1>0, <1>8, <2>1, CalledSound, WithEpoch, BeginStep DEF forward_auth_session
  <1> QED BY <1>1, <1>2, <1>3, <1>4, <1>5, <1>6, <1>7, <1>8 DEF Calls

LEMMA LoginInv ==
  ASSUME AccountsInv, NEW h \in Handlers, NEW u \in Users, login_submit(h, u)
  PROVE  AccountsInv'
  <1>0. TypeOK
    BY DEF AccountsInv
  <1>1. user[u].epoch \in Nat
    BY <1>0 DEF TypeOK, User
  <1> QED BY <1>0, <1>1, CalledSound, WithEpoch, BeginStep DEF login_submit, None, FirstSteps, Operations

LEMMA SetupInv ==
  ASSUME AccountsInv, NEW h \in Handlers, setup_submit(h)
  PROVE  AccountsInv'
  BY CalledSound, BeginStep DEF setup_submit, AccountsInv, None, FirstSteps, Operations

LEMMA LogoutInv ==
  ASSUME AccountsInv, NEW h \in Handlers, NEW s \in Sessions, logout(h, s)
  PROVE  AccountsInv'
  BY CalledSound, BeginStep DEF logout, AccountsInv, None, FirstSteps, Operations

\* An INSERT INTO users by a handler that goes on as q.
LEMMA CreateStep ==
  ASSUME AccountsInv, NEW h \in Handlers, NEW q, Sound(q), NEW u \in Users,
         NEW admin \in BOOLEAN, NEW hash \in BOOLEAN, create_user(u, admin, hash),
         req[h].pc \notin {"sessions", "finish"}, req' = [req EXCEPT ![h] = q],
         UNCHANGED <<session, elevated, key, excuses>>
  PROVE  AccountsInv'
  <1>1. [row |-> "here", admin |-> admin, disabled |-> FALSE, hash |-> hash, epoch |-> 0] \in User
    BY DEF User
  <1>2. user \in [Users -> User]
    BY DEF AccountsInv, TypeOK
  <1>3. user' \in [Users -> User] /\ \A v \in Users : v # u => user'[v] = user[v]
    BY <1>1, <1>2 DEF create_user
  <1>4. ~Here(u)
    BY DEF create_user, Here
  <1> QED BY <1>3, <1>4, QuietStep DEF Here

LEMMA CreatesInv ==
  ASSUME AccountsInv, NEW h \in Handlers, NEW u \in Users,
         SetupCreate(h, u) \/ AutoProvision(h, u) \/ UsersCreated(h, u)
  PROVE  AccountsInv'
  <1>1. Sound(Called("open", None, None, None, u)) /\ Sound(Idle)
    BY CalledSound, IdleSound DEF AccountsInv, None, FirstSteps, Operations
  <1>2. CASE SetupCreate(h, u)
    BY <1>1, <1>2, CreateStep DEF SetupCreate
  <1>3. CASE AutoProvision(h, u)
    BY <1>1, <1>3, CreateStep DEF AutoProvision
  <1>4. CASE UsersCreated(h, u)
    <2>1. req[h].value \in BOOLEAN
      BY DEF AccountsInv, TypeOK, Request
    <2> QED BY <1>1, <1>4, <2>1, CreateStep DEF UsersCreated, End
  <1> QED BY <1>2, <1>3, <1>4

LEMMA ReadTargetInv ==
  ASSUME AccountsInv, NEW h \in Handlers, ReadTarget(h)
  PROVE  AccountsInv'
  <1>0. req[h].pc = "target" /\ UNCHANGED <<rows, excuses>>
    BY DEF ReadTarget
  <1>1. Sound(req[h]) /\ req \in [Handlers -> Request]
    BY InvByParts
  <1>2. CASE End(h)
    BY <1>0, <1>2, IdleSound, ReadStep DEF End
  <1>3. CASE ~End(h)
    <2>1. PICK q \in Request : q = req[h]
      BY <1>1
    <2>2. PICK v \in Users : v = q.target
      BY <1>0, <1>1, <2>1 DEF Sound, Equipped
    <2>3. user[v].admin \in BOOLEAN /\ user[v].disabled \in BOOLEAN
      BY DEF AccountsInv, TypeOK, User
    <2>4. PICK b \in BOOLEAN, c \in Sessions \cup {None} :
            /\ b = IF q.op = "admin" THEN ~user[v].admin
                   ELSE IF q.op = "disabled" THEN ~user[v].disabled ELSE FALSE
            /\ c = IF q.op = "admin" THEN None ELSE q.cookie
      BY <2>3 DEF Request
    <2>5. req' = [req EXCEPT ![h] =
            [q EXCEPT !.pc = "write", !.hash = FALSE, !.cookie = c, !.value = b]]
      BY <1>1, <1>3, <2>1, <2>2, <2>4 DEF ReadTarget
    <2>6. Sound([q EXCEPT !.pc = "write", !.hash = FALSE, !.cookie = c, !.value = b])
      BY <1>0, <1>1, <2>1 DEF Sound, Equipped, Request
    <2> QED BY <1>0, <2>5, <2>6, ReadStep
  <1> QED BY <1>2, <1>3
-----------------------------------------------------------------------------
(* Writes to the users. *)

\* What the handler at a write has in hand.
LEMMA AtWrite ==
  ASSUME AccountsInv, NEW h \in Handlers, req[h].pc \in {"write", "sessions"}
  PROVE  /\ RowsOK /\ RowsHaveOwners /\ req \in [Handlers -> Request]
         /\ Sound(req[h]) /\ req[h] \in Request
         /\ req[h].target \in Users /\ req[h].op # "logout"
         /\ req[h].value \in BOOLEAN
  BY InvByParts DEF Sound, Equipped, Request

LEMMA AdminFlag ==
  ASSUME user \in [Users -> User], NEW u \in Users, NEW b \in BOOLEAN, set_user_admin(u, b)
  PROVE  /\ user' \in [Users -> User]
         /\ \A v \in Users : user'[v].row = user[v].row /\ user'[v].epoch = user[v].epoch
  BY DEF set_user_admin, User

LEMMA DisabledFlag ==
  ASSUME user \in [Users -> User], NEW u \in Users, NEW b \in BOOLEAN, set_user_disabled(u, b)
  PROVE  /\ user' \in [Users -> User]
         /\ \A v \in Users : /\ user'[v].row = user[v].row
                             /\ user'[v].epoch >= user[v].epoch
                             /\ v # u \/ ~b => user'[v].epoch = user[v].epoch
  <1>1. PICK e \in Nat : e = IF b THEN user[u].epoch + 1 ELSE user[u].epoch
    BY DEF User
  <1>2. PICK r \in User : r = user[u]
    OBVIOUS
  <1>3. CASE Here(u)
    <2>1. user' = [user EXCEPT ![u] = [r EXCEPT !.disabled = b, !.epoch = e]]
      BY <1>1, <1>2, <1>3 DEF set_user_disabled, User
    <2>2. PICK n : n = [r EXCEPT !.disabled = b, !.epoch = e]
      OBVIOUS
    <2>3. n \in User /\ n.row = r.row /\ n.epoch = e
      BY <2>2 DEF User
    <2>4. user' = [user EXCEPT ![u] = n]
      BY <2>1, <2>2
    <2>5. \A v \in Users : user[v].epoch \in Nat
      BY DEF User
    <2> QED BY <1>1, <1>2, <2>3, <2>4, <2>5
  <1>4. CASE ~Here(u)
    BY <1>4 DEF set_user_disabled, User
  <1> QED BY <1>3, <1>4

LEMMA SetAdminInv ==
  ASSUME AccountsInv, NEW h \in Handlers, SetAdmin(h)
  PROVE  AccountsInv'
  <1>1. req[h].pc = "write"
    BY DEF SetAdmin
  <1>2. /\ user' \in [Users -> User]
        /\ \A v \in Users : user'[v].row = user[v].row /\ user'[v].epoch = user[v].epoch
    BY <1>1, AtWrite, AdminFlag DEF SetAdmin, RowsOK
  <1> QED BY <1>1, <1>2, IdleSound, QuietStep DEF SetAdmin, End, Here

\* A step of h that begins a new epoch of u, and spares at most the session that the
\* handler keeps.
EpochEnds(h, q, u) ==
  /\ req' = [req EXCEPT ![h] = q] /\ Sound(q) /\ req[h].pc = "write"
  /\ q.pc = "sessions" /\ q.op \in {"password", "disabled"} /\ q.target = u
  /\ user' \in [Users -> User]
  /\ \A v \in Users : user'[v].row = user[v].row
  /\ \A v \in Users \ {u} : user'[v].epoch = user[v].epoch
  /\ session' \in [Sessions -> Session]
  /\ \A s \in Sessions : /\ session'[s].user = session[s].user
                         /\ session'[s].raced = session[s].raced
                         /\ session[s].user # u => session'[s].epoch = session[s].epoch
  /\ \A s \in Sessions :
       Kept(q) = s /\ session[s].user = u /\ ~session[s].raced
         => ~(session'[s].epoch < user'[u].epoch)
  /\ UNCHANGED <<elevated, key, excuses>>

LEMMA EpochStep ==
  ASSUME AccountsInv, NEW h \in Handlers, NEW q, NEW u \in Users, EpochEnds(h, q, u)
  PROVE  AccountsInv'
  <1> USE DEF EpochEnds
  <1>1. /\ RowsOK /\ RowsHaveOwners /\ req \in [Handlers -> Request]
        /\ \A g \in Handlers : Sound(req[g])
        /\ \A s \in Sessions : Stale(s) => Doomed(s)
        /\ \A s \in Sessions : Windowed(s)
    BY InvByParts
  <1>2. RowsOK'
    BY <1>1 DEF RowsOK
  <1>3. RowsHaveOwners'
    BY <1>1 DEF RowsOK, RowsHaveOwners, Here, Live
  <1>4. req' \in [Handlers -> Request] /\ \A g \in Handlers : Sound(req'[g])
    BY <1>1 DEF Sound
  <1>5. ASSUME NEW s \in Sessions, Stale(s)' PROVE Doomed(s)'
    <2>1. CASE session[s].user = u
      <3>1. Kept(q) # s
        BY <1>5, <2>1 DEF Stale, Live
      <3>2. req'[h] = q /\ session'[s].user = u
        BY <1>1, <2>1
      <3>3. Ending(h, session[s].user)'
        BY <3>2 DEF Ending
      <3> QED BY <3>1, <3>2, <3>3 DEF Doomed
    <2>2. CASE session[s].user # u
      <3>1. Stale(s)
        BY <1>1, <1>5, <2>2 DEF Stale, Live, RowsHaveOwners, Here
      <3> QED BY <3>1, <1>1, DoomStays
    <2> QED BY <2>1, <2>2
  <1>6. ASSUME NEW s \in Sessions PROVE Windowed(s)'
    <2>1. Live(s)' <=> Live(s)
      BY DEF Live
    <2>2. CASE ~Live(s) /\ (s \in expired \/ \E g \in Handlers : Pending(g, s))
      BY <2>1, <2>2, <1>1, PendingStays DEF Windowed
    <2> QED BY <2>2, <1>1 DEF Windowed
  <1> QED BY <1>2, <1>3, <1>4, <1>5, <1>6, InvByPartsPrime

LEMMA SetDisabledInv ==
  ASSUME AccountsInv, NEW h \in Handlers, SetDisabled(h)
  PROVE  AccountsInv'
  <1>1. req[h].pc = "write" /\ req[h].op = "disabled"
    BY DEF SetDisabled
  <1>2. PICK u \in Users, q \in Request : u = req[h].target /\ q = req[h] /\ Sound(q)
    BY <1>1, AtWrite
  <1>3. /\ RowsOK /\ req \in [Handlers -> Request] /\ q.value \in BOOLEAN
        /\ UNCHANGED <<session, elevated, key, excuses>>
    BY <1>1, <1>2, AtWrite DEF SetDisabled
  <1>4. /\ user' \in [Users -> User]
        /\ \A v \in Users : /\ user'[v].row = user[v].row
                            /\ user'[v].epoch >= user[v].epoch
                            /\ v # u \/ ~q.value => user'[v].epoch = user[v].epoch
    BY <1>2, <1>3, DisabledFlag DEF SetDisabled, RowsOK
  <1>5. CASE q.value
    <2>1. Goto(h, "sessions")
      BY <1>2, <1>5 DEF SetDisabled
    <2>2. PICK n : /\ req' = [req EXCEPT ![h] = n] /\ Sound(n) /\ n.pc = "sessions"
                   /\ n.op = "disabled" /\ n.target = u /\ Kept(n) = Kept(req[h])
      BY <1>1, <1>2, <1>3, <2>1, GotoStep
    <2>3. Kept(n) = None
      BY <2>2 DEF Kept
    <2>4. \A s \in Sessions : Kept(n) # s
      BY <2>3, NoneIsNoId
    <2>5. EpochEnds(h, n, u)
      BY <1>1, <1>3, <1>4, <2>2, <2>4 DEF EpochEnds, RowsOK
    <2> QED BY <2>5, EpochStep
  <1>6. CASE ~q.value
    <2>1. req' = [req EXCEPT ![h] = Idle]
      BY <1>2, <1>6 DEF SetDisabled, End
    <2> QED BY <1>1, <1>3, <1>4, <1>6, <2>1, IdleSound, QuietStep DEF Here
  <1> QED BY <1>5, <1>6

LEMMA SetPasswordInv ==
  ASSUME AccountsInv, NEW h \in Handlers, SetPassword(h)
  PROVE  AccountsInv'
  <1>1. req[h].pc = "write" /\ req[h].op = "password"
    BY DEF SetPassword
  <1>2. PICK u \in Users, q \in Request : u = req[h].target /\ q = req[h] /\ Sound(q)
    BY <1>1, AtWrite
  <1>3. PICK k : k = Kept(q)
    OBVIOUS
  <1>4. /\ RowsOK /\ RowsHaveOwners /\ req \in [Handlers -> Request]
        /\ set_user_password(u, k) /\ Goto(h, "sessions")
        /\ UNCHANGED <<elevated, key, excuses>>
    BY <1>1, <1>2, <1>3, AtWrite DEF SetPassword
  <1>5. PICK n : /\ req' = [req EXCEPT ![h] = n] /\ Sound(n) /\ n.pc = "sessions"
                 /\ n.op = "password" /\ n.target = u /\ Kept(n) = Kept(req[h])
    BY <1>1, <1>2, <1>4, GotoStep
  <1>6. Kept(n) = k
    BY <1>2, <1>3, <1>5
  <1>8. CASE Here(u)
    <2>1. user' = [user EXCEPT ![u].hash = TRUE, ![u].epoch = @ + 1]
      BY <1>4, <1>8 DEF set_user_password
    <2>2. /\ user' \in [Users -> User] /\ user'[u].epoch = user[u].epoch + 1
          /\ user[u].epoch + 1 \in Nat
          /\ \A v \in Users : user'[v].row = user[v].row
          /\ \A v \in Users \ {u} : user'[v].epoch = user[v].epoch
      BY <2>1, <1>4 DEF RowsOK, User
    <2>3. CASE k \in SessionsOf(u) /\ ~session[k].raced
      <3>1. session' = [session EXCEPT ![k].epoch = user[u].epoch + 1] /\ session[k].user = u
        BY <1>4, <1>8, <2>3 DEF set_user_password, SessionsOf
      <3>2. /\ session' \in [Sessions -> Session]
            /\ \A s \in Sessions : /\ session'[s].user = session[s].user
                                   /\ session'[s].raced = session[s].raced
                                   /\ s # k => session'[s].epoch = session[s].epoch
            /\ session'[k].epoch = user[u].epoch + 1
        BY <3>1, <1>4, <2>2, <2>3 DEF RowsOK, Session, SessionsOf
      <3>3. \A s \in Sessions : Kept(n) = s => ~(session'[s].epoch < user'[u].epoch)
        BY <1>6, <2>2, <3>2
      <3>4. \A s \in Sessions : session[s].user # u => session'[s].epoch = session[s].epoch
        BY <3>1, <3>2
      <3>5. EpochEnds(h, n, u)
        BY <1>1, <1>4, <1>5, <2>2, <3>2, <3>3, <3>4 DEF EpochEnds
      <3> QED BY <3>5, EpochStep
    <2>4. CASE ~(k \in SessionsOf(u) /\ ~session[k].raced)
      <3>1. session' = session
        BY <1>4, <2>4 DEF set_user_password
      <3>2. \A s \in Sessions : ~(k = s /\ session[s].user = u /\ ~session[s].raced)
        BY <2>4 DEF SessionsOf
      <3> QED BY <1>1, <1>4, <1>5, <1>6, <2>2, <3>1, <3>2, EpochStep DEF EpochEnds, RowsOK
    <2> QED BY <2>3, <2>4
  <1>9. CASE ~Here(u)
    <2>1. user' = user /\ session' = session
      BY <1>4, <1>9 DEF set_user_password
    <2>2. \A s \in Sessions : session[s].user # u
      BY <1>4, <1>9, NoneIsNoId DEF RowsHaveOwners, Live
    <2> QED BY <1>1, <1>4, <1>5, <1>6, <2>1, <2>2, EpochStep DEF EpochEnds, RowsOK
  <1> QED BY <1>8, <1>9
-----------------------------------------------------------------------------
(* Sessions come and go. *)

LEMMA OpenSessionInv ==
  ASSUME AccountsInv, NEW h \in Handlers, NEW t \in Sessions, open_session(h, t)
  PROVE  AccountsInv'
  <1>1. /\ RowsOK /\ RowsHaveOwners /\ req \in [Handlers -> Request]
        /\ \A g \in Handlers : Sound(req[g])
        /\ \A s \in Sessions : Stale(s) => Doomed(s)
        /\ \A s \in Sessions : Windowed(s)
    BY InvByParts
  <1>2. /\ req[h].pc = "open" /\ ~Live(t) /\ elevated[t] = None
        /\ req' = [req EXCEPT ![h] = Idle] /\ UNCHANGED <<user, elevated, key, excuses>>
    BY DEF open_session, FreshSession, End
  <1>3. PICK u \in Users, e \in Nat : u = req[h].target /\ e = req[h].epoch
    BY <1>1, <1>2 DEF Sound, Equipped, Request
  <1>4. PICK b \in BOOLEAN : b = (e < user[u].epoch)
    <2>1. (e < user[u].epoch) \in BOOLEAN
      OBVIOUS
    <2> QED BY <2>1, Zenon
  <1>5. CASE Here(u)
    <2>1. PICK r : r = [user |-> u, epoch |-> e, raced |-> b]
      OBVIOUS
    <2>2. session' = [session EXCEPT ![t] = r]
      BY <1>3, <1>4, <1>5, <2>1 DEF open_session
    <2>3. r \in Session /\ r.user = u /\ r.epoch = e /\ r.raced = b
      BY <2>1 DEF Session
    <2>4. RowsOK'
      BY <1>1, <1>2, <2>2, <2>3 DEF RowsOK
    <2>5. RowsHaveOwners'
      BY <1>1, <1>2, <1>5, <2>2, <2>3 DEF RowsOK, RowsHaveOwners, Here, Live
    <2>6. req' \in [Handlers -> Request] /\ \A g \in Handlers : Sound(req'[g])
      BY <1>1, <1>2, IdleSound DEF Sound
    <2>7. ASSUME NEW s \in Sessions, Stale(s)' PROVE Doomed(s)'
      <3>1. CASE s = t
        BY <1>1, <1>2, <1>4, <2>2, <2>3, <2>7, <3>1 DEF Stale, RowsOK
      <3>2. CASE s # t
        <4>1. session'[s] = session[s]
          BY <1>1, <2>2, <3>2
        <4>2. Stale(s)
          BY <1>2, <2>7, <4>1 DEF Stale, Live
        <4> QED BY <1>1, <1>2, <4>1, <4>2, DoomStays
      <3> QED BY <3>1, <3>2
    <2>8. ASSUME NEW s \in Sessions PROVE Windowed(s)'
      <3>1. CASE s = t
        BY <1>2, <3>1 DEF Windowed
      <3>2. CASE s # t
        <4>1. session'[s] = session[s] /\ (Live(s)' <=> Live(s))
          BY <1>1, <2>2, <3>2 DEF RowsOK, Live
        <4>2. CASE ~Live(s) /\ \E g \in Handlers : Pending(g, s)
          BY <1>1, <1>2, <4>1, <4>2, PendingStays DEF Windowed
        <4> QED BY <1>1, <1>2, <4>1, <4>2 DEF Windowed
      <3> QED BY <3>1, <3>2
    <2> QED BY <2>4, <2>5, <2>6, <2>7, <2>8, InvByPartsPrime
  <1>6. CASE ~Here(u)
    <2>1. UNCHANGED <<rows, excuses>>
      BY <1>2, <1>3, <1>6 DEF open_session, rows
    <2> QED BY <1>2, <2>1, IdleSound, ReadStep
  <1> QED BY <1>5, <1>6

\* Handler h deletes the sessions D, which are now its to close the windows of.
Deletes(h, q, D) ==
  /\ req' = [req EXCEPT ![h] = q] /\ Sound(q) /\ q.pc = "finish" /\ req[h].pc # "finish"
  /\ session' = [s \in Sessions |-> IF s \in D THEN NoSession ELSE session[s]]
  /\ \A s \in Sessions \ D : Stale(s) => \E g \in Handlers :
       g # h /\ Ending(g, session[s].user) /\ Kept(req[g]) # s
  /\ \A s \in D \cap Sessions : IF q.op = "logout" THEN q.target = s
                  ELSE session[s].user = q.target /\ Kept(q) # s
  /\ user' \in [Users -> User]
  /\ \A s \in Sessions \ D : Live(s) =>
       LET u == session[s].user IN user'[u].row = "here" /\ user'[u].epoch = user[u].epoch
  /\ key' \in [Keys -> Users \cup {None}]
  /\ \A k \in Keys : key'[k] # None => key'[k] \in Users /\ user'[key'[k]].row = "here"
  /\ UNCHANGED <<elevated, excuses>>

LEMMA DeletesStep ==
  ASSUME AccountsInv, NEW h \in Handlers, NEW q, NEW D, Deletes(h, q, D)
  PROVE  AccountsInv'
  <1> USE DEF Deletes
  <1>1. /\ RowsOK /\ RowsHaveOwners /\ req \in [Handlers -> Request]
        /\ \A g \in Handlers : Sound(req[g])
        /\ \A s \in Sessions : Windowed(s)
    BY InvByParts
  <1>2. NoSession \in Session /\ NoSession.user = None
    BY DEF NoSession, Session
  <1>3. RowsOK'
    BY <1>1, <1>2 DEF RowsOK
  <1>4. \A s \in Sessions : Live(s)' => s \notin D /\ Live(s) /\ session'[s] = session[s]
    BY <1>1, <1>2 DEF RowsOK, Live
  <1>5. RowsHaveOwners'
    <2>1. ASSUME NEW s \in Sessions, Live(s)' PROVE Here(session[s].user)'
      <3>1. s \notin D /\ Live(s) /\ session'[s] = session[s]
        BY <1>4, <2>1
      <3>2. session[s].user \in Users
        BY <3>1, <1>1 DEF RowsHaveOwners, Here
      <3> QED BY <3>1, <3>2 DEF Here
    <2>2. ASSUME NEW k \in Keys, key'[k] # None PROVE Here(key[k])'
      BY <2>2 DEF Here
    <2> QED BY <2>1, <2>2 DEF RowsHaveOwners
  <1>6. req' \in [Handlers -> Request] /\ \A g \in Handlers : Sound(req'[g])
    BY <1>1 DEF Sound
  <1>7. ASSUME NEW s \in Sessions, Stale(s)' PROVE Doomed(s)'
    <2>1. s \notin D /\ Live(s) /\ session'[s] = session[s]
      BY <1>4, <1>7 DEF Stale
    <2>2. Stale(s)
      BY <1>7, <2>1 DEF Stale
    <2>3. PICK g \in Handlers : g # h /\ Ending(g, session[s].user) /\ Kept(req[g]) # s
      BY <2>1, <2>2
    <2>4. req'[g] = req[g]
      BY <1>1, <2>3
    <2>5. Ending(g, session[s].user)'
      BY <2>1, <2>3, <2>4 DEF Ending
    <2> QED BY <2>3, <2>4, <2>5 DEF Doomed
  <1>8. ASSUME NEW s \in Sessions, elevated[s] # None, s \notin stray
        PROVE  Windowed(s)'
    <2>1. CASE s \in D
      <3>1. ~Live(s)'
        BY <1>4, <2>1
      <3>2. CASE ~Live(s) /\ (s \in expired \/ \E g \in Handlers : Pending(g, s))
        BY <1>1, <3>1, <3>2, PendingStays DEF Windowed
      <3>3. CASE session[s].user = elevated[s]
        <4>1. req'[h] = q
          BY <1>1
        <4>2. Pending(h, s)'
          BY <2>1, <3>3, <4>1 DEF Pending
        <4> QED BY <3>1, <4>2 DEF Windowed
      <3> QED BY <1>1, <1>8, <3>2, <3>3 DEF Windowed
    <2>2. CASE s \notin D
      <3>1. session'[s] = session[s] /\ (Live(s)' <=> Live(s))
        BY <1>1, <2>2 DEF Live, RowsOK
      <3>2. CASE ~Live(s) /\ (s \in expired \/ \E g \in Handlers : Pending(g, s))
        BY <1>1, <3>1, <3>2, PendingStays DEF Windowed
      <3> QED BY <1>1, <1>8, <3>1, <3>2 DEF Windowed
    <2> QED BY <2>1, <2>2
  <1>9. \A s \in Sessions : Windowed(s)'
    BY <1>8 DEF Windowed
  <1> QED BY <1>3, <1>5, <1>6, <1>7, <1>9, InvByPartsPrime

\* Whom another handler than h dooms.
LEMMA OthersDoom ==
  ASSUME AccountsInv, NEW h \in Handlers, NEW s \in Sessions, Stale(s),
         ~(Ending(h, session[s].user) /\ Kept(req[h]) # s)
  PROVE  \E g \in Handlers : g # h /\ Ending(g, session[s].user) /\ Kept(req[g]) # s
  BY InvByParts DEF Doomed

LEMMA DeleteSessionsInv ==
  ASSUME AccountsInv, NEW h \in Handlers, DeleteSessions(h)
  PROVE  AccountsInv'
  <1>1. req[h].pc = "sessions"
    BY DEF DeleteSessions
  <1>2. PICK u \in Users : u = req[h].target
    BY <1>1, AtWrite
  <1>3. PICK D : D = SessionsOf(u) \ {Kept(req[h])}
    OBVIOUS
  <1>4. /\ RowsOK /\ RowsHaveOwners /\ req \in [Handlers -> Request] /\ Sound(req[h])
        /\ Goto(h, "finish") /\ UNCHANGED <<user, elevated, key, excuses>>
        /\ session' = [s \in Sessions |-> IF s \in D THEN NoSession ELSE session[s]]
    BY <1>1, <1>2, <1>3, AtWrite DEF DeleteSessions, delete_sessions
  <1>5. PICK n : /\ req' = [req EXCEPT ![h] = n] /\ Sound(n) /\ n.pc = "finish"
                 /\ n.op = req[h].op /\ n.target = req[h].target /\ Kept(n) = Kept(req[h])
    BY <1>1, <1>4, GotoStep
  <1>6. n.op # "logout"
    BY <1>1, <1>5, AtWrite
  <1>7. ASSUME NEW s \in Sessions \ D, Stale(s)
        PROVE  \E g \in Handlers : g # h /\ Ending(g, session[s].user) /\ Kept(req[g]) # s
    <2>1. ~(Ending(h, session[s].user) /\ Kept(req[h]) # s)
      BY <1>2, <1>3, <1>7 DEF Ending, SessionsOf
    <2> QED BY <1>7, <2>1, OthersDoom
  <1>8. \A s \in Sessions \ D : Live(s) =>
          LET v == session[s].user IN user'[v].row = "here" /\ user'[v].epoch = user[v].epoch
    BY <1>4 DEF RowsHaveOwners, Here
  <1>9. \A k \in Keys : key'[k] # None => key'[k] \in Users /\ user'[key'[k]].row = "here"
    BY <1>4 DEF RowsHaveOwners, Here
  <1>10. \A s \in D \cap Sessions : session[s].user = n.target /\ Kept(n) # s
    BY <1>2, <1>3, <1>5 DEF SessionsOf
  <1>11. Deletes(h, n, D)
    BY <1>1, <1>4, <1>5, <1>6, <1>7, <1>8, <1>9, <1>10 DEF Deletes, RowsOK
  <1> QED BY <1>11, DeletesStep

LEMMA DeleteUserInv ==
  ASSUME AccountsInv, NEW h \in Handlers, DeleteUser(h)
  PROVE  AccountsInv'
  <1>1. req[h].pc = "write" /\ req[h].op = "delete"
    BY DEF DeleteUser
  <1>2. PICK u \in Users : u = req[h].target
    BY <1>1, AtWrite
  <1>3. PICK D : D = SessionsOf(u)
    OBVIOUS
  <1>4. /\ RowsOK /\ RowsHaveOwners /\ req \in [Handlers -> Request] /\ Sound(req[h])
        /\ Goto(h, "finish") /\ UNCHANGED <<elevated, excuses>>
        /\ user' = [user EXCEPT ![u] = EmptyUser("gone")]
        /\ session' = [s \in Sessions |-> IF s \in D THEN NoSession ELSE session[s]]
        /\ key' = [k \in Keys |-> IF key[k] = u THEN None ELSE key[k]]
    BY <1>1, <1>2, <1>3, AtWrite DEF DeleteUser, delete_user
  <1>5. PICK n : /\ req' = [req EXCEPT ![h] = n] /\ Sound(n) /\ n.pc = "finish"
                 /\ n.op = req[h].op /\ n.target = req[h].target /\ Kept(n) = Kept(req[h])
    BY <1>1, <1>4, GotoStep
  <1>6. n.op = "delete" /\ \A s \in Sessions : Kept(n) # s
    BY <1>1, <1>5, NoneIsNoId DEF Kept
  <1>7. ASSUME NEW s \in Sessions \ D, Stale(s)
        PROVE  \E g \in Handlers : g # h /\ Ending(g, session[s].user) /\ Kept(req[g]) # s
    <2>1. ~(Ending(h, session[s].user) /\ Kept(req[h]) # s)
      BY <1>1 DEF Ending
    <2> QED BY <1>7, <2>1, OthersDoom
  <1>8. EmptyUser("gone") \in User
    BY DEF EmptyUser, User
  <1>9. user' \in [Users -> User] /\ \A v \in Users \ {u} : user'[v] = user[v]
    BY <1>4, <1>8 DEF RowsOK
  <1>10. \A s \in Sessions \ D : Live(s) =>
          LET v == session[s].user IN user'[v].row = "here" /\ user'[v].epoch = user[v].epoch
    BY <1>3, <1>4, <1>9 DEF RowsHaveOwners, Here, SessionsOf
  <1>11. /\ key' \in [Keys -> Users \cup {None}]
         /\ \A k \in Keys : key'[k] # None => key'[k] \in Users /\ user'[key'[k]].row = "here"
    BY <1>4, <1>9 DEF RowsOK, RowsHaveOwners, Here
  <1>12. \A s \in D \cap Sessions : session[s].user = n.target /\ Kept(n) # s
    BY <1>2, <1>3, <1>5, <1>6 DEF SessionsOf
  <1>13. Deletes(h, n, D)
    BY <1>1, <1>4, <1>5, <1>6, <1>7, <1>9, <1>10, <1>11, <1>12 DEF Deletes
  <1> QED BY <1>13, DeletesStep

LEMMA EndSessionInv ==
  ASSUME AccountsInv, NEW h \in Handlers, EndSession(h)
  PROVE  AccountsInv'
  <1>1. req[h].pc = "end_session"
    BY DEF EndSession
  <1>2. /\ RowsOK /\ RowsHaveOwners /\ req \in [Handlers -> Request] /\ Sound(req[h])
    BY InvByParts
  <1>3. PICK t \in Sessions : t = req[h].target /\ req[h].op = "logout"
    BY <1>1, <1>2 DEF Sound, Equipped
  <1>4. PICK D : D = {t}
    OBVIOUS
  <1>5. /\ Goto(h, "finish") /\ UNCHANGED <<user, elevated, key, excuses>>
        /\ session' = [s \in Sessions |-> IF s \in D THEN NoSession ELSE session[s]]
    BY <1>2, <1>3, <1>4 DEF EndSession, delete_session, RowsOK
  <1>6. PICK n : /\ req' = [req EXCEPT ![h] = n] /\ Sound(n) /\ n.pc = "finish"
                 /\ n.op = req[h].op /\ n.target = req[h].target /\ Kept(n) = Kept(req[h])
    BY <1>1, <1>2, <1>5, GotoStep
  <1>7. ASSUME NEW s \in Sessions \ D, Stale(s)
        PROVE  \E g \in Handlers : g # h /\ Ending(g, session[s].user) /\ Kept(req[g]) # s
    <2>1. ~(Ending(h, session[s].user) /\ Kept(req[h]) # s)
      BY <1>1 DEF Ending
    <2> QED BY <1>7, <2>1, OthersDoom
  <1>8. \A s \in Sessions \ D : Live(s) =>
          LET v == session[s].user IN user'[v].row = "here" /\ user'[v].epoch = user[v].epoch
    BY <1>2, <1>5 DEF RowsHaveOwners, Here
  <1>9. \A k \in Keys : key'[k] # None => key'[k] \in Users /\ user'[key'[k]].row = "here"
    BY <1>2, <1>5 DEF RowsHaveOwners, Here
  <1>10. \A s \in D \cap Sessions : n.op = "logout" /\ n.target = s
    BY <1>3, <1>4, <1>6
  <1>11. Deletes(h, n, D)
    BY <1>1, <1>2, <1>3, <1>5, <1>6, <1>7, <1>8, <1>9, <1>10 DEF Deletes, RowsOK
  <1> QED BY <1>11, DeletesStep
-----------------------------------------------------------------------------
(* Windows, keys, and handlers that are cut off. *)

\* A step that closes windows, those of h among them.
LEMMA CloseStep ==
  ASSUME AccountsInv, NEW h \in Handlers, req' = [req EXCEPT ![h] = Idle],
         req[h].pc # "sessions",
         elevated' \in [Sessions -> Users \cup {None}],
         \A s \in Sessions : elevated'[s] \in {elevated[s], None},
         \A s \in Sessions : Pending(h, s) => elevated'[s] = None,
         Closed, UNCHANGED <<user, session, key>>
  PROVE  AccountsInv'
  <1>1. /\ RowsOK /\ RowsHaveOwners /\ req \in [Handlers -> Request]
        /\ \A g \in Handlers : Sound(req[g])
        /\ \A s \in Sessions : Stale(s) => Doomed(s)
        /\ \A s \in Sessions : Windowed(s)
    BY InvByParts
  <1>2. RowsOK'
    BY <1>1 DEF RowsOK, Closed
  <1>3. RowsHaveOwners'
    BY <1>1 DEF RowsHaveOwners, Here, Live
  <1>4. req' \in [Handlers -> Request] /\ \A g \in Handlers : Sound(req'[g])
    BY <1>1, IdleSound DEF Sound
  <1>5. ASSUME NEW s \in Sessions, Stale(s)' PROVE Doomed(s)'
    <2>1. Stale(s)
      BY <1>5 DEF Stale, Live
    <2> QED BY <2>1, <1>1, DoomStays
  <1>6. ASSUME NEW s \in Sessions, elevated'[s] # None, s \notin stray'
        PROVE  Windowed(s)'
    <2>1. /\ elevated'[s] = elevated[s] /\ s \notin stray /\ ~Pending(h, s)
          /\ s \in expired => s \in expired'
      BY <1>6 DEF Closed
    <2>2. CASE session[s].user = elevated[s]
      BY <2>1, <2>2 DEF Windowed
    <2>3. ASSUME ~Live(s), NEW g \in Handlers, Pending(g, s)
          PROVE  Windowed(s)'
      <3>1. req'[g] = req[g]
        BY <1>1, <2>1, <2>3
      <3>2. Pending(g, s)' /\ ~Live(s)'
        BY <2>1, <2>3, <3>1 DEF Pending, Live
      <3> QED BY <3>2 DEF Windowed
    <2>4. CASE ~Live(s) /\ s \in expired
      BY <2>1, <2>4 DEF Windowed, Live
    <2> QED BY <1>1, <1>6, <2>1, <2>2, <2>3, <2>4 DEF Windowed
  <1>7. \A s \in Sessions : Windowed(s)'
    BY <1>6 DEF Windowed
  <1> QED BY <1>2, <1>3, <1>4, <1>5, <1>7, InvByPartsPrime

LEMMA RevokeElevationsInv ==
  ASSUME AccountsInv, NEW h \in Handlers, RevokeElevations(h)
  PROVE  AccountsInv'
  <1>1. elevated \in [Sessions -> Users \cup {None}]
    BY DEF AccountsInv, TypeOK
  <1>2. /\ req[h].pc = "finish" /\ req[h].op # "logout" /\ req' = [req EXCEPT ![h] = Idle]
        /\ elevated' = [s \in Sessions |->
             IF elevated[s] = req[h].target /\ s # Kept(req[h]) THEN None ELSE elevated[s]]
        /\ Closed /\ UNCHANGED <<user, session, key>>
    BY DEF RevokeElevations, revoke_user, End
  <1>3. \A s \in Sessions : Pending(h, s) => elevated'[s] = None
    BY <1>2 DEF Pending
  <1>4. /\ elevated' \in [Sessions -> Users \cup {None}]
        /\ \A s \in Sessions : elevated'[s] \in {elevated[s], None}
    BY <1>1, <1>2
  <1> QED BY <1>2, <1>3, <1>4, CloseStep

LEMMA RevokeElevationInv ==
  ASSUME AccountsInv, NEW h \in Handlers, RevokeElevation(h)
  PROVE  AccountsInv'
  <1>1. elevated \in [Sessions -> Users \cup {None}]
    BY DEF AccountsInv, TypeOK
  <1>2. PICK t \in Sessions : t = req[h].target
    BY InvByParts DEF RevokeElevation, Sound, Equipped
  <1>3. /\ req[h].pc = "finish" /\ req[h].op = "logout" /\ req' = [req EXCEPT ![h] = Idle]
        /\ elevated' = [elevated EXCEPT ![t] = None]
        /\ Closed /\ UNCHANGED <<user, session, key>>
    BY <1>2 DEF RevokeElevation, End
  <1>4. \A s \in Sessions : Pending(h, s) => elevated'[s] = None
    BY <1>1, <1>2, <1>3 DEF Pending
  <1>5. /\ elevated' \in [Sessions -> Users \cup {None}]
        /\ \A s \in Sessions : elevated'[s] \in {elevated[s], None}
    BY <1>1, <1>3
  <1> QED BY <1>3, <1>4, <1>5, CloseStep

LEMMA GrantInv ==
  ASSUME AccountsInv, NEW h \in Handlers, grant_elevation(h)
  PROVE  AccountsInv'
  <1>1. /\ RowsOK /\ RowsHaveOwners /\ req \in [Handlers -> Request]
        /\ \A g \in Handlers : Sound(req[g])
        /\ \A s \in Sessions : Stale(s) => Doomed(s)
        /\ \A s \in Sessions : Windowed(s)
    BY InvByParts
  <1>2. PICK t \in Sessions, u \in Users : t = req[h].cookie /\ u = req[h].actor
    BY <1>1 DEF grant_elevation, Sound, Equipped
  <1>3. /\ req[h].pc = "unlock" /\ req' = [req EXCEPT ![h] = Idle]
        /\ elevated' = [elevated EXCEPT ![t] = u]
        /\ stray' = IF session[t].user = u THEN stray \ {t} ELSE stray \cup {t}
        /\ expired' = expired \ {t}
        /\ UNCHANGED <<user, session, key>>
    BY <1>2 DEF grant_elevation, End
  <1>4. RowsOK'
    BY <1>1, <1>3 DEF RowsOK
  <1>5. RowsHaveOwners'
    BY <1>1, <1>3 DEF RowsHaveOwners, Here, Live
  <1>6. req' \in [Handlers -> Request] /\ \A g \in Handlers : Sound(req'[g])
    BY <1>1, <1>3, IdleSound DEF Sound
  <1>7. ASSUME NEW s \in Sessions, Stale(s)' PROVE Doomed(s)'
    <2>1. Stale(s)
      BY <1>3, <1>7 DEF Stale, Live
    <2> QED BY <2>1, <1>1, <1>3, DoomStays
  <1>8. ASSUME NEW s \in Sessions, elevated'[s] # None, s \notin stray'
        PROVE  Windowed(s)'
    <2>1. CASE s = t
      BY <1>1, <1>3, <1>8, <2>1 DEF Windowed, RowsOK
    <2>2. CASE s # t
      <3>1. /\ elevated'[s] = elevated[s] /\ s \notin stray /\ (Live(s)' <=> Live(s))
            /\ s \in expired => s \in expired'
        BY <1>1, <1>3, <1>8, <2>2 DEF RowsOK, Live
      <3>2. CASE ~Live(s) /\ (s \in expired \/ \E g \in Handlers : Pending(g, s))
        BY <1>1, <1>3, <3>1, <3>2, PendingStays DEF Windowed
      <3> QED BY <1>1, <1>3, <1>8, <3>1, <3>2 DEF Windowed
    <2> QED BY <2>1, <2>2
  <1>9. \A s \in Sessions : Windowed(s)'
    BY <1>8 DEF Windowed
  <1> QED BY <1>4, <1>5, <1>6, <1>7, <1>9, InvByPartsPrime

\* Steps outside of the handlers: a window lapses, a key comes or goes.
LEMMA OutsideStep ==
  ASSUME AccountsInv, UNCHANGED <<user, session, req>>,
         elevated' \in [Sessions -> Users \cup {None}],
         \A s \in Sessions : elevated'[s] \in {elevated[s], None},
         stray' \subseteq Sessions, expired' \subseteq Sessions,
         \A s \in Sessions :
           elevated'[s] # None => (s \in stray => s \in stray') /\ (s \in expired => s \in expired'),
         key' \in [Keys -> Users \cup {None}],
         \A k \in Keys : key'[k] # None => Here(key'[k])
  PROVE  AccountsInv'
  <1>1. /\ RowsOK /\ RowsHaveOwners /\ req \in [Handlers -> Request]
        /\ \A g \in Handlers : Sound(req[g])
        /\ \A s \in Sessions : Stale(s) => Doomed(s)
        /\ \A s \in Sessions : Windowed(s)
    BY InvByParts
  <1>2. RowsOK'
    BY <1>1 DEF RowsOK
  <1>3. RowsHaveOwners'
    BY <1>1 DEF RowsHaveOwners, Here, Live
  <1>4. \A s \in Sessions : Stale(s)' => Doomed(s)'
    BY <1>1 DEF Stale, Live, Doomed, Ending
  <1>5. ASSUME NEW s \in Sessions, elevated'[s] # None, s \notin stray'
        PROVE  Windowed(s)'
    <2>1. elevated'[s] = elevated[s] /\ s \notin stray /\ (s \in expired => s \in expired')
      BY <1>5
    <2>2. (Live(s)' <=> Live(s)) /\ \A g \in Handlers : Pending(g, s) => Pending(g, s)'
      BY <2>1 DEF Live, Pending
    <2> QED BY <1>1, <1>5, <2>1, <2>2 DEF Windowed
  <1>6. \A s \in Sessions : Windowed(s)'
    BY <1>5 DEF Windowed
  <1> QED BY <1>1, <1>2, <1>3, <1>4, <1>6, InvByPartsPrime

LEMMA LapsesInv ==
  ASSUME AccountsInv, NEW t \in Sessions, ElevationLapses(t)
  PROVE  AccountsInv'
  <1>1. /\ elevated \in [Sessions -> Users \cup {None}] /\ stray \subseteq Sessions /\ expired \subseteq Sessions
        /\ key \in [Keys -> Users \cup {None}] /\ RowsHaveOwners
    BY DEF AccountsInv, TypeOK
  <1>2. /\ elevated' = [elevated EXCEPT ![t] = None] /\ Closed
        /\ UNCHANGED <<user, session, key, req>>
    BY DEF ElevationLapses
  <1>3. \A k \in Keys : key'[k] # None => Here(key'[k])
    BY <1>1, <1>2 DEF RowsHaveOwners
  <1>4. /\ stray' \subseteq Sessions /\ expired' \subseteq Sessions
        /\ \A s \in Sessions :
             elevated'[s] # None => (s \in stray => s \in stray') /\ (s \in expired => s \in expired')
    BY <1>1, <1>2 DEF Closed
  <1> QED BY <1>1, <1>2, <1>3, <1>4, OutsideStep

\* Expired sessions go and leave their windows.
LEMMA ExpiryInv ==
  ASSUME AccountsInv, NEW S \in SUBSET Sessions, delete_expired_sessions(S)
  PROVE  AccountsInv'
  <1>1. /\ RowsOK /\ RowsHaveOwners /\ req \in [Handlers -> Request]
        /\ \A g \in Handlers : Sound(req[g])
        /\ \A s \in Sessions : Stale(s) => Doomed(s)
        /\ \A s \in Sessions : Windowed(s)
    BY InvByParts
  <1>2. /\ session' = [s \in Sessions |-> IF s \in S THEN NoSession ELSE session[s]]
        /\ expired' = expired \cup {s \in S : elevated[s] # None}
        /\ UNCHANGED <<user, elevated, key, req, stray>>
    BY DEF delete_expired_sessions
  <1>3. NoSession \in Session /\ NoSession.user = None
    BY DEF NoSession, Session
  <1>4. RowsOK'
    BY <1>1, <1>2, <1>3 DEF RowsOK
  <1>5. ASSUME NEW s \in Sessions, Live(s)'
        PROVE  session'[s] = session[s] /\ Live(s)
    BY <1>2, <1>3, <1>5 DEF Live
  <1>6. RowsHaveOwners'
    BY <1>1, <1>2, <1>5 DEF RowsHaveOwners, Here
  <1>7. ASSUME NEW s \in Sessions, Stale(s)' PROVE Doomed(s)'
    <2>1. Stale(s) /\ session'[s] = session[s]
      BY <1>2, <1>5, <1>7 DEF Stale
    <2> QED BY <1>1, <1>2, <2>1 DEF Doomed, Ending
  <1>8. ASSUME NEW s \in Sessions, elevated'[s] # None, s \notin stray'
        PROVE  Windowed(s)'
    <2>1. CASE s \in S
      <3>1. ~Live(s)' /\ s \in expired'
        BY <1>2, <1>3, <1>8, <2>1 DEF Live
      <3> QED BY <3>1 DEF Windowed
    <2>2. CASE s \notin S
      <3>1. session'[s] = session[s] /\ (s \in expired => s \in expired') /\ (Live(s)' <=> Live(s))
        BY <1>2, <2>2 DEF Live
      <3>2. \A g \in Handlers : Pending(g, s) => Pending(g, s)'
        BY <1>2 DEF Pending
      <3> QED BY <1>1, <1>2, <1>8, <3>1, <3>2 DEF Windowed
    <2> QED BY <2>1, <2>2
  <1>9. \A s \in Sessions : Windowed(s)'
    BY <1>8 DEF Windowed
  <1> QED BY <1>1, <1>2, <1>4, <1>6, <1>7, <1>9, InvByPartsPrime

\* An authenticated user exists.
LEMMA CallerIsHere ==
  ASSUME AccountsInv, NEW u \in Users, NEW s, CurrentUser(u, s)
  PROVE  Here(u)
  BY DEF CurrentUser, resolve_user, find_session_user, forward_auth_user, AccountsInv,
         RowsHaveOwners, Live

LEMMA KeysInv ==
  ASSUME AccountsInv, NEW u \in Users, NEW s \in Sessions \cup {None}, NEW k \in Keys,
         api_keys_create(u, s, k) \/ api_keys_delete(u, s, k)
  PROVE  AccountsInv'
  <1>1. /\ elevated \in [Sessions -> Users \cup {None}] /\ stray \subseteq Sessions /\ expired \subseteq Sessions
        /\ key \in [Keys -> Users \cup {None}] /\ RowsHaveOwners
    BY DEF AccountsInv, TypeOK
  <1>2. /\ UNCHANGED <<user, session, elevated, req, excuses>>
        /\ key' \in {[key EXCEPT ![k] = u], [key EXCEPT ![k] = None]} /\ Here(u)
    BY CallerIsHere DEF api_keys_create, api_keys_delete
  <1>3. key' \in [Keys -> Users \cup {None}] /\ \A j \in Keys : key'[j] # None => Here(key'[j])
    BY <1>1, <1>2 DEF RowsHaveOwners
  <1> QED BY <1>1, <1>2, <1>3, OutsideStep

\* CutOff marks sessions and changes nothing else of them.
LEMMA CutOffFields ==
  ASSUME session \in [Sessions -> Session], NEW H, CutOff(H)
  PROVE  /\ session' \in [Sessions -> Session]
         /\ \A s \in Sessions : /\ session'[s].user = session[s].user
                                /\ session'[s].epoch = session[s].epoch
                                /\ session[s].raced => session'[s].raced
         /\ \A s \in Sessions, h \in H : Stale(s) /\ Ending(h, session[s].user)
              => session'[s].raced
  <1>1. ASSUME NEW r \in Session
        PROVE  LET n == [r EXCEPT !.raced = TRUE] IN
               n \in Session /\ n.user = r.user /\ n.epoch = r.epoch /\ n.raced = TRUE
    BY DEF Session
  <1>2. ASSUME NEW s \in Sessions
        PROVE  session'[s] = IF \E h \in H : /\ Ending(h, session[s].user)
                                             /\ session[s].epoch < user[session[s].user].epoch
                             THEN [session[s] EXCEPT !.raced = TRUE] ELSE session[s]
    BY DEF CutOff
  <1>3. session' = [s \in Sessions |-> session'[s]]
    BY DEF CutOff
  <1> QED BY <1>1, <1>2, <1>3 DEF Stale

LEMMA DropInv ==
  ASSUME AccountsInv, NEW h \in Handlers, Drop(h)
  PROVE  AccountsInv'
  <1>1. /\ RowsOK /\ RowsHaveOwners /\ req \in [Handlers -> Request]
        /\ \A g \in Handlers : Sound(req[g])
        /\ \A s \in Sessions : Stale(s) => Doomed(s)
        /\ \A s \in Sessions : Windowed(s)
    BY InvByParts
  <1>2. /\ req' = [req EXCEPT ![h] = Idle] /\ CutOff({h})
        /\ stray' = stray \cup {s \in Sessions : elevated[s] # None /\ Pending(h, s)}
        /\ UNCHANGED <<user, elevated, key, expired>>
    BY DEF Drop, End
  <1>3. /\ session' \in [Sessions -> Session]
        /\ \A s \in Sessions : /\ session'[s].user = session[s].user
                               /\ session'[s].epoch = session[s].epoch
                               /\ session[s].raced => session'[s].raced
        /\ \A s \in Sessions : Stale(s) /\ Ending(h, session[s].user) => session'[s].raced
    BY <1>1, <1>2, CutOffFields DEF RowsOK
  <1>4. RowsOK'
    BY <1>1, <1>2, <1>3 DEF RowsOK
  <1>5. RowsHaveOwners'
    BY <1>1, <1>2, <1>3 DEF RowsHaveOwners, Here, Live
  <1>6. req' \in [Handlers -> Request] /\ \A g \in Handlers : Sound(req'[g])
    BY <1>1, <1>2, IdleSound DEF Sound
  <1>7. ASSUME NEW s \in Sessions, Stale(s)' PROVE Doomed(s)'
    <2>1. Stale(s) /\ ~session'[s].raced
      BY <1>2, <1>3, <1>7 DEF Stale, Live
    <2>2. PICK g \in Handlers : g # h /\ Ending(g, session[s].user) /\ Kept(req[g]) # s
      BY <1>3, <2>1, OthersDoom
    <2>3. req'[g] = req[g] /\ session'[s].user = session[s].user
      BY <1>1, <1>2, <1>3, <2>2
    <2>4. Ending(g, session[s].user)'
      BY <2>2, <2>3 DEF Ending
    <2> QED BY <2>2, <2>3, <2>4 DEF Doomed
  <1>8. ASSUME NEW s \in Sessions, elevated'[s] # None, s \notin stray'
        PROVE  Windowed(s)'
    <2>1. /\ elevated'[s] = elevated[s] /\ s \notin stray /\ ~Pending(h, s)
          /\ (Live(s)' <=> Live(s)) /\ expired' = expired
      BY <1>2, <1>3, <1>8 DEF Live
    <2>2. ASSUME NEW g \in Handlers, Pending(g, s)
          PROVE  Pending(g, s)'
      <3>1. req'[g] = req[g]
        BY <1>1, <1>2, <2>1, <2>2
      <3> QED BY <2>1, <2>2, <3>1 DEF Pending
    <2> QED BY <1>1, <1>3, <1>8, <2>1, <2>2 DEF Windowed
  <1>9. \A s \in Sessions : Windowed(s)'
    BY <1>8 DEF Windowed
  <1> QED BY <1>4, <1>5, <1>6, <1>7, <1>9, InvByPartsPrime

LEMMA RestartInv ==
  ASSUME AccountsInv, Restart
  PROVE  AccountsInv'
  <1>1. /\ RowsOK /\ RowsHaveOwners /\ req \in [Handlers -> Request]
        /\ \A s \in Sessions : Stale(s) => Doomed(s)
    BY InvByParts
  <1>2. /\ elevated' = [s \in Sessions |-> None] /\ stray' = {} /\ expired' = {}
        /\ req' = [h \in Handlers |-> Idle] /\ CutOff(Handlers) /\ UNCHANGED <<user, key>>
    BY DEF Restart
  <1>3. /\ session' \in [Sessions -> Session]
        /\ \A s \in Sessions : /\ session'[s].user = session[s].user
                               /\ session'[s].epoch = session[s].epoch
                               /\ session[s].raced => session'[s].raced
        /\ \A s \in Sessions, h \in Handlers : Stale(s) /\ Ending(h, session[s].user)
             => session'[s].raced
    BY <1>1, <1>2, CutOffFields DEF RowsOK
  <1>4. RowsOK'
    BY <1>1, <1>2, <1>3 DEF RowsOK
  <1>5. RowsHaveOwners'
    BY <1>1, <1>2, <1>3 DEF RowsHaveOwners, Here, Live
  <1>6. req' \in [Handlers -> Request] /\ \A g \in Handlers : Sound(req'[g])
    BY <1>2, IdleSound DEF Sound
  <1>7. ASSUME NEW s \in Sessions PROVE ~Stale(s)'
    BY <1>1, <1>2, <1>3 DEF Stale, Live, Doomed
  <1>8. \A s \in Sessions : Windowed(s)'
    BY <1>2 DEF Windowed
  <1> QED BY <1>4, <1>5, <1>6, <1>7, <1>8, InvByPartsPrime
-----------------------------------------------------------------------------
(* The whole system. *)

LEMMA InitInv == Init => AccountsInv
  <1> SUFFICES ASSUME Init PROVE AccountsInv
    OBVIOUS
  <1>1. EmptyUser("absent") \in User /\ NoSession \in Session /\ NoSession.user = None
    BY DEF EmptyUser, User, NoSession, Session
  <1>2. RowsOK
    BY <1>1 DEF Init, RowsOK
  <1>3. RowsHaveOwners
    BY <1>1 DEF Init, RowsHaveOwners, Live
  <1>4. req \in [Handlers -> Request] /\ \A h \in Handlers : Sound(req[h])
    BY IdleSound DEF Init, Sound
  <1>5. \A s \in Sessions : ~Stale(s) /\ Windowed(s)
    BY <1>1 DEF Init, Stale, Live, Windowed
  <1> QED BY <1>2, <1>3, <1>4, <1>5, InvByParts

LEMMA StutterInv ==
  ASSUME AccountsInv, UNCHANGED vars
  PROVE  AccountsInv'
  <1>1. UNCHANGED <<user, session, elevated, key, req, excuses>>
    BY DEF vars, rows
  <1>2. /\ elevated \in [Sessions -> Users \cup {None}] /\ stray \subseteq Sessions /\ expired \subseteq Sessions
        /\ key \in [Keys -> Users \cup {None}] /\ \A k \in Keys : key'[k] # None => Here(key'[k])
    BY <1>1 DEF AccountsInv, TypeOK, RowsHaveOwners
  <1> QED BY <1>1, <1>2, OutsideStep

LEMMA ContinuesInv ==
  ASSUME AccountsInv, NEW h \in Handlers, Continues(h)
  PROVE  AccountsInv'
  BY CreatesInv, OpenSessionInv, ReadTargetInv, DeleteUserInv, SetPasswordInv, SetAdminInv,
     SetDisabledInv, DeleteSessionsInv, RevokeElevationsInv, EndSessionInv,
     RevokeElevationInv, GrantInv, DropInv DEF Continues

LEMMA NextInv == AccountsInv /\ [Next]_vars => AccountsInv'
  <1> SUFFICES ASSUME AccountsInv, [Next]_vars PROVE AccountsInv'
    OBVIOUS
  <1>1. ASSUME NEW h \in Handlers,
               \/ setup_submit(h)
               \/ \E u \in Users : login_submit(h, u) \/ AutoProvision(h, u)
               \/ \E s \in Sessions : logout(h, s)
        PROVE  AccountsInv'
    BY <1>1, SetupInv, LoginInv, CreatesInv, LogoutInv
  <1>2. ASSUME NEW h \in Handlers, NEW u \in Users, NEW s \in Sessions \cup {None},
               Calls(h, u, s)
        PROVE  AccountsInv'
    BY <1>2, CallsInv
  <1>3. ASSUME NEW h \in Handlers, Continues(h)
        PROVE  AccountsInv'
    BY <1>3, ContinuesInv
  <1>4. ASSUME NEW s \in Sessions, ElevationLapses(s)
        PROVE  AccountsInv'
    BY <1>4, LapsesInv
  <1>5. ASSUME NEW u \in Users, NEW s \in Sessions \cup {None}, NEW k \in Keys,
               api_keys_create(u, s, k) \/ api_keys_delete(u, s, k)
        PROVE  AccountsInv'
    BY <1>5, KeysInv
  <1>6. CASE Restart
    BY <1>6, RestartInv
  <1>7. ASSUME NEW S \in SUBSET Sessions, delete_expired_sessions(S)
        PROVE  AccountsInv'
    BY <1>7, ExpiryInv
  <1>8. CASE UNCHANGED vars
    BY <1>8, StutterInv
  <1> QED BY <1>1, <1>2, <1>3, <1>4, <1>5, <1>6, <1>7, <1>8 DEF Next

-----------------------------------------------------------------------------
(* Who can remove an administrator. *)

\* Only the writes of a delete, a demotion and a disablement take the rights of an
\* enabled administrator, and only of their target.
LEMMA AdminsStay ==
  ASSUME AccountsInv, [Next]_vars
  PROVE  \/ EnabledAdmins \subseteq EnabledAdmins'
         \/ \E h \in Handlers :
              /\ req[h].pc = "write" /\ req'[h] # req[h]
              /\ req[h].op \in {"delete", "admin", "disabled"}
              /\ EnabledAdmins \ {req[h].target} \subseteq EnabledAdmins'
  <1> DEFINE Stay == EnabledAdmins \subseteq EnabledAdmins'
             Lost(h) == /\ req[h].pc = "write" /\ req'[h] # req[h]
                        /\ req[h].op \in {"delete", "admin", "disabled"}
                        /\ EnabledAdmins \ {req[h].target} \subseteq EnabledAdmins'
  <1>0. user \in [Users -> User] /\ req \in [Handlers -> Request]
    BY DEF AccountsInv, TypeOK
  <1>1. ASSUME user' = user PROVE Stay
    BY <1>1 DEF EnabledAdmins, Here
  <1>2. ASSUME NEW h, NEW q, Begin(h, q) PROVE user' = user
    BY <1>2 DEF Begin, rows
  <1>3. ASSUME NEW h, NEW u, NEW s, Calls(h, u, s) PROVE user' = user
    BY <1>2, <1>3 DEF Calls, users_create, users_op, users_set_password, account_password,
                      sessions_revoke, sessions_revoke_others, admin_unlock,
                      forward_auth_session
  <1>4. ASSUME NEW u \in Users, NEW admin, NEW hash, create_user(u, admin, hash)
        PROVE  Stay
    <2>1. ASSUME NEW v \in EnabledAdmins PROVE v \in EnabledAdmins'
      <3>1. v \in Users /\ v # u
        BY <1>4, <2>1 DEF create_user, EnabledAdmins, Here
      <3>2. user'[v] = user[v]
        BY <1>0, <1>4, <3>1 DEF create_user
      <3> QED BY <2>1, <3>1, <3>2 DEF EnabledAdmins, Here
    <2> QED BY <2>1
  <1>5. ASSUME NEW h \in Handlers, setup_submit(h) PROVE Stay
    BY <1>1, <1>2, <1>5 DEF setup_submit
  <1>6. ASSUME NEW h \in Handlers, NEW u \in Users, login_submit(h, u) \/ AutoProvision(h, u)
        PROVE  Stay
    BY <1>1, <1>2, <1>4, <1>6 DEF login_submit, AutoProvision
  <1>7. ASSUME NEW h \in Handlers, NEW s \in Sessions, logout(h, s) PROVE Stay
    BY <1>1, <1>2, <1>7 DEF logout
  <1>8. ASSUME NEW h \in Handlers, Continues(h) PROVE Stay \/ Lost(h)
    <2>1. ASSUME NEW u \in Users, SetupCreate(h, u) \/ UsersCreated(h, u) PROVE Stay
      BY <1>4, <2>1 DEF SetupCreate, UsersCreated
    <2>2. ASSUME NEW s \in Sessions, open_session(h, s) PROVE Stay
      BY <1>1, <2>2 DEF open_session
    <2>3. CASE ReadTarget(h)
      BY <1>1, <2>3 DEF ReadTarget, rows
    <2>4. CASE \/ DeleteSessions(h) \/ RevokeElevations(h) \/ EndSession(h)
               \/ RevokeElevation(h) \/ grant_elevation(h) \/ Drop(h)
      BY <1>1, <2>4 DEF DeleteSessions, RevokeElevations, EndSession, RevokeElevation,
                        grant_elevation, Drop
    <2>5. CASE SetPassword(h)
      <3>1. PICK u \in Users : u = req[h].target
        BY <2>5, AtWrite DEF SetPassword
      <3>2. user' = IF Here(u) THEN [user EXCEPT ![u].hash = TRUE, ![u].epoch = @ + 1] ELSE user
        BY <2>5, <3>1 DEF SetPassword, set_user_password
      <3>3. \A v \in Users : /\ user'[v].row = user[v].row /\ user'[v].admin = user[v].admin
                             /\ user'[v].disabled = user[v].disabled
        BY <1>0, <3>2 DEF User
      <3> QED BY <3>3 DEF EnabledAdmins, Here
    <2>6. CASE DeleteUser(h) \/ SetAdmin(h) \/ SetDisabled(h)
      <3>1. req[h].pc = "write" /\ req[h].op \in {"delete", "admin", "disabled"}
        BY <2>6 DEF DeleteUser, SetAdmin, SetDisabled
      <3>2. PICK u \in Users : u = req[h].target
        BY <3>1, AtWrite
      <3>3. \A v \in Users \ {u} : user'[v] = user[v]
        BY <1>0, <2>6, <3>2 DEF DeleteUser, delete_user, SetAdmin, set_user_admin, SetDisabled,
                                set_user_disabled
      <3>4. req'[h].pc # "write"
        <4>1. Idle.pc = "idle" /\ req[h] \in Request
          BY <1>0, IdleSound
        <4>2. CASE End(h)
          BY <1>0, <4>1, <4>2 DEF End
        <4>3. ASSUME NEW pc \in {"sessions", "finish"}, Goto(h, pc) PROVE req'[h].pc = pc
          BY <1>0, <4>1, <4>3 DEF Goto, Request
        <4> QED BY <2>6, <4>2, <4>3 DEF DeleteUser, SetAdmin, SetDisabled
      <3>5. EnabledAdmins \ {u} \subseteq EnabledAdmins'
        BY <3>3 DEF EnabledAdmins, Here
      <3> QED BY <3>1, <3>2, <3>4, <3>5
    <2> QED BY <1>8, <2>1, <2>2, <2>3, <2>4, <2>5, <2>6 DEF Continues
  <1>9. ASSUME NEW s \in Sessions, ElevationLapses(s) PROVE Stay
    BY <1>1, <1>9 DEF ElevationLapses
  <1>10. ASSUME NEW u, NEW s, NEW k, api_keys_create(u, s, k) \/ api_keys_delete(u, s, k)
         PROVE  Stay
    BY <1>1, <1>10 DEF api_keys_create, api_keys_delete
  <1>11. ASSUME Restart PROVE Stay
    BY <1>1, <1>11 DEF Restart
  <1>12. ASSUME UNCHANGED vars PROVE Stay
    BY <1>1, <1>12 DEF vars, rows
  <1>13. ASSUME NEW S \in SUBSET Sessions, delete_expired_sessions(S) PROVE Stay
    BY <1>1, <1>13 DEF delete_expired_sessions
  <1> HIDE DEF Stay, Lost
  <1>14. Stay \/ \E h \in Handlers : Lost(h)
    BY <1>1, <1>3, <1>5, <1>6, <1>7, <1>8, <1>9, <1>10, <1>11, <1>12, <1>13 DEF Next
  <1> QED BY <1>14 DEF Stay, Lost

-----------------------------------------------------------------------------
(* The theorems. *)

\* Whatever handlers of web.rs run at the same time, are cut off or restarted, rows keep
\* an owner, stale sessions meet a handler that deletes them, unlocked windows end with
\* the sessions that a handler ends, and nobody acts on their own account.
THEOREM AccountsInvariant == Spec => []AccountsInv
  BY InitInv, NextInv, PTL DEF Spec

\* users_set_disabled and the password changes leave no session of an older epoch behind,
\* except those of logins that raced with them or of handlers that were cut off.
THEOREM RevokedSessionsAlwaysGone == Spec => []RevokedSessionsAreGone
  <1>1. AccountsInv => RevokedSessionsAreGone
    BY DEF AccountsInv, StaleAreDoomed, RevokedSessionsAreGone
  <1> QED BY <1>1, AccountsInvariant, PTL

\* Every handler that ends a session closes its elevation (elevate.rs): a window without a
\* session of its user is about to be closed, or was left to its TTL by an expired session,
\* a late unlock or a handler that was cut off.
THEOREM WindowsAlwaysEndWithSessions == Spec => []WindowsEndWithSessions
  <1>1. AccountsInv => WindowsEndWithSessions
    BY DEF AccountsInv
  <1> QED BY <1>1, AccountsInvariant, PTL

\* users_delete, users_toggle_admin and users_set_disabled leave the instance without an
\* enabled administrator only by the hand of someone who is no longer one.
THEOREM LastAdminOnlyLostByStaleActor == Spec => LastAdminLostByStaleActor
  <1> DEFINE A == EnabledAdmins # {} /\ EnabledAdmins' = {}
                    => \E h \in Handlers :
                         /\ req[h].pc = "write" /\ req'[h] # req[h]
                         /\ req[h].actor \notin EnabledAdmins
  <1>1. ASSUME AccountsInv, [Next]_vars, EnabledAdmins # {}, EnabledAdmins' = {}
        PROVE  \E h \in Handlers :
                 /\ req[h].pc = "write" /\ req'[h] # req[h]
                 /\ req[h].actor \notin EnabledAdmins
    <2>1. PICK h \in Handlers :
            /\ req[h].pc = "write" /\ req'[h] # req[h]
            /\ req[h].op \in {"delete", "admin", "disabled"}
            /\ EnabledAdmins \ {req[h].target} \subseteq EnabledAdmins'
      BY <1>1, AdminsStay
    <2>2. EnabledAdmins \subseteq {req[h].target}
      BY <1>1, <2>1
    <2>3. req[h].actor # req[h].target
      BY <1>1, <2>1 DEF AccountsInv, NobodyActsOnThemselves
    <2> QED BY <2>1, <2>2, <2>3
  <1>2. AccountsInv /\ [Next]_vars => [A]_vars
    BY <1>1
  <1> QED BY <1>2, AccountsInvariant, PTL DEF Spec, LastAdminLostByStaleActor
=============================================================================
