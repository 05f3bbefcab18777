--------------------------- MODULE WorkspaceProofs ---------------------------
(***************************************************************************)
(* Proofs about Workspace, for any number of users, projects, checks,      *)
(* channels and requests in flight.                                        *)
(***************************************************************************)
EXTENDS Workspace, TLAPS

ByRight == {"owner", "audited"}

-----------------------------------------------------------------------------
(* What the sixty handlers come down to. *)

\* The step leaves every row alone, and whoever is shown something may see it.
Quiet ==
  /\ UNCHANGED <<rows, req, owed>>
  /\ last' \in Last /\ last'.standing # "stranger"
  /\ last'.kind = "write" \/ last'.url => last'.standing \in ByRight

\* The step is a write to project p, by right.
Right(p) ==
  last' \in Last /\ last'.kind = "write" /\ last'.project = p /\ last'.standing \in ByRight

\* w may write to x, or may see it.
Writer(w, x, audited) == owner[ProjectOf(x)] = w.user \/ (w.admin /\ audited)
Viewer(w, x) == owner[ProjectOf(x)] = w.user \/ w.admin

LEMMA StandingOf ==
  ASSUME NEW w \in Callers, NEW x, NEW audited \in BOOLEAN
  PROVE  /\ Standing(w, x, audited) \in Standings
         /\ Viewer(w, x) => Standing(w, x, audited) # "stranger"
         /\ Writer(w, x, audited) => Standing(w, x, audited) \in ByRight
  BY DEF Standing, Standings, Viewer, Writer, ByRight, Callers

LEMMA ShowsQuietly ==
  ASSUME NEW w \in Callers, NEW x, NEW audited \in BOOLEAN, NEW url \in BOOLEAN,
         Shows(w, x, audited, url), Viewer(w, x), url => Writer(w, x, audited)
  PROVE  Quiet
  <1>1. PICK s \in Standings : s = Standing(w, x, audited)
    BY StandingOf
  <1>2. s # "stranger" /\ (url => s \in ByRight)
    BY <1>1, StandingOf
  <1>3. /\ last' = [kind |-> "page", standing |-> s, url |-> url, project |-> Absent]
        /\ UNCHANGED <<rows, req, owed>>
    BY <1>1 DEF Shows
  <1> QED BY <1>2, <1>3 DEF Quiet, Last

LEMMA WritesRightly ==
  ASSUME NEW w \in Callers, NEW x, NEW audited \in BOOLEAN, NEW url \in BOOLEAN,
         Writes(w, x, audited, url), Writer(w, x, audited),
         NEW p \in Projects, p = ProjectOf(x)
  PROVE  Right(p)
  <1>1. PICK s \in Standings : s = Standing(w, x, audited)
    BY StandingOf
  <1>2. s \in ByRight
    BY <1>1, StandingOf
  <1>3. last' = [kind |-> "write", standing |-> s, url |-> url, project |-> p]
    BY <1>1 DEF Writes
  <1> QED BY <1>2, <1>3 DEF Right, Last

LEMMA RightIsQuiet ==
  ASSUME NEW p, Right(p), UNCHANGED <<rows, req, owed>>
  PROVE  Quiet
  BY DEF Right, Quiet, ByRight

\* Where a row belongs.
LEMMA ProjectOfRow ==
  /\ \A p \in Projects : ProjectOf(p) = p
  /\ \A c \in Checks : ProjectOf(c) = checkIn[c]
  /\ \A d \in Channels : ProjectOf(d) = chanIn[d]
  BY IdsAreApart DEF ProjectOf

\* Get and Post, as booleans.
LEMMA Methods == Get = FALSE /\ Post = TRUE
  BY DEF Get, Post, audits_as_mutation

\* What each resolver lets through, for a page and for a write.
LEMMA ProjectResolvers ==
  ASSUME NEW w \in Callers, NEW p \in Projects
  PROVE  /\ owned_project(w, p) => Viewer(w, p) /\ Writer(w, p, FALSE) /\ find_project(p)
         /\ admin_project(w, p) => Viewer(w, p) /\ Writer(w, p, Post) /\ find_project(p)
         /\ resolve_project(w, p) =>
              /\ Viewer(w, p) /\ Writer(w, p, audit_cross_user(w, p)) /\ find_project(p)
              /\ audit_cross_user(w, p) \in BOOLEAN
  BY ProjectOfRow, Methods DEF owned_project, admin_project, resolve_project, audit_cross_user,
     Viewer, Writer

LEMMA CheckResolvers ==
  ASSUME NEW w \in Callers, NEW c \in Checks
  PROVE  /\ owned_check(w, c) => Viewer(w, c) /\ Writer(w, c, FALSE) /\ find_check(c)
         /\ admin_check(w, c) => Viewer(w, c) /\ Writer(w, c, Post) /\ find_check(c)
         /\ resolve_check(w, c) =>
              /\ Viewer(w, c) /\ Writer(w, c, audit_cross_user(w, c)) /\ find_check(c)
              /\ audit_cross_user(w, c) \in BOOLEAN
  BY ProjectOfRow, Methods DEF owned_check, owned_project, admin_check, resolve_check,
     resolve_project, audit_cross_user, Viewer, Writer

LEMMA ChannelResolvers ==
  ASSUME NEW w \in Callers, NEW d \in Channels
  PROVE  /\ owned_channel(w, d) => Viewer(w, d) /\ Writer(w, d, FALSE) /\ find_channel(d)
         /\ admin_channel(w, d) => Viewer(w, d) /\ Writer(w, d, Post) /\ find_channel(d)
         /\ resolve_channel(w, d) =>
              /\ Viewer(w, d) /\ Writer(w, d, audit_cross_user(w, d)) /\ find_channel(d)
              /\ audit_cross_user(w, d) \in BOOLEAN
  BY ProjectOfRow, Methods DEF owned_channel, owned_project, admin_channel, resolve_channel,
     resolve_project, audit_cross_user, Viewer, Writer

LEMMA ProjectRequestsDo ==
  ASSUME NEW w \in Callers, NEW p \in Projects, ProjectRequests(w, p)
  PROVE  \/ Quiet
         \/ create_project(w.user, p) /\ Right(p)
         \/ delete_project(p) /\ Right(p)
  <1> USE Methods
  <1>1. ProjectOf(p) = p
    BY ProjectOfRow
  <1>2. ASSUME NEW a \in BOOLEAN, NEW url \in BOOLEAN, Shows(w, p, a, url), Viewer(w, p),
               url => Writer(w, p, a)
        PROVE  Quiet
    BY <1>2, ShowsQuietly
  <1>3. ASSUME NEW a \in BOOLEAN, Writes(w, p, a, FALSE), Writer(w, p, a)
        PROVE  Right(p)
    BY <1>1, <1>3, WritesRightly
  <1>4. ASSUME project_create(w, p)
        PROVE  create_project(w.user, p) /\ Right(p)
    BY <1>4 DEF project_create, Right, ByRight, Last, Standings
  <1>5. CASE project_create(w, p) \/ api_create_project(w, p)
    BY <1>4, <1>5 DEF api_create_project
  <1>6. CASE \/ project_show(w, p) \/ check_new(w, p) \/ channel_new(w, p)
    BY <1>2, <1>6, ProjectResolvers DEF project_show, check_new, channel_new
  <1>7. CASE \/ admin_project_pages(w, p) \/ admin_check_new(w, p) \/ admin_channel_new(w, p)
    BY <1>2, <1>7, ProjectResolvers DEF admin_project_pages, admin_check_new, admin_channel_new
  <1>8. CASE \/ api_get_project(w, p) \/ api_list_project_checks(w, p)
             \/ api_list_project_channels(w, p)
    BY <1>2, <1>8, ProjectResolvers DEF api_get_project, api_list_project_checks,
       api_list_project_channels
  <1>9. CASE project_update(w, p) \/ admin_project_update(w, p) \/ api_update_project(w, p)
    <2>1. Right(p) /\ update_project
      BY <1>3, <1>9, ProjectResolvers DEF project_update, admin_project_update,
         api_update_project
    <2> QED BY <2>1, RightIsQuiet DEF update_project
  <1>10. CASE project_delete(w, p) \/ admin_project_delete(w, p) \/ api_delete_project(w, p)
    BY <1>2, <1>3, <1>10, ProjectResolvers DEF project_delete, admin_project_delete,
       api_delete_project, confirmation_page
  <1> QED BY <1>5, <1>6, <1>7, <1>8, <1>9, <1>10 DEF ProjectRequests

LEMMA CheckRequestsDo ==
  ASSUME NEW w \in Callers, NEW c \in Checks, CheckRequests(w, c)
  PROVE  \/ Quiet
         \/ find_check(c) /\ delete_check(c) /\ Right(checkIn[c])
  <1> USE Methods
  <1>1. ProjectOf(c) = checkIn[c]
    BY ProjectOfRow
  <1>2. ASSUME NEW a \in BOOLEAN, NEW url \in BOOLEAN, Shows(w, c, a, url), Viewer(w, c),
               url => Writer(w, c, a)
        PROVE  Quiet
    BY <1>2, ShowsQuietly
  <1>3. ASSUME NEW a \in BOOLEAN, NEW url \in BOOLEAN, find_check(c), Writes(w, c, a, url),
               Writer(w, c, a)
        PROVE  Right(checkIn[c])
    BY <1>1, <1>3, WritesRightly DEF find_check
  <1>4. CASE check_show(w, c)
    <2>1. shows_url("owner", FALSE, w, c) = TRUE
      BY DEF shows_url
    <2> QED BY <1>2, <1>4, <2>1, CheckResolvers DEF check_show
  <1>5. CASE check_fragments(w, c) \/ check_edit(w, c)
    BY <1>2, <1>5, CheckResolvers DEF check_fragments, check_edit
  <1>6. CASE admin_check_reveal_ping_url(w, c)
    <2>1. shows_url("admin", TRUE, w, c) = TRUE
      BY DEF shows_url
    <2>2. Viewer(w, c) /\ Writer(w, c, owner[checkIn[c]] # w.user)
      BY <1>1, <1>6 DEF admin_check_reveal_ping_url, Viewer, Writer
    <2> QED BY <1>2, <1>6, <2>1, <2>2 DEF admin_check_reveal_ping_url
  <1>7. CASE admin_check_show(w, c)
    <2>1. PICK url \in BOOLEAN : url = shows_url("admin", FALSE, w, c)
      BY DEF shows_url
    <2>2. url => Writer(w, c, Get)
      BY <1>1, <2>1 DEF shows_url, Writer
    <2> QED BY <1>2, <1>7, <2>1, <2>2, CheckResolvers DEF admin_check_show
  <1>8. CASE admin_check_fragments(w, c) \/ admin_check_edit(w, c)
    BY <1>2, <1>8, CheckResolvers DEF admin_check_fragments, admin_check_edit
  <1>9. CASE \/ api_get_check(w, c) \/ api_list_check_pings(w, c)
             \/ api_list_check_notifications(w, c)
    BY <1>2, <1>9, CheckResolvers DEF api_get_check, api_list_check_pings,
       api_list_check_notifications
  <1>10. CASE \/ check_writes(w, c) \/ admin_check_writes(w, c) \/ api_update_check(w, c)
              \/ api_pause_check(w, c) \/ api_resume_check(w, c) \/ api_ack_check(w, c)
              \/ api_regenerate_check(w, c)
    <2>1. Right(checkIn[c]) /\ update_check
      BY <1>3, <1>10, CheckResolvers DEF check_writes, admin_check_writes, api_update_check,
         api_pause_check, api_resume_check, api_ack_check, api_regenerate_check
    <2> QED BY <2>1, RightIsQuiet DEF update_check
  <1>11. CASE check_delete(w, c) \/ admin_check_delete(w, c) \/ api_delete_check(w, c)
    BY <1>2, <1>3, <1>11, CheckResolvers DEF check_delete, admin_check_delete,
       api_delete_check, confirmation_page
  <1> QED BY <1>4, <1>5, <1>6, <1>7, <1>8, <1>9, <1>10, <1>11 DEF CheckRequests

LEMMA ChannelRequestsDo ==
  ASSUME NEW w \in Callers, NEW d \in Channels, ChannelRequests(w, d)
  PROVE  \/ Quiet
         \/ find_channel(d) /\ delete_channel(d) /\ Right(chanIn[d])
         \/ \E p \in Projects, v \in Plain : create_channel(p, d, v) /\ Right(p)
  <1> USE Methods
  <1>1. ProjectOf(d) = chanIn[d]
    BY ProjectOfRow
  <1>2. ASSUME NEW a \in BOOLEAN, Shows(w, d, a, FALSE), Viewer(w, d)
        PROVE  Quiet
    BY <1>2, ShowsQuietly
  <1>3. ASSUME NEW a \in BOOLEAN, find_channel(d), Writes(w, d, a, FALSE), Writer(w, d, a)
        PROVE  Right(chanIn[d])
    BY <1>1, <1>3, WritesRightly DEF find_channel
  <1>4. CASE \/ channel_edit(w, d) \/ channel_test(w, d) \/ admin_channel_edit(w, d)
             \/ admin_channel_test(w, d) \/ api_get_channel(w, d)
    BY <1>2, <1>4, ChannelResolvers DEF channel_edit, channel_test, admin_channel_edit,
       admin_channel_test, api_get_channel
  <1>5. CASE channel_delete(w, d) \/ admin_channel_delete(w, d) \/ api_delete_channel(w, d)
    BY <1>3, <1>5, ChannelResolvers DEF channel_delete, admin_channel_delete,
       api_delete_channel
  <1>6. ASSUME NEW p \in Projects, NEW v \in Plain,
               \/ channel_create(w, p, d, v) \/ admin_channel_create(w, p, d, v)
               \/ api_create_channel(w, p, d, v)
        PROVE  create_channel(p, d, v) /\ Right(p)
    <2>1. ProjectOf(p) = p
      BY ProjectOfRow
    <2>2. ASSUME NEW a \in BOOLEAN, Writes(w, p, a, FALSE), Writer(w, p, a)
          PROVE  Right(p)
      BY <2>1, <2>2, WritesRightly
    <2> QED BY <1>6, <2>2, ProjectResolvers DEF channel_create, admin_channel_create,
            api_create_channel
  <1> QED BY <1>4, <1>5, <1>6 DEF ChannelRequests
-----------------------------------------------------------------------------
(* The invariant in parts, as operators of the rows they are about. *)

\* What is true of a handler q when the tables are ci, ch, gv and bd.
Fit(q, ci, ch, gv, bd) ==
  /\ q \in Request /\ q.standing \in ByRight
  /\ q.pc \in {"bind_all", "list_bound", "bind"} => q.target \in Checks /\ ci[q.target] # Absent
  /\ q.pc = "update_channel" => q.target \in Channels /\ ch[q.target] # Absent
  /\ q.pc = "bind" => q.adds \subseteq q.desired /\ q.dels \cap q.desired = {}
  /\ q.pc \in {"list_bound", "bind"} =>
       \A d \in q.desired \cup q.adds : ch[d] \in {ci[q.target], Gone} \/ ci[q.target] = Gone
  /\ q.pc = "bind" /\ ci[q.target] \in Projects =>
       \A d \in Channels \ q.touched :
         d \in bd[q.target] <=> d \in (q.desired \ q.adds) \cup q.dels
  /\ q.pc = "update_channel" /\ q.field = Blank /\ ch[q.target] \in Projects =>
       StoredConfig(q.old) \in gv[q.target]

Joined(bd, ci, ch) ==
  \A c \in Checks : \A d \in bd[c] : ci[c] \in Projects /\ ch[d] \in Projects /\ ci[c] = ch[d]

Owing(ow, ci, ch) == \A c \in Checks : \A d \in ow[c] : ci[c] \in Projects /\ ch[d] = ci[c]

\* The handler that created check c is yet to bind its channels.
Awaited(R, c) == \E r \in Requests : R[r].pc = "bind_all" /\ R[r].target = c

\* The credentials cf of the channels that exist are among those in gv.
Submitted(cf, gv, ch) ==
  \A d \in Channels :
    ch[d] \in Projects => StoredConfig(cf[d]) \in gv[d] /\ Required(d, cf[d])

RowsOK ==
  /\ users \subseteq Users
  /\ owner \in [Projects -> Users \cup {Absent, Gone}]
  /\ checkIn \in [Checks -> Projects \cup {Absent, Gone}]
  /\ chanIn \in [Channels -> Projects \cup {Absent, Gone}]
  /\ config \in [Channels -> Credentials]
  /\ given \in [Channels -> SUBSET Plain]
  /\ Submitted(config, given, chanIn)
  /\ bound \in [Checks -> SUBSET Channels]
  /\ owed \in [Checks -> SUBSET Channels]

LEMMA InvByParts ==
  WorkspaceInv <=>
    /\ RowsOK /\ last \in Last /\ req \in [Requests -> Request]
    /\ \A r \in Requests : Fit(req[r], checkIn, chanIn, given, bound)
    /\ Joined(bound, checkIn, chanIn) /\ Owing(owed, checkIn, chanIn)
    /\ \A c \in Checks : Awaited(req, c) \/ owed[c] \subseteq bound[c]
  <1>1. TypeOK /\ CredentialsAreSubmitted <=>
          RowsOK /\ last \in Last /\ req \in [Requests -> Request]
    <2>1. CredentialsAreSubmitted <=> Submitted(config, given, chanIn)
      BY DEF CredentialsAreSubmitted, Submitted, find_channel
    <2> QED BY <2>1 DEF TypeOK, RowsOK
  <1>2. BindingsInProject <=> Joined(bound, checkIn, chanIn)
    BY DEF BindingsInProject, Joined, find_check, find_channel
  <1>3. OwedAreBound <=> \A c \in Checks : Awaited(req, c) \/ owed[c] \subseteq bound[c]
    BY DEF OwedAreBound, Awaited
  <1>4. req \in [Requests -> Request] =>
          ((/\ StaysInProject /\ BeganByRight
            /\ \A r \in Requests : Aimed(req[r]) /\ Believes(req[r]))
           <=> /\ Owing(owed, checkIn, chanIn)
               /\ \A r \in Requests : Fit(req[r], checkIn, chanIn, given, bound))
    BY DEF StaysInProject, BeganByRight, Aimed, Believes, Owing, Fit, find_check, find_channel,
           ByRight
  <1> QED BY <1>1, <1>2, <1>3, <1>4 DEF WorkspaceInv

LEMMA InvByPartsPrime ==
  WorkspaceInv' <=>
    /\ RowsOK' /\ last' \in Last /\ req' \in [Requests -> Request]
    /\ \A r \in Requests : Fit(req'[r], checkIn', chanIn', given', bound')
    /\ Joined(bound', checkIn', chanIn') /\ Owing(owed', checkIn', chanIn')
    /\ \A c \in Checks : Awaited(req', c) \/ owed'[c] \subseteq bound'[c]
  <1>1. TypeOK' /\ CredentialsAreSubmitted' <=>
          RowsOK' /\ last' \in Last /\ req' \in [Requests -> Request]
    <2>1. CredentialsAreSubmitted' <=> Submitted(config', given', chanIn')
      BY DEF CredentialsAreSubmitted, Submitted, find_channel
    <2> QED BY <2>1 DEF TypeOK, RowsOK
  <1>2. BindingsInProject' <=> Joined(bound', checkIn', chanIn')
    BY DEF BindingsInProject, Joined, find_check, find_channel
  <1>3. OwedAreBound' <=> \A c \in Checks : Awaited(req', c) \/ owed'[c] \subseteq bound'[c]
    BY DEF OwedAreBound, Awaited
  <1>4. req' \in [Requests -> Request] =>
          ((/\ StaysInProject' /\ BeganByRight'
            /\ \A r \in Requests : Aimed(req[r])' /\ Believes(req[r])')
           <=> /\ Owing(owed', checkIn', chanIn')
               /\ \A r \in Requests : Fit(req'[r], checkIn', chanIn', given', bound'))
    BY DEF StaysInProject, BeganByRight, Aimed, Believes, Owing, Fit, find_check, find_channel,
           ByRight
  <1> QED BY <1>1, <1>2, <1>3, <1>4 DEF WorkspaceInv

LEMMA IdleFits ==
  ASSUME NEW ci, NEW ch, NEW gv, NEW bd
  PROVE  Fit(IdleRequest, ci, ch, gv, bd) /\ IdleRequest.pc = "idle" /\ IdleRequest \in Request
  <1>1. Empty \in Credentials
    BY DEF Credentials, Plain
  <1>2. IdleRequest \in Request
    BY <1>1 DEF IdleRequest, Request, Standings
  <1> QED BY <1>2 DEF IdleRequest, Fit, ByRight

-----------------------------------------------------------------------------
(* Handlers that others run into. *)

\* The step changes rows of the channels ds, and of checks only by deleting them.
Tampers(ds) ==
  /\ \A c \in Checks : checkIn[c] # Absent => checkIn'[c] \in {checkIn[c], Gone}
  /\ \A d \in Channels : chanIn[d] # Absent => chanIn'[d] \in {chanIn[d], Gone}
  /\ \A c \in Checks : checkIn'[c] \in Projects =>
       \A d \in Channels \ ds : d \in bound'[c] <=> d \in bound[c]

\* What handler s has read of its channel and may keep is still among what was given.
StillGiven(s) ==
  req[s].pc = "update_channel" /\ req[s].field = Blank /\ chanIn'[req[s].target] \in Projects =>
    StoredConfig(req[s].old) \in given'[req[s].target]

\* What was given for the channels that stay is not forgotten.
GivenGrows ==
  \A d \in Channels : chanIn[d] # Absent /\ chanIn'[d] \in Projects =>
    chanIn[d] \in Projects /\ given[d] \subseteq given'[d]

LEMMA GrowthKeepsGiven ==
  ASSUME WorkspaceInv, GivenGrows, NEW s \in Requests
  PROVE  StillGiven(s)
  <1>1. PICK q : q = req[s] /\ Fit(q, checkIn, chanIn, given, bound)
    BY InvByParts
  <1> QED BY <1>1 DEF Fit, GivenGrows, StillGiven

LEMMA TouchedFields ==
  ASSUME NEW R \in [Requests -> Request], NEW ds \in SUBSET Channels, NEW r \in Requests
  PROVE  LET q == R[r] n == Touched(R, ds)[r] IN
         /\ n \in Request /\ n.pc = q.pc /\ n.standing = q.standing /\ n.target = q.target
         /\ n.desired = q.desired /\ n.adds = q.adds /\ n.dels = q.dels /\ n.old = q.old
         /\ q.touched \subseteq n.touched /\ n.field = q.field
         /\ q.pc # "idle" => n.touched = q.touched \cup ds
  <1>1. PICK q \in Request : q = R[r]
    OBVIOUS
  <1>2. CASE q.pc = "idle"
    <2>1. Touched(R, ds)[r] = q
      BY <1>1, <1>2 DEF Touched
    <2> QED BY <1>1, <1>2, <2>1
  <1>3. CASE q.pc # "idle"
    <2>1. PICK t \in SUBSET Channels : t = q.touched \cup ds
      BY DEF Request
    <2>2. Touched(R, ds)[r] = [q EXCEPT !.touched = t]
      BY <1>1, <1>3, <2>1 DEF Touched
    <2>3. PICK n : n = [q EXCEPT !.touched = t]
      OBVIOUS
    <2>4. /\ n \in Request /\ n.pc = q.pc /\ n.standing = q.standing /\ n.target = q.target
          /\ n.desired = q.desired /\ n.adds = q.adds /\ n.dels = q.dels /\ n.old = q.old
          /\ n.field = q.field /\ n.touched = t
      BY <2>3 DEF Request
    <2> QED BY <1>1, <2>1, <2>2, <2>3, <2>4
  <1> QED BY <1>2, <1>3

LEMMA TouchedType ==
  ASSUME NEW R \in [Requests -> Request], NEW ds \in SUBSET Channels
  PROVE  Touched(R, ds) \in [Requests -> Request]
  <1>1. \A r \in Requests : Touched(R, ds)[r] \in Request
    BY TouchedFields
  <1>2. Touched(R, ds) = [r \in Requests |-> Touched(R, ds)[r]]
    BY DEF Touched
  <1> QED BY <1>1, <1>2

\* A handler still fits when others have changed what it was told they touch.
LEMMA OthersFit ==
  ASSUME WorkspaceInv, NEW ds \in SUBSET Channels, Tampers(ds), NEW s \in Requests, StillGiven(s),
         req'[s] = Touched(req, ds)[s]
  PROVE  Fit(req'[s], checkIn', chanIn', given', bound')
  <1>1. PICK q, n : q = req[s] /\ n = req'[s]
    OBVIOUS
  <1>2. Fit(q, checkIn, chanIn, given, bound) /\ req \in [Requests -> Request] /\ RowsOK
    BY <1>1, InvByParts
  <1>3. /\ n \in Request /\ n.pc = q.pc /\ n.standing = q.standing /\ n.target = q.target
        /\ n.desired = q.desired /\ n.adds = q.adds /\ n.dels = q.dels /\ n.old = q.old
        /\ q.touched \subseteq n.touched /\ n.field = q.field
        /\ q.pc # "idle" => n.touched = q.touched \cup ds
    BY <1>1, <1>2, TouchedFields
  <1>4. n.pc \in {"bind_all", "list_bound", "bind"} =>
          /\ n.target \in Checks /\ checkIn'[n.target] \in {checkIn[n.target], Gone}
          /\ checkIn'[n.target] # Absent
    BY <1>2, <1>3 DEF Fit, Tampers, Absent, Gone
  <1>5. n.pc \in {"list_bound", "bind"} =>
          \A d \in n.desired \cup n.adds :
            chanIn'[d] \in {checkIn'[n.target], Gone} \/ checkIn'[n.target] = Gone
    <2> SUFFICES ASSUME n.pc \in {"list_bound", "bind"}, NEW d \in n.desired \cup n.adds,
                        checkIn'[n.target] # Gone
                 PROVE  chanIn'[d] \in {checkIn'[n.target], Gone}
      OBVIOUS
    <2>1. d \in Channels
      BY <1>3 DEF Request
    <2>2. checkIn'[n.target] = checkIn[n.target] /\ checkIn[n.target] # Gone
          /\ checkIn[n.target] # Absent
      BY <1>4
    <2>3. chanIn[d] \in {checkIn[n.target], Gone}
      BY <1>2, <1>3, <2>2 DEF Fit
    <2>4. chanIn[d] # Absent
      BY <2>2, <2>3 DEF Absent, Gone
    <2> QED BY <2>1, <2>2, <2>3, <2>4 DEF Tampers
  <1>6. n.pc = "bind" /\ checkIn'[n.target] \in Projects =>
          \A d \in Channels \ n.touched :
            d \in bound'[n.target] <=> d \in (n.desired \ n.adds) \cup n.dels
    <2> SUFFICES ASSUME n.pc = "bind", checkIn'[n.target] \in Projects,
                        NEW d \in Channels \ n.touched
                 PROVE  d \in bound'[n.target] <=> d \in (n.desired \ n.adds) \cup n.dels
      OBVIOUS
    <2>1. checkIn[n.target] \in Projects /\ n.target \in Checks
      BY <1>4, IdsAreApart
    <2>2. d \notin ds /\ d \notin q.touched
      BY <1>3
    <2> QED BY <1>2, <1>3, <2>1, <2>2 DEF Fit, Tampers
  <1>7. /\ n.pc = "update_channel" => n.target \in Channels /\ chanIn'[n.target] # Absent
        /\ n.pc = "update_channel" /\ n.field = Blank /\ chanIn'[n.target] \in Projects =>
             StoredConfig(n.old) \in given'[n.target]
    BY <1>1, <1>2, <1>3 DEF Fit, Tampers, StillGiven, Absent, Gone
  <1>8. Fit(n, checkIn', chanIn', given', bound')
    BY <1>2, <1>3, <1>4, <1>5, <1>6, <1>7 DEF Fit
  <1> QED BY <1>1, <1>8
\* A step that touches channels ds and no handler's own state.
LEMMA TouchingFits ==
  ASSUME WorkspaceInv, NEW ds \in SUBSET Channels, Tampers(ds), GivenGrows,
         req' = Touched(req, ds)
  PROVE  /\ req' \in [Requests -> Request]
         /\ \A s \in Requests : Fit(req'[s], checkIn', chanIn', given', bound')
         /\ \A c \in Checks : Awaited(req, c) => Awaited(req', c)
  <1>1. req \in [Requests -> Request]
    BY InvByParts
  <1>2. req' \in [Requests -> Request]
    BY <1>1, TouchedType
  <1>3. \A s \in Requests : Fit(req'[s], checkIn', chanIn', given', bound')
    BY OthersFit, GrowthKeepsGiven
  <1>4. \A s \in Requests : req'[s].pc = req[s].pc /\ req'[s].target = req[s].target
    BY <1>1, TouchedFields
  <1> QED BY <1>2, <1>3, <1>4 DEF Awaited

\* A statement of handler r, which goes on as n.
LEMMA ContinuingFits ==
  ASSUME WorkspaceInv, NEW ds \in SUBSET Channels, Tampers(ds), NEW r \in Requests, NEW n,
         \A s \in Requests \ {r} : StillGiven(s),
         req' = [Touched(req, ds) EXCEPT ![r] = n],
         Fit(n, checkIn', chanIn', given', bound')
  PROVE  /\ req' \in [Requests -> Request]
         /\ \A s \in Requests : Fit(req'[s], checkIn', chanIn', given', bound')
         /\ \A c \in Checks :
              Awaited(req, c) /\ ~(req[r].pc = "bind_all" /\ req[r].target = c)
                => Awaited(req', c)
  <1>1. req \in [Requests -> Request] /\ Touched(req, ds) \in [Requests -> Request]
    BY InvByParts, TouchedType
  <1>2. req'[r] = n /\ \A s \in Requests \ {r} : req'[s] = Touched(req, ds)[s]
    BY <1>1
  <1>3. n \in Request
    BY DEF Fit
  <1>4. req' \in [Requests -> Request]
    BY <1>1, <1>3
  <1>5. \A s \in Requests : Fit(req'[s], checkIn', chanIn', given', bound')
    BY <1>2, OthersFit
  <1>6. \A s \in Requests \ {r} : req'[s].pc = req[s].pc /\ req'[s].target = req[s].target
    BY <1>1, <1>2, TouchedFields
  <1> QED BY <1>4, <1>5, <1>6 DEF Awaited

-----------------------------------------------------------------------------
(* One lemma per effect: the rows of projects, checks and channels. *)

LEMMA QuietInv ==
  ASSUME WorkspaceInv, UNCHANGED <<rows, req, owed>>, last' \in Last
  PROVE  WorkspaceInv'
  <1>1. UNCHANGED <<users, owner, checkIn, chanIn, config, given, bound, req, owed>>
    BY DEF rows
  <1> QED BY <1>1, InvByParts, InvByPartsPrime DEF RowsOK

LEMMA CreateProjectInv ==
  ASSUME WorkspaceInv, NEW u \in Users, NEW p \in Projects, create_project(u, p), last' \in Last
  PROVE  WorkspaceInv'
  <1>1. /\ owner' = [owner EXCEPT ![p] = u]
        /\ UNCHANGED <<users, checkIn, chanIn, config, given, bound, req, owed>>
    BY DEF create_project
  <1>2. RowsOK'
    BY <1>1, InvByParts DEF RowsOK
  <1> QED BY <1>1, <1>2, InvByParts, InvByPartsPrime

LEMMA CascadeInv ==
  ASSUME WorkspaceInv, NEW P \in SUBSET Projects, Cascade(P), users' \subseteq Users,
         last' \in Last
  PROVE  WorkspaceInv'
  <1>0. PICK ds \in SUBSET Channels, cs \in SUBSET Checks :
          /\ ds = {d \in Channels : chanIn[d] \in P}
          /\ cs = {c \in Checks : checkIn[c] \in P}
    OBVIOUS
  <1>1. /\ owner' = [p \in Projects |-> IF p \in P THEN Gone ELSE owner[p]]
        /\ checkIn' = [c \in Checks |-> IF c \in cs THEN Gone ELSE checkIn[c]]
        /\ chanIn' = [d \in Channels |-> IF d \in ds THEN Gone ELSE chanIn[d]]
        /\ config' = [d \in Channels |-> IF d \in ds THEN Empty ELSE config[d]]
        /\ given' = [d \in Channels |-> IF d \in ds THEN {} ELSE given[d]]
        /\ bound' = [c \in Checks |-> IF c \in cs THEN {} ELSE bound[c] \ ds]
        /\ owed' = [c \in Checks |-> IF c \in cs THEN {} ELSE owed[c] \ ds]
        /\ req' = Touched(req, ds)
    BY <1>0 DEF Cascade
  <1>2. /\ RowsOK /\ Joined(bound, checkIn, chanIn) /\ Owing(owed, checkIn, chanIn)
        /\ \A c \in Checks : Awaited(req, c) \/ owed[c] \subseteq bound[c]
    BY InvByParts
  <1>3. Submitted(config', given', chanIn')
    BY <1>1, <1>2, IdsAreApart DEF RowsOK, Submitted
  <1>4. RowsOK'
    BY <1>1, <1>2, <1>3 DEF RowsOK, Credentials, Plain
  <1>5. Tampers(ds) /\ GivenGrows
    BY <1>1, <1>2, IdsAreApart DEF RowsOK, Tampers, GivenGrows
  <1>6. /\ req' \in [Requests -> Request]
        /\ \A s \in Requests : Fit(req'[s], checkIn', chanIn', given', bound')
        /\ \A c \in Checks : Awaited(req, c) => Awaited(req', c)
    BY <1>1, <1>5, TouchingFits
  <1>7. Joined(bound', checkIn', chanIn')
    BY <1>1, <1>2 DEF Joined, RowsOK
  <1>8. Owing(owed', checkIn', chanIn')
    BY <1>1, <1>2 DEF Owing, RowsOK
  <1>9. \A c \in Checks : Awaited(req', c) \/ owed'[c] \subseteq bound'[c]
    BY <1>1, <1>2, <1>6
  <1> QED BY <1>4, <1>6, <1>7, <1>8, <1>9, InvByPartsPrime

LEMMA DeleteCheckInv ==
  ASSUME WorkspaceInv, NEW c \in Checks, delete_check(c), last' \in Last
  PROVE  WorkspaceInv'
  <1>1. /\ checkIn' = [checkIn EXCEPT ![c] = Gone] /\ bound' = [bound EXCEPT ![c] = {}]
        /\ owed' = [owed EXCEPT ![c] = {}] /\ req' = Touched(req, bound[c])
        /\ UNCHANGED <<users, owner, chanIn, config, given>>
    BY DEF delete_check
  <1>2. /\ RowsOK /\ Joined(bound, checkIn, chanIn) /\ Owing(owed, checkIn, chanIn)
        /\ \A k \in Checks : Awaited(req, k) \/ owed[k] \subseteq bound[k]
    BY InvByParts
  <1>3. RowsOK'
    BY <1>1, <1>2 DEF RowsOK
  <1>4. PICK ds \in SUBSET Channels : ds = bound[c]
    BY <1>2 DEF RowsOK
  <1>5. Tampers(ds) /\ GivenGrows
    BY <1>1, <1>2, <1>4, IdsAreApart DEF RowsOK, Tampers, GivenGrows
  <1>6. /\ req' \in [Requests -> Request]
        /\ \A s \in Requests : Fit(req'[s], checkIn', chanIn', given', bound')
        /\ \A k \in Checks : Awaited(req, k) => Awaited(req', k)
    BY <1>1, <1>4, <1>5, TouchingFits
  <1>7. Joined(bound', checkIn', chanIn')
    BY <1>1, <1>2 DEF Joined, RowsOK
  <1>8. Owing(owed', checkIn', chanIn')
    BY <1>1, <1>2 DEF Owing, RowsOK
  <1>9. \A k \in Checks : Awaited(req', k) \/ owed'[k] \subseteq bound'[k]
    BY <1>1, <1>2, <1>6 DEF RowsOK
  <1> QED BY <1>3, <1>6, <1>7, <1>8, <1>9, InvByPartsPrime

LEMMA CreateChannelInv ==
  ASSUME WorkspaceInv, NEW p \in Projects, NEW d \in Channels, NEW v \in Plain,
         create_channel(p, d, v), last' \in Last
  PROVE  WorkspaceInv'
  <1>1. /\ chanIn[d] = Absent /\ chanIn' = [chanIn EXCEPT ![d] = p] /\ Required(d, v)
        /\ config' = [config EXCEPT ![d] = v] /\ given' = [given EXCEPT ![d] = {v}]
        /\ req' = Touched(req, {d})
        /\ UNCHANGED <<users, owner, checkIn, bound, owed>>
    BY DEF create_channel
  <1>2. /\ RowsOK /\ Joined(bound, checkIn, chanIn) /\ Owing(owed, checkIn, chanIn)
        /\ \A k \in Checks : Awaited(req, k) \/ owed[k] \subseteq bound[k]
    BY InvByParts
  <1>3. RowsOK'
    <2>1. StoredConfig(v) = v
      BY ValuesAreApart DEF StoredConfig, Plain, Empty, Garbled
    <2>2. /\ config'[d] = v /\ given'[d] = {v}
          /\ \A e \in Channels \ {d} : /\ config'[e] = config[e] /\ given'[e] = given[e]
                                      /\ chanIn'[e] = chanIn[e]
      BY <1>1, <1>2 DEF RowsOK
    <2>3. Submitted(config', given', chanIn')
      BY <1>1, <1>2, <2>1, <2>2 DEF RowsOK, Submitted
    <2> QED BY <1>1, <1>2, <2>3 DEF RowsOK, Credentials
  <1>4. Tampers({d}) /\ GivenGrows
    BY <1>1, <1>2, IdsAreApart DEF RowsOK, Tampers, GivenGrows
  <1>5. /\ req' \in [Requests -> Request]
        /\ \A s \in Requests : Fit(req'[s], checkIn', chanIn', given', bound')
        /\ \A k \in Checks : Awaited(req, k) => Awaited(req', k)
    BY <1>1, <1>4, TouchingFits
  <1>6. \A k \in Checks : d \notin bound[k] /\ d \notin owed[k]
    BY <1>1, <1>2, IdsAreApart DEF Joined, Owing
  <1>7. Joined(bound', checkIn', chanIn')
    BY <1>1, <1>2, <1>6 DEF Joined, RowsOK
  <1>8. Owing(owed', checkIn', chanIn')
    BY <1>1, <1>2, <1>6 DEF Owing, RowsOK
  <1>9. \A k \in Checks : Awaited(req', k) \/ owed'[k] \subseteq bound'[k]
    BY <1>1, <1>2, <1>5
  <1> QED BY <1>3, <1>5, <1>7, <1>8, <1>9, InvByPartsPrime

LEMMA DeleteChannelInv ==
  ASSUME WorkspaceInv, NEW d \in Channels, delete_channel(d), last' \in Last
  PROVE  WorkspaceInv'
  <1>1. /\ chanIn' = [chanIn EXCEPT ![d] = Gone] /\ config' = [config EXCEPT ![d] = Empty]
        /\ given' = [given EXCEPT ![d] = {}]
        /\ bound' = [c \in Checks |-> bound[c] \ {d}] /\ owed' = [c \in Checks |-> owed[c] \ {d}]
        /\ req' = Touched(req, {d}) /\ UNCHANGED <<users, owner, checkIn>>
    BY DEF delete_channel
  <1>2. /\ RowsOK /\ Joined(bound, checkIn, chanIn) /\ Owing(owed, checkIn, chanIn)
        /\ \A k \in Checks : Awaited(req, k) \/ owed[k] \subseteq bound[k]
    BY InvByParts
  <1>3. Submitted(config', given', chanIn')
    BY <1>1, <1>2, IdsAreApart DEF RowsOK, Submitted
  <1>4. RowsOK'
    BY <1>1, <1>2, <1>3 DEF RowsOK, Credentials, Plain
  <1>5. Tampers({d}) /\ GivenGrows
    BY <1>1, <1>2, IdsAreApart DEF RowsOK, Tampers, GivenGrows
  <1>6. /\ req' \in [Requests -> Request]
        /\ \A s \in Requests : Fit(req'[s], checkIn', chanIn', given', bound')
        /\ \A k \in Checks : Awaited(req, k) => Awaited(req', k)
    BY <1>1, <1>5, TouchingFits
  <1>7. Joined(bound', checkIn', chanIn')
    BY <1>1, <1>2 DEF Joined, RowsOK
  <1>8. Owing(owed', checkIn', chanIn')
    BY <1>1, <1>2 DEF Owing, RowsOK
  <1>9. \A k \in Checks : Awaited(req', k) \/ owed'[k] \subseteq bound'[k]
    BY <1>1, <1>2, <1>6
  <1> QED BY <1>4, <1>6, <1>7, <1>8, <1>9, InvByPartsPrime

-----------------------------------------------------------------------------
(* One lemma per effect: the handlers of several statements. *)

\* Handler r goes on as n, and nothing else happens.
Moves(r, n) ==
  /\ req[r].pc # "bind_all"
  /\ req' = [req EXCEPT ![r] = n]
  /\ last' = Nothing
  /\ UNCHANGED <<rows, owed>>

\* Handler r has inserted check c in project p.
Inserts(r, p, c, s) ==
  /\ req[r].pc = "idle" /\ checkIn[c] = Absent
  /\ req' = [req EXCEPT ![r] = [IdleRequest EXCEPT !.pc = "bind_all", !.target = c,
                                                   !.standing = s]]
  /\ checkIn' = [checkIn EXCEPT ![c] = p]
  /\ owed' = [owed EXCEPT ![c] = list_channels_for_project(p)]
  /\ UNCHANGED <<users, owner, chanIn, config, given, bound>>

\* Handler r begins.
Starts(r) ==
  /\ req[r].pc = "idle"
  /\ \E n \in Request : Moves(r, n) /\ Fit(n, checkIn, chanIn, given, bound)

LEMMA NothingIsLast == Nothing \in Last
  BY DEF Nothing, Last, Standings

LEMMA InsertsDo ==
  ASSUME NEW w \in Callers, NEW r \in Requests, NEW p \in Projects, NEW c \in Checks,
         \/ check_create(r, w, p, c) \/ admin_check_create(r, w, p, c)
         \/ api_create_check(r, w, p, c)
  PROVE  \E s \in ByRight : Inserts(r, p, c, s) /\ Right(p)
  <1> USE Methods
  <1>1. ASSUME NEW a \in BOOLEAN, NEW url \in BOOLEAN,
               check_create_core(r, w, p, c, a, url), Writer(w, p, a)
        PROVE  \E s \in ByRight : Inserts(r, p, c, s) /\ Right(p)
    <2>1. PICK s \in ByRight : s = Standing(w, p, a)
      BY <1>1, StandingOf
    <2>2. Right(p)
      BY <1>1, ProjectOfRow, WritesRightly DEF check_create_core
    <2>3. Inserts(r, p, c, s)
      BY <1>1, <2>1 DEF check_create_core, Begin, Inserts
    <2> QED BY <2>2, <2>3
  <1> QED BY <1>1, ProjectResolvers DEF check_create, admin_check_create, api_create_check

LEMMA SavesDo ==
  ASSUME RowsOK, NEW w \in Callers, NEW r \in Requests, NEW c \in Checks,
         NEW form \in SUBSET Channels,
         \/ check_set_channels(r, w, c, form) \/ admin_check_set_channels(r, w, c, form)
         \/ api_set_check_channels(r, w, c, form)
  PROVE  Starts(r)
  <1> USE Methods
  <1>1. ASSUME NEW a \in BOOLEAN, ListChannels(r, w, c, form, a), Writer(w, c, a), find_check(c)
        PROVE  Starts(r)
    <2>1. PICK s \in ByRight : s = Standing(w, c, a)
      BY <1>1, StandingOf
    <2>2. PICK D \in SUBSET Channels :
            D = desired(form, list_channels_for_project(checkIn[c]))
      BY DEF desired
    <2>3. PICK n : n = [IdleRequest EXCEPT !.pc = "list_bound", !.target = c, !.standing = s,
                                           !.desired = D]
      OBVIOUS
    <2>4. Moves(r, n)
      BY <1>1, <2>1, <2>2, <2>3 DEF ListChannels, Begin, Moves
    <2>5. /\ n \in Request /\ n.pc = "list_bound" /\ n.target = c /\ n.standing = s
          /\ n.desired = D /\ n.adds = {}
      <3>1. Empty \in Credentials
        BY DEF Credentials, Plain
      <3> QED BY <2>3, <3>1 DEF IdleRequest, Request, Standings, ByRight
    <2>6. \A d \in D : chanIn[d] = checkIn[c]
      BY <2>2 DEF desired, list_channels_for_project
    <2>7. checkIn[c] # Absent
      BY <1>1, IdsAreApart DEF find_check
    <2>8. Fit(n, checkIn, chanIn, given, bound)
      BY <2>5, <2>6, <2>7 DEF Fit
    <2> QED BY <1>1, <2>4, <2>5, <2>8 DEF Starts, ListChannels, Begin
  <1> QED BY <1>1, CheckResolvers DEF check_set_channels, admin_check_set_channels,
          api_set_check_channels

LEMMA EditsDo ==
  ASSUME RowsOK, NEW w \in Callers, NEW r \in Requests, NEW d \in Channels,
         NEW field \in Fields(d),
         \/ channel_update(r, w, d, field) \/ admin_channel_update(r, w, d, field)
         \/ api_update_channel(r, w, d, field)
  PROVE  Starts(r)
  <1> USE Methods
  <1>1. ASSUME NEW a \in BOOLEAN, ChannelResolved(r, w, d, field, a), Writer(w, d, a),
               find_channel(d)
        PROVE  Starts(r)
    <2>1. PICK s \in ByRight : s = Standing(w, d, a)
      BY <1>1, StandingOf
    <2>2. PICK v \in Credentials : v = config[d]
      BY DEF RowsOK
    <2>0. field \in Values \cup {Blank, Clear}
      BY DEF Fields
    <2>3. PICK n : n = [IdleRequest EXCEPT !.pc = "update_channel", !.target = d,
                          !.field = field, !.old = v, !.standing = s]
      OBVIOUS
    <2>4. Moves(r, n)
      BY <1>1, <2>1, <2>2, <2>3 DEF ChannelResolved, Begin, Moves
    <2>5. /\ n \in Request /\ n.pc = "update_channel" /\ n.target = d /\ n.standing = s
          /\ n.old = v
      BY <2>0, <2>3 DEF IdleRequest, Request, Standings, ByRight
    <2>6. Fit(n, checkIn, chanIn, given, bound)
      BY <1>1, <2>2, <2>5, IdsAreApart DEF Fit, RowsOK, Submitted, find_channel
    <2> QED BY <1>1, <2>4, <2>5, <2>6 DEF Starts, ChannelResolved, Begin
  <1> QED BY <1>1, ChannelResolvers DEF channel_update, admin_channel_update,
          api_update_channel

LEMMA LongRequestsDo ==
  ASSUME RowsOK, NEW w \in Callers, NEW r \in Requests, LongRequests(r, w)
  PROVE  \/ \E p \in Projects, c \in Checks, s \in ByRight : Inserts(r, p, c, s) /\ Right(p)
         \/ Starts(r)
  <1>1. CASE \E p \in Projects, c \in Checks :
               \/ check_create(r, w, p, c)
               \/ admin_check_create(r, w, p, c)
               \/ api_create_check(r, w, p, c)
    BY <1>1, InsertsDo
  <1>2. CASE \E c \in Checks, form \in SUBSET Channels :
               \/ check_set_channels(r, w, c, form)
               \/ admin_check_set_channels(r, w, c, form)
               \/ api_set_check_channels(r, w, c, form)
    BY <1>2, SavesDo
  <1>3. CASE \E d \in Channels : \E field \in Fields(d) :
               \/ channel_update(r, w, d, field)
               \/ admin_channel_update(r, w, d, field)
               \/ api_update_channel(r, w, d, field)
    BY <1>3, EditsDo
  <1> QED BY <1>1, <1>2, <1>3 DEF LongRequests

LEMMA MovesInv ==
  ASSUME WorkspaceInv, NEW r \in Requests, NEW n, Moves(r, n),
         Fit(n, checkIn, chanIn, given, bound)
  PROVE  WorkspaceInv'
  <1>1. /\ req' = [req EXCEPT ![r] = n] /\ last' = Nothing /\ req[r].pc # "bind_all"
        /\ UNCHANGED <<users, owner, checkIn, chanIn, config, given, bound, owed>>
    BY DEF Moves, rows
  <1>2. /\ RowsOK /\ req \in [Requests -> Request]
        /\ \A s \in Requests : Fit(req[s], checkIn, chanIn, given, bound)
        /\ Joined(bound, checkIn, chanIn) /\ Owing(owed, checkIn, chanIn)
        /\ \A k \in Checks : Awaited(req, k) \/ owed[k] \subseteq bound[k]
    BY InvByParts
  <1>3. n \in Request
    BY DEF Fit
  <1>4. req' \in [Requests -> Request] /\ req'[r] = n /\ \A s \in Requests \ {r} : req'[s] = req[s]
    BY <1>1, <1>2, <1>3
  <1>5. \A s \in Requests : Fit(req'[s], checkIn, chanIn, given, bound)
    BY <1>2, <1>4
  <1>6. \A k \in Checks : Awaited(req, k) => Awaited(req', k)
    BY <1>1, <1>4 DEF Awaited
  <1>7. RowsOK'
    BY <1>1, <1>2 DEF RowsOK
  <1>8. /\ \A s \in Requests : Fit(req'[s], checkIn', chanIn', given', bound')
        /\ Joined(bound', checkIn', chanIn') /\ Owing(owed', checkIn', chanIn')
        /\ \A k \in Checks : Awaited(req', k) \/ owed'[k] \subseteq bound'[k]
    BY <1>1, <1>2, <1>5, <1>6
  <1> QED BY <1>1, <1>4, <1>7, <1>8, NothingIsLast, InvByPartsPrime

LEMMA InsertsInv ==
  ASSUME WorkspaceInv, NEW r \in Requests, NEW p \in Projects, NEW c \in Checks,
         NEW s \in ByRight, Inserts(r, p, c, s), last' \in Last
  PROVE  WorkspaceInv'
  <1>0. PICK n : n = [IdleRequest EXCEPT !.pc = "bind_all", !.target = c, !.standing = s]
    OBVIOUS
  <1>1. /\ req[r].pc = "idle" /\ checkIn[c] = Absent /\ req' = [req EXCEPT ![r] = n]
        /\ checkIn' = [checkIn EXCEPT ![c] = p]
        /\ owed' = [owed EXCEPT ![c] = list_channels_for_project(p)]
        /\ UNCHANGED <<users, owner, chanIn, config, given, bound>>
    BY <1>0 DEF Inserts
  <1>2. /\ RowsOK /\ req \in [Requests -> Request]
        /\ \A t \in Requests : Fit(req[t], checkIn, chanIn, given, bound)
        /\ Joined(bound, checkIn, chanIn) /\ Owing(owed, checkIn, chanIn)
        /\ \A k \in Checks : Awaited(req, k) \/ owed[k] \subseteq bound[k]
    BY InvByParts
  <1>3. n \in Request /\ n.pc = "bind_all" /\ n.target = c /\ n.standing = s
    <2>1. Empty \in Credentials
      BY DEF Credentials, Plain
    <2> QED BY <1>0, <2>1 DEF IdleRequest, Request, Standings, ByRight
  <1>4. req' \in [Requests -> Request] /\ req'[r] = n /\ \A t \in Requests \ {r} : req'[t] = req[t]
    BY <1>1, <1>2, <1>3
  <1>5. checkIn'[c] = p /\ p # Absent /\ \A k \in Checks \ {c} : checkIn'[k] = checkIn[k]
    BY <1>1, <1>2, IdsAreApart DEF RowsOK
  <1>6. Fit(n, checkIn', chanIn', given', bound')
    BY <1>3, <1>5 DEF Fit
  <1>7. ASSUME NEW t \in Requests \ {r}
        PROVE  Fit(req'[t], checkIn', chanIn', given', bound')
    <2>1. PICK q : q = req[t] /\ q = req'[t]
      BY <1>4
    <2>2. Fit(q, checkIn, chanIn, given, bound)
      BY <1>2, <2>1
    <2>3. q.pc \in {"bind_all", "list_bound", "bind"} =>
            q.target \in Checks /\ q.target # c /\ checkIn'[q.target] = checkIn[q.target]
      BY <1>1, <1>5, <2>2 DEF Fit
    <2>4. Fit(q, checkIn', chanIn', given', bound')
      BY <1>1, <2>2, <2>3 DEF Fit
    <2> QED BY <2>1, <2>4
  <1>8. \A t \in Requests : Fit(req'[t], checkIn', chanIn', given', bound')
    BY <1>4, <1>6, <1>7
  <1>9. RowsOK'
    BY <1>1, <1>2 DEF RowsOK, list_channels_for_project
  <1>10. Joined(bound', checkIn', chanIn')
    BY <1>1, <1>2, <1>5, IdsAreApart DEF Joined
  <1>11. Owing(owed', checkIn', chanIn')
    BY <1>1, <1>2, <1>5 DEF Owing, RowsOK, list_channels_for_project
  <1>12. \A k \in Checks : Awaited(req', k) \/ owed'[k] \subseteq bound'[k]
    <2>1. Awaited(req', c)
      BY <1>3, <1>4 DEF Awaited
    <2>2. \A k \in Checks : Awaited(req, k) => Awaited(req', k)
      BY <1>1, <1>4 DEF Awaited
    <2>3. \A k \in Checks \ {c} : owed'[k] = owed[k] /\ bound'[k] = bound[k]
      BY <1>1, <1>2 DEF RowsOK
    <2> QED BY <1>2, <2>1, <2>2, <2>3
  <1> QED BY <1>4, <1>8, <1>9, <1>10, <1>11, <1>12, InvByPartsPrime

\* A later statement is a write by right, to the project of the handler's target.
LEMMA ContinuesRightly ==
  ASSUME WorkspaceInv, NEW r \in Requests, NEW n, NEW ds, Continues(r, n, ds)
  PROVE  /\ last' \in Last /\ last'.kind = "write" /\ last'.standing \in ByRight /\ ~last'.url
         /\ \A p \in Projects : ProjectOf(req[r].target) = p => last'.project = p
  <1>1. PICK s \in Standings : s = req[r].standing /\ s \in ByRight
    BY InvByParts DEF Fit, Request
  <1>2. PICK p \in Projects \cup {Absent} :
          p = IF ProjectOf(req[r].target) \in Projects
              THEN ProjectOf(req[r].target) ELSE Absent
    OBVIOUS
  <1>3. last' = [kind |-> "write", standing |-> s, url |-> FALSE, project |-> p]
    BY <1>1, <1>2 DEF Continues
  <1>4. \A k \in Projects : ProjectOf(req[r].target) = k => p = k
    BY <1>2
  <1> QED BY <1>1, <1>3, <1>4 DEF Last

\* Handler r goes on as n and changes only the bindings of its check c, to the set B,
\* and those only of channels in ds; `ow` is what is owed to the check afterwards.
Rebinds(r, n, ds, c, B, ow) ==
  /\ req' = [Touched(req, ds) EXCEPT ![r] = n] /\ last' \in Last
  /\ Fit(n, checkIn, chanIn, given, bound')
  /\ bound' = [bound EXCEPT ![c] = B] /\ owed' = [owed EXCEPT ![c] = ow]
  /\ UNCHANGED <<users, owner, checkIn, chanIn, config, given>>
  /\ \A d \in Channels \ ds : d \in B <=> d \in bound[c]
  /\ \A d \in B : checkIn[c] \in Projects /\ chanIn[d] = checkIn[c]
  /\ ow \subseteq owed[c]
  /\ req[r].pc = "bind_all" => req[r].target = c /\ ow \subseteq B
  /\ owed[c] \subseteq bound[c] => ow \subseteq B

LEMMA RebindingInv ==
  ASSUME WorkspaceInv, NEW r \in Requests, NEW n, NEW ds \in SUBSET Channels,
         NEW c \in Checks, NEW B \in SUBSET Channels, NEW ow \in SUBSET Channels,
         Rebinds(r, n, ds, c, B, ow)
  PROVE  WorkspaceInv'
  <1>1. /\ req' = [Touched(req, ds) EXCEPT ![r] = n] /\ last' \in Last
        /\ Fit(n, checkIn, chanIn, given, bound')
        /\ bound' = [bound EXCEPT ![c] = B] /\ owed' = [owed EXCEPT ![c] = ow]
        /\ UNCHANGED <<users, owner, checkIn, chanIn, config, given>>
        /\ \A d \in Channels \ ds : d \in B <=> d \in bound[c]
        /\ \A d \in B : checkIn[c] \in Projects /\ chanIn[d] = checkIn[c]
        /\ ow \subseteq owed[c]
        /\ req[r].pc = "bind_all" => req[r].target = c /\ ow \subseteq B
        /\ owed[c] \subseteq bound[c] => ow \subseteq B
    BY DEF Rebinds
  <1>2. /\ RowsOK
        /\ Joined(bound, checkIn, chanIn) /\ Owing(owed, checkIn, chanIn)
        /\ \A k \in Checks : Awaited(req, k) \/ owed[k] \subseteq bound[k]
    BY InvByParts
  <1>3. RowsOK'
    BY <1>1, <1>2 DEF RowsOK
  <1>4. /\ bound'[c] = B /\ \A k \in Checks \ {c} : bound'[k] = bound[k]
        /\ owed'[c] = ow /\ \A k \in Checks \ {c} : owed'[k] = owed[k]
    BY <1>1, <1>2 DEF RowsOK
  <1>5. Tampers(ds) /\ GivenGrows
    BY <1>1, <1>2, <1>4 DEF RowsOK, Tampers, GivenGrows
  <1>6. Fit(n, checkIn', chanIn', given', bound')
    BY <1>1
  <1>7. /\ req' \in [Requests -> Request]
        /\ \A s \in Requests : Fit(req'[s], checkIn', chanIn', given', bound')
        /\ \A k \in Checks :
             Awaited(req, k) /\ ~(req[r].pc = "bind_all" /\ req[r].target = k)
               => Awaited(req', k)
    BY <1>1, <1>5, <1>6, ContinuingFits, GrowthKeepsGiven
  <1>8. Joined(bound', checkIn', chanIn')
    BY <1>1, <1>2, <1>4 DEF Joined
  <1>9. Owing(owed', checkIn', chanIn')
    BY <1>1, <1>2, <1>4 DEF Owing
  <1>10. \A k \in Checks : Awaited(req', k) \/ owed'[k] \subseteq bound'[k]
    <2>1. Awaited(req', c) \/ ow \subseteq B
      BY <1>1, <1>2, <1>7
    <2>2. \A k \in Checks \ {c} : Awaited(req', k) \/ owed[k] \subseteq bound[k]
      BY <1>1, <1>2, <1>7
    <2> QED BY <1>4, <2>1, <2>2
  <1> QED BY <1>1, <1>3, <1>7, <1>8, <1>9, <1>10, InvByPartsPrime

LEMMA BindAllInv ==
  ASSUME WorkspaceInv, NEW r \in Requests, BindAll(r)
  PROVE  WorkspaceInv'
  <1>1. /\ RowsOK /\ Fit(req[r], checkIn, chanIn, given, bound)
        /\ Joined(bound, checkIn, chanIn) /\ Owing(owed, checkIn, chanIn)
    BY InvByParts
  <1>2. PICK c \in Checks : c = req[r].target
    BY <1>1 DEF BindAll, Fit
  <1>3. PICK ds \in SUBSET Channels :
          ds = IF find_check(c) THEN bind_all_project_channels(c) ELSE {}
    BY DEF bind_all_project_channels, list_channels_for_project
  <1>4. PICK B \in SUBSET Channels : B = bound[c] \cup ds
    BY <1>1 DEF RowsOK
  <1>5. /\ req[r].pc = "bind_all" /\ Continues(r, IdleRequest, ds)
        /\ bound' = [bound EXCEPT ![c] = B]
        /\ UNCHANGED <<users, owner, checkIn, chanIn, config, given, owed>>
    BY <1>1, <1>2, <1>3, <1>4 DEF BindAll, RowsOK
  <1>6. owed' = [owed EXCEPT ![c] = owed[c]] /\ owed[c] \in SUBSET Channels
    BY <1>1, <1>5 DEF RowsOK
  <1>7. \A d \in B : checkIn[c] \in Projects /\ chanIn[d] = checkIn[c]
    BY <1>1, <1>3, <1>4 DEF Joined, bind_all_project_channels, list_channels_for_project,
       find_check
  <1>8. owed[c] \subseteq B
    BY <1>1, <1>3, <1>4, <1>6 DEF Owing, bind_all_project_channels,
       list_channels_for_project, find_check
  <1>9. last' \in Last /\ req' = [Touched(req, ds) EXCEPT ![r] = IdleRequest]
    BY <1>5, ContinuesRightly DEF Continues
  <1>10. Rebinds(r, IdleRequest, ds, c, B, owed[c])
    BY <1>2, <1>4, <1>5, <1>6, <1>7, <1>8, <1>9, IdleFits DEF Rebinds
  <1> QED BY <1>6, <1>10, RebindingInv

LEMMA ListBoundInv ==
  ASSUME WorkspaceInv, NEW r \in Requests, ListBound(r)
  PROVE  WorkspaceInv'
  <1>1. PICK q \in Request : q = req[r]
    BY InvByParts
  <1>2. RowsOK /\ Fit(q, checkIn, chanIn, given, bound)
    BY <1>1, InvByParts
  <1>3. q.pc = "list_bound" /\ q.target \in Checks
    BY <1>1, <1>2 DEF ListBound, Fit
  <1>4. PICK A \in SUBSET Channels, D \in SUBSET Channels :
          A = q.desired \ bound[q.target] /\ D = bound[q.target] \ q.desired
    BY <1>2, <1>3 DEF RowsOK, Request
  <1>5. PICK n : n = [q EXCEPT !.pc = "bind", !.adds = A, !.dels = D]
    OBVIOUS
  <1>6. /\ n \in Request /\ n.pc = "bind" /\ n.standing = q.standing /\ n.target = q.target
        /\ n.desired = q.desired /\ n.adds = A /\ n.dels = D /\ n.touched = q.touched
    BY <1>5 DEF Request
  <1>7. Moves(r, n)
    BY <1>1, <1>3, <1>4, <1>5 DEF ListBound, Moves
  <1>8. Fit(n, checkIn, chanIn, given, bound)
    BY <1>2, <1>3, <1>4, <1>6 DEF Fit
  <1> QED BY <1>7, <1>8, MovesInv

LEMMA BindChannelInv ==
  ASSUME WorkspaceInv, NEW r \in Requests, BindChannel(r)
  PROVE  WorkspaceInv'
  <1>1. PICK q \in Request : q = req[r]
    BY InvByParts
  <1>2. /\ RowsOK /\ Fit(q, checkIn, chanIn, given, bound)
        /\ Joined(bound, checkIn, chanIn)
    BY <1>1, InvByParts
  <1>3. PICK c \in Checks : c = q.target
    BY <1>1, <1>2 DEF BindChannel, Fit
  <1>4. q.pc = "bind" /\ UNCHANGED <<users, owner, checkIn, chanIn, config, given, owed>>
    BY <1>1 DEF BindChannel
  <1>5. PICK d \in q.adds :
          IF find_check(c) /\ find_channel(d)
          THEN /\ bound' = [bound EXCEPT ![c] = @ \cup {d}]
               /\ Continues(r, [q EXCEPT !.adds = @ \ {d}], {d})
          ELSE Continues(r, IdleRequest, {}) /\ UNCHANGED bound
    BY <1>1, <1>3 DEF BindChannel
  <1>6. d \in Channels /\ d \in q.desired
    BY <1>2, <1>4 DEF Request, Fit
  <1>7. owed' = [owed EXCEPT ![c] = owed[c]] /\ owed[c] \in SUBSET Channels
    BY <1>2, <1>4 DEF RowsOK
  <1>8. CASE find_check(c) /\ find_channel(d)
    <2>1. PICK A \in SUBSET Channels, B \in SUBSET Channels :
            A = q.adds \ {d} /\ B = bound[c] \cup {d}
      BY <1>2, <1>6 DEF Request, RowsOK
    <2>2. PICK n : n = [q EXCEPT !.adds = A]
      OBVIOUS
    <2>3. /\ n \in Request /\ n.pc = q.pc /\ n.standing = q.standing /\ n.target = c
          /\ n.desired = q.desired /\ n.adds = A /\ n.dels = q.dels /\ n.touched = q.touched
      BY <1>3, <2>2 DEF Request
    <2>4. bound' = [bound EXCEPT ![c] = B] /\ Continues(r, n, {d})
      BY <1>2, <1>5, <1>8, <2>1, <2>2 DEF RowsOK
    <2>5. bound'[c] = B
      BY <1>2, <2>4 DEF RowsOK
    <2>6. chanIn[d] = checkIn[c]
      BY <1>2, <1>3, <1>4, <1>6, <1>8, IdsAreApart DEF Fit, find_check, find_channel
    <2>7. Fit(n, checkIn, chanIn, given, bound')
      <3>1. \A e \in Channels \ n.touched :
              checkIn[c] \in Projects =>
                (e \in bound'[c] <=> e \in (n.desired \ n.adds) \cup n.dels)
        BY <1>2, <1>3, <1>4, <1>6, <2>1, <2>3, <2>5 DEF Fit
      <3>2. n.adds \subseteq n.desired /\ n.dels \cap n.desired = {} /\ n.standing \in ByRight
        BY <1>2, <1>4, <2>1, <2>3 DEF Fit
      <3>3. /\ checkIn[c] # Absent
            /\ \A e \in n.desired \cup n.adds :
                 chanIn[e] \in {checkIn[c], Gone} \/ checkIn[c] = Gone
        BY <1>2, <1>3, <1>4, <2>1, <2>3 DEF Fit
      <3> QED BY <1>4, <2>3, <3>1, <3>2, <3>3 DEF Fit
    <2>8. \A e \in B : checkIn[c] \in Projects /\ chanIn[e] = checkIn[c]
      BY <1>2, <1>8, <2>1, <2>6 DEF Joined, find_check
    <2>9. last' \in Last /\ req' = [Touched(req, {d}) EXCEPT ![r] = n]
      BY <2>4, ContinuesRightly DEF Continues
    <2>10. /\ \A e \in Channels \ {d} : e \in B <=> e \in bound[c]
           /\ owed[c] \subseteq bound[c] => owed[c] \subseteq B
           /\ {d} \in SUBSET Channels /\ req[r].pc # "bind_all"
      BY <1>1, <1>4, <1>6, <2>1
    <2>11. Rebinds(r, n, {d}, c, B, owed[c])
      BY <1>4, <1>7, <2>4, <2>7, <2>8, <2>9, <2>10 DEF Rebinds
    <2> QED BY <1>7, <2>10, <2>11, RebindingInv
  <1>9. CASE ~(find_check(c) /\ find_channel(d))
    <2>1. Continues(r, IdleRequest, {}) /\ UNCHANGED bound
      BY <1>5, <1>9
    <2>2. bound' = [bound EXCEPT ![c] = bound[c]] /\ bound[c] \in SUBSET Channels
      BY <1>2, <2>1 DEF RowsOK
    <2>3. last' \in Last /\ req' = [Touched(req, {}) EXCEPT ![r] = IdleRequest]
      BY <2>1, ContinuesRightly DEF Continues
    <2>4. \A e \in bound[c] : checkIn[c] \in Projects /\ chanIn[e] = checkIn[c]
      BY <1>2 DEF Joined
    <2>5. Fit(IdleRequest, checkIn, chanIn, given, bound') /\ req[r].pc # "bind_all"
      BY <1>1, <1>4, IdleFits
    <2>6. Rebinds(r, IdleRequest, {}, c, bound[c], owed[c])
      BY <1>4, <1>7, <2>2, <2>3, <2>4, <2>5 DEF Rebinds
    <2> QED BY <1>7, <2>2, <2>6, RebindingInv
  <1> QED BY <1>8, <1>9

LEMMA UnbindChannelInv ==
  ASSUME WorkspaceInv, NEW r \in Requests, UnbindChannel(r)
  PROVE  WorkspaceInv'
  <1>1. PICK q \in Request : q = req[r]
    BY InvByParts
  <1>2. /\ RowsOK /\ Fit(q, checkIn, chanIn, given, bound)
        /\ Joined(bound, checkIn, chanIn)
    BY <1>1, InvByParts
  <1>3. PICK c \in Checks : c = q.target
    BY <1>1, <1>2 DEF UnbindChannel, Fit
  <1>4. q.pc = "bind" /\ UNCHANGED <<users, owner, checkIn, chanIn, config, given>>
    BY <1>1 DEF UnbindChannel
  <1>5. PICK d \in q.dels :
          /\ bound' = [bound EXCEPT ![c] = @ \ {d}] /\ owed' = [owed EXCEPT ![c] = @ \ {d}]
          /\ Continues(r, [q EXCEPT !.dels = @ \ {d}], {d})
    BY <1>1, <1>3 DEF UnbindChannel
  <1>6. d \in Channels /\ d \notin q.desired
    BY <1>2, <1>4 DEF Request, Fit
  <1>7. PICK D \in SUBSET Channels, B \in SUBSET Channels, ow \in SUBSET Channels :
          D = q.dels \ {d} /\ B = bound[c] \ {d} /\ ow = owed[c] \ {d}
    BY <1>2 DEF Request, RowsOK
  <1>8. PICK n : n = [q EXCEPT !.dels = D]
    OBVIOUS
  <1>9. /\ n \in Request /\ n.pc = q.pc /\ n.standing = q.standing /\ n.target = c
        /\ n.desired = q.desired /\ n.adds = q.adds /\ n.dels = D /\ n.touched = q.touched
    BY <1>3, <1>8 DEF Request
  <1>10. /\ bound' = [bound EXCEPT ![c] = B] /\ owed' = [owed EXCEPT ![c] = ow]
         /\ Continues(r, n, {d})
    BY <1>2, <1>5, <1>7, <1>8 DEF RowsOK
  <1>11. bound'[c] = B
    BY <1>2, <1>10 DEF RowsOK
  <1>12. Fit(n, checkIn, chanIn, given, bound')
    <2>1. \A e \in Channels \ n.touched :
            checkIn[c] \in Projects =>
              (e \in bound'[c] <=> e \in (n.desired \ n.adds) \cup n.dels)
      BY <1>2, <1>3, <1>4, <1>6, <1>7, <1>9, <1>11 DEF Fit
    <2>2. n.adds \subseteq n.desired /\ n.dels \cap n.desired = {} /\ n.standing \in ByRight
      BY <1>2, <1>4, <1>7, <1>9 DEF Fit
    <2>3. /\ checkIn[c] # Absent
          /\ \A e \in n.desired \cup n.adds :
               chanIn[e] \in {checkIn[c], Gone} \/ checkIn[c] = Gone
      BY <1>2, <1>3, <1>4, <1>9 DEF Fit
    <2> QED BY <1>4, <1>9, <2>1, <2>2, <2>3 DEF Fit
  <1>13. \A e \in B : checkIn[c] \in Projects /\ chanIn[e] = checkIn[c]
    BY <1>2, <1>7 DEF Joined
  <1>14. last' \in Last /\ req' = [Touched(req, {d}) EXCEPT ![r] = n]
    BY <1>10, ContinuesRightly DEF Continues
  <1>15. /\ \A e \in Channels \ {d} : e \in B <=> e \in bound[c]
         /\ ow \subseteq owed[c] /\ (owed[c] \subseteq bound[c] => ow \subseteq B)
         /\ {d} \in SUBSET Channels /\ req[r].pc # "bind_all"
    BY <1>1, <1>4, <1>6, <1>7
  <1>16. Rebinds(r, n, {d}, c, B, ow)
    BY <1>4, <1>10, <1>12, <1>13, <1>14, <1>15 DEF Rebinds
  <1> QED BY <1>7, <1>15, <1>16, RebindingInv

LEMMA ChannelsSavedInv ==
  ASSUME WorkspaceInv, NEW r \in Requests, ChannelsSaved(r)
  PROVE  WorkspaceInv'
  <1>1. /\ req[r].pc = "bind" /\ Continues(r, IdleRequest, {})
        /\ UNCHANGED <<users, owner, checkIn, chanIn, config, given, bound, owed>>
    BY DEF ChannelsSaved, rows
  <1>2. /\ RowsOK /\ Joined(bound, checkIn, chanIn)
        /\ Fit(req[r], checkIn, chanIn, given, bound)
    BY InvByParts
  <1>3. PICK c \in Checks : c = req[r].target
    BY <1>1, <1>2 DEF Fit
  <1>4. /\ bound' = [bound EXCEPT ![c] = bound[c]] /\ bound[c] \in SUBSET Channels
        /\ owed' = [owed EXCEPT ![c] = owed[c]] /\ owed[c] \in SUBSET Channels
    BY <1>1, <1>2 DEF RowsOK
  <1>5. last' \in Last /\ req' = [Touched(req, {}) EXCEPT ![r] = IdleRequest]
    BY <1>1, ContinuesRightly DEF Continues
  <1>6. \A e \in bound[c] : checkIn[c] \in Projects /\ chanIn[e] = checkIn[c]
    BY <1>2 DEF Joined
  <1>7. Rebinds(r, IdleRequest, {}, c, bound[c], owed[c])
    BY <1>1, <1>4, <1>5, <1>6, IdleFits DEF Rebinds
  <1> QED BY <1>4, <1>7, RebindingInv

LEMMA UpdateChannelInv ==
  ASSUME WorkspaceInv, NEW r \in Requests, update_channel(r)
  PROVE  WorkspaceInv'
  <1>1. PICK q \in Request : q = req[r]
    BY InvByParts
  <1>2. /\ RowsOK /\ Joined(bound, checkIn, chanIn) /\ Owing(owed, checkIn, chanIn)
        /\ Fit(q, checkIn, chanIn, given, bound)
        /\ \A k \in Checks : Awaited(req, k) \/ owed[k] \subseteq bound[k]
    BY <1>1, InvByParts
  <1>3. PICK d \in Channels : d = q.target
    BY <1>1, <1>2 DEF update_channel, Fit
  <1>4. PICK v \in Plain : v = channel_config(q.field, q.old)
    BY DEF channel_config, merged, StoredConfig, Request, Plain, Credentials
  <1>5. /\ q.pc = "update_channel" /\ Required(d, v) /\ Continues(r, IdleRequest, {})
        /\ find_channel(d) =>
             /\ config' = [config EXCEPT ![d] = v]
             /\ given' = IF q.field = Blank THEN given
                         ELSE [given EXCEPT ![d] = {v} \cup Held(r, d)]
        /\ ~find_channel(d) => UNCHANGED <<config, given>>
        /\ UNCHANGED <<users, owner, checkIn, chanIn, bound, owed>>
    BY <1>1, <1>3, <1>4 DEF update_channel
  <1>6. /\ config' \in [Channels -> Credentials] /\ (find_channel(d) => config'[d] = v)
        /\ \A e \in Channels \ {d} : config'[e] = config[e]
    BY <1>2, <1>5 DEF RowsOK, Credentials
  <1>7. Held(r, d) \in SUBSET Plain
    <2>1. \A x \in Requests : req[x] \in Request
      BY InvByParts
    <2>2. \A x \in Requests : StoredConfig(req[x].old) \in Plain
      BY <2>1 DEF StoredConfig, Request, Plain, Credentials
    <2> QED BY <2>2 DEF Held
  <1>8. given' \in [Channels -> SUBSET Plain] /\ \A e \in Channels \ {d} : given'[e] = given[e]
    <2>1. CASE find_channel(d) /\ q.field # Blank
      <3>1. PICK G \in SUBSET Plain : G = {v} \cup Held(r, d)
        BY <1>7
      <3> QED BY <1>2, <1>5, <2>1, <3>1 DEF RowsOK
    <2> QED BY <1>2, <1>5, <2>1 DEF RowsOK
  <1>9. find_channel(d) => v \in given'[d]
    <2>1. CASE q.field = Blank
      <3>1. v = StoredConfig(q.old)
        BY <1>4, <2>1, ValuesAreApart DEF channel_config, merged, Blank, Clear
      <3> QED BY <1>2, <1>3, <1>5, <2>1, <3>1 DEF Fit, find_channel
    <2>2. CASE q.field # Blank
      BY <1>2, <1>5, <1>7, <2>2 DEF RowsOK
    <2> QED BY <2>1, <2>2
  <1>10. Submitted(config', given', chanIn')
    <2>1. StoredConfig(v) = v
      BY ValuesAreApart DEF StoredConfig, Plain, Empty, Garbled
    <2>2. ASSUME NEW e \in Channels \ {d}, chanIn'[e] \in Projects
          PROVE  StoredConfig(config'[e]) \in given'[e] /\ Required(e, config'[e])
      BY <1>2, <1>5, <1>6, <1>8, <2>2 DEF RowsOK, Submitted
    <2>3. chanIn'[d] \in Projects =>
            StoredConfig(config'[d]) \in given'[d] /\ Required(d, config'[d])
      BY <1>5, <1>6, <1>9, <2>1 DEF find_channel
    <2> QED BY <2>2, <2>3 DEF Submitted
  <1>11. RowsOK'
    BY <1>2, <1>5, <1>6, <1>8, <1>10 DEF RowsOK
  <1>13. Tampers({})
    BY <1>2, <1>5 DEF Tampers
  <1>14. ASSUME NEW s \in Requests \ {r} PROVE StillGiven(s)
    <2>1. PICK n : n = req[s] /\ Fit(n, checkIn, chanIn, given, bound)
      BY InvByParts
    <2> SUFFICES ASSUME n.pc = "update_channel", n.field = Blank, chanIn[n.target] \in Projects
                 PROVE  StoredConfig(n.old) \in given'[n.target]
      BY <1>5, <2>1 DEF StillGiven
    <2>2. StoredConfig(n.old) \in given[n.target] /\ n.target \in Channels
      BY <2>1 DEF Fit
    <2>3. CASE n.target # d \/ q.field = Blank
      BY <1>5, <1>8, <2>2, <2>3
    <2>4. CASE n.target = d /\ q.field # Blank
      <3>1. StoredConfig(n.old) \in Held(r, d)
        BY <2>1, <2>4 DEF Held
      <3>2. given'[d] = {v} \cup Held(r, d)
        BY <1>2, <1>5, <2>4 DEF find_channel, RowsOK
      <3> QED BY <2>4, <3>1, <3>2
    <2> QED BY <2>3, <2>4
  <1>15. last' \in Last /\ req' = [Touched(req, {}) EXCEPT ![r] = IdleRequest]
    BY <1>5, ContinuesRightly DEF Continues
  <1>16. {} \in SUBSET Channels /\ Fit(IdleRequest, checkIn', chanIn', given', bound')
    BY IdleFits
  <1>17. /\ req' \in [Requests -> Request]
         /\ \A s \in Requests : Fit(req'[s], checkIn', chanIn', given', bound')
         /\ \A k \in Checks :
              Awaited(req, k) /\ ~(req[r].pc = "bind_all" /\ req[r].target = k)
                => Awaited(req', k)
    BY <1>13, <1>14, <1>15, <1>16, ContinuingFits
  <1>12. /\ Joined(bound', checkIn', chanIn') /\ Owing(owed', checkIn', chanIn')
         /\ \A k \in Checks : Awaited(req', k) \/ owed'[k] \subseteq bound'[k]
    BY <1>1, <1>2, <1>5, <1>17
  <1> QED BY <1>11, <1>12, <1>15, <1>17, InvByPartsPrime

LEMMA HandEditInv ==
  ASSUME WorkspaceInv, NEW d \in Channels, HandEdit(d)
  PROVE  WorkspaceInv'
  <1>1. /\ find_channel(d) /\ config' = [config EXCEPT ![d] = Garbled]
        /\ given' = [given EXCEPT ![d] = given[d] \cup {Empty}]
        /\ last' = [Nothing EXCEPT !.kind = "hand"]
        /\ UNCHANGED <<users, owner, checkIn, chanIn, bound, req, owed>>
    BY DEF HandEdit
  <1>2. /\ RowsOK /\ req \in [Requests -> Request]
        /\ \A s \in Requests : Fit(req[s], checkIn, chanIn, given, bound)
        /\ Joined(bound, checkIn, chanIn) /\ Owing(owed, checkIn, chanIn)
        /\ \A k \in Checks : Awaited(req, k) \/ owed[k] \subseteq bound[k]
    BY InvByParts
  <1>3. /\ config'[d] = Garbled /\ Empty \in given'[d]
        /\ \A e \in Channels : given[e] \subseteq given'[e]
        /\ \A e \in Channels \ {d} : config'[e] = config[e]
    BY <1>1, <1>2 DEF RowsOK
  <1>4. Submitted(config', given', chanIn')
    <2>1. StoredConfig(Garbled) = Empty /\ Required(d, Garbled)
      BY DEF StoredConfig, Required, Garbled, Empty
    <2> QED BY <1>1, <1>2, <1>3, <2>1 DEF RowsOK, Submitted
  <1>5. RowsOK'
    BY <1>1, <1>2, <1>4 DEF RowsOK, Credentials, Plain
  <1>6. last' \in Last
    BY <1>1 DEF Nothing, Last, Standings
  <1>7. ASSUME NEW s \in Requests
        PROVE  Fit(req'[s], checkIn', chanIn', given', bound')
    <2>1. PICK q : q = req[s] /\ q = req'[s] /\ Fit(q, checkIn, chanIn, given, bound)
      BY <1>1, <1>2
    <2>2. Fit(q, checkIn, chanIn, given', bound)
      BY <1>3, <2>1 DEF Fit
    <2> QED BY <1>1, <2>1, <2>2
  <1>8. /\ Joined(bound', checkIn', chanIn') /\ Owing(owed', checkIn', chanIn')
        /\ \A k \in Checks : Awaited(req', k) \/ owed'[k] \subseteq bound'[k]
    BY <1>1, <1>2
  <1>9. req' \in [Requests -> Request]
    BY <1>1, <1>2
  <1> QED BY <1>5, <1>6, <1>7, <1>8, <1>9, InvByPartsPrime

LEMMA DropInv ==
  ASSUME WorkspaceInv, NEW r \in Requests, Drop(r)
  PROVE  WorkspaceInv'
  <1>1. CASE req[r].pc # "bind_all"
    <2>1. Moves(r, IdleRequest)
      BY <1>1 DEF Drop, Moves
    <2> QED BY <2>1, IdleFits, MovesInv
  <1>2. CASE req[r].pc = "bind_all"
    <2>1. /\ RowsOK /\ req \in [Requests -> Request]
          /\ \A s \in Requests : Fit(req[s], checkIn, chanIn, given, bound)
          /\ Joined(bound, checkIn, chanIn) /\ Owing(owed, checkIn, chanIn)
          /\ \A k \in Checks : Awaited(req, k) \/ owed[k] \subseteq bound[k]
      BY InvByParts
    <2>2. PICK c \in Checks : c = req[r].target
      BY <1>2, <2>1 DEF Fit
    <2>3. /\ req' = [req EXCEPT ![r] = IdleRequest] /\ owed' = [owed EXCEPT ![c] = {}]
          /\ last' = Nothing /\ UNCHANGED <<users, owner, checkIn, chanIn, config, given, bound>>
      BY <1>2, <2>2 DEF Drop, rows
    <2>4. /\ req' \in [Requests -> Request] /\ req'[r] = IdleRequest
          /\ \A s \in Requests \ {r} : req'[s] = req[s]
      BY <2>1, <2>3, IdleFits
    <2>5. \A s \in Requests : Fit(req'[s], checkIn', chanIn', given', bound')
      BY <2>1, <2>3, <2>4, IdleFits
    <2>6. owed'[c] = {} /\ \A k \in Checks \ {c} : owed'[k] = owed[k]
      BY <2>1, <2>3 DEF RowsOK
    <2>7. \A k \in Checks \ {c} : Awaited(req, k) => Awaited(req', k)
      BY <2>2, <2>4 DEF Awaited
    <2>8. RowsOK'
      BY <2>1, <2>3 DEF RowsOK
    <2>9. Joined(bound', checkIn', chanIn') /\ Owing(owed', checkIn', chanIn')
      BY <2>1, <2>3, <2>6 DEF Owing
    <2>10. \A k \in Checks : Awaited(req', k) \/ owed'[k] \subseteq bound'[k]
      BY <2>1, <2>3, <2>6, <2>7
    <2> QED BY <2>3, <2>4, <2>5, <2>8, <2>9, <2>10, NothingIsLast, InvByPartsPrime
  <1> QED BY <1>1, <1>2

-----------------------------------------------------------------------------
(* The invariant. *)

\* Every step has one of these effects.
Effect ==
  \/ Quiet
  \/ \E u \in Users, p \in Projects : create_project(u, p) /\ Right(p)
  \/ \E p \in Projects : delete_project(p) /\ Right(p)
  \/ \E c \in Checks : find_check(c) /\ delete_check(c) /\ Right(checkIn[c])
  \/ \E d \in Channels : find_channel(d) /\ delete_channel(d) /\ Right(chanIn[d])
  \/ \E p \in Projects, d \in Channels, v \in Plain : create_channel(p, d, v) /\ Right(p)
  \/ \E r \in Requests, p \in Projects, c \in Checks, s \in ByRight :
       Inserts(r, p, c, s) /\ Right(p)
  \/ \E r \in Requests : Starts(r) \/ RequestStep(r)
  \/ \E u \in Users : users_delete(u)
  \/ \E d \in Channels : HandEdit(d)

LEMMA StepsDo ==
  ASSUME WorkspaceInv, Next
  PROVE  Effect
  <1>1. RowsOK
    BY InvByParts
  <1>2. ASSUME NEW w \in Callers, NEW p \in Projects, ProjectRequests(w, p)
        PROVE  Effect
    <2>1. w.user \in Users
      BY DEF Callers
    <2> QED BY <1>2, <2>1, ProjectRequestsDo DEF Effect
  <1>3. ASSUME NEW w \in Callers, NEW c \in Checks, CheckRequests(w, c)
        PROVE  Effect
    BY <1>3, CheckRequestsDo DEF Effect
  <1>4. ASSUME NEW w \in Callers, NEW d \in Channels, ChannelRequests(w, d)
        PROVE  Effect
    BY <1>4, ChannelRequestsDo DEF Effect
  <1>5. ASSUME NEW w \in Callers, NEW r \in Requests, LongRequests(r, w)
        PROVE  Effect
    BY <1>1, <1>5, LongRequestsDo DEF Effect
  <1>6. ASSUME NEW r \in Requests, RequestStep(r)
        PROVE  Effect
    BY <1>6 DEF Effect
  <1>7. ASSUME NEW u \in Users, users_delete(u)
        PROVE  Effect
    BY <1>7 DEF Effect
  <1>8. ASSUME NEW d \in Fragile, HandEdit(d)
        PROVE  Effect
    BY <1>8, FragileAssumption DEF Effect
  <1> QED BY <1>2, <1>3, <1>4, <1>5, <1>6, <1>7, <1>8 DEF Next

LEMMA RequestStepInv ==
  ASSUME WorkspaceInv, NEW r \in Requests, RequestStep(r)
  PROVE  WorkspaceInv'
  BY BindAllInv, ListBoundInv, BindChannelInv, UnbindChannelInv, ChannelsSavedInv,
     UpdateChannelInv, DropInv DEF RequestStep

LEMMA UsersDeleteInv ==
  ASSUME WorkspaceInv, NEW u \in Users, users_delete(u)
  PROVE  WorkspaceInv'
  <1>1. PICK P \in SUBSET Projects : P = {p \in Projects : owner[p] = u}
    OBVIOUS
  <1>2. Cascade(P) /\ users' = users \ {u} /\ last' = Nothing
    BY <1>1 DEF users_delete, delete_user
  <1>3. users' \subseteq Users
    BY <1>2, InvByParts DEF RowsOK
  <1> QED BY <1>2, <1>3, NothingIsLast, CascadeInv

LEMMA EffectInv ==
  ASSUME WorkspaceInv, Effect
  PROVE  WorkspaceInv'
  <1>1. \A p : Right(p) => last' \in Last
    BY DEF Right
  <1>2. CASE Quiet
    BY <1>2, QuietInv DEF Quiet
  <1>3. CASE \E u \in Users, p \in Projects : create_project(u, p) /\ Right(p)
    BY <1>1, <1>3, CreateProjectInv
  <1>4. ASSUME NEW p \in Projects, delete_project(p), Right(p)
        PROVE  WorkspaceInv'
    <2>1. Cascade({p}) /\ users' \subseteq Users /\ {p} \in SUBSET Projects
      BY <1>4, InvByParts DEF delete_project, RowsOK
    <2> QED BY <1>1, <1>4, <2>1, CascadeInv
  <1>5. CASE \E c \in Checks : find_check(c) /\ delete_check(c) /\ Right(checkIn[c])
    BY <1>1, <1>5, DeleteCheckInv
  <1>6. CASE \E d \in Channels : find_channel(d) /\ delete_channel(d) /\ Right(chanIn[d])
    BY <1>1, <1>6, DeleteChannelInv
  <1>7. CASE \E p \in Projects, d \in Channels, v \in Plain :
               create_channel(p, d, v) /\ Right(p)
    BY <1>1, <1>7, CreateChannelInv
  <1>8. CASE \E r \in Requests, p \in Projects, c \in Checks, s \in ByRight :
               Inserts(r, p, c, s) /\ Right(p)
    BY <1>1, <1>8, InsertsInv
  <1>9. CASE \E r \in Requests : Starts(r) \/ RequestStep(r)
    BY <1>9, MovesInv, RequestStepInv DEF Starts
  <1>10. CASE \E u \in Users : users_delete(u)
    BY <1>10, UsersDeleteInv
  <1>11. CASE \E d \in Channels : HandEdit(d)
    BY <1>11, HandEditInv
  <1> QED BY <1>2, <1>3, <1>4, <1>5, <1>6, <1>7, <1>8, <1>9, <1>10, <1>11 DEF Effect

LEMMA InitInv == Init => WorkspaceInv
  <1> SUFFICES ASSUME Init
               PROVE  WorkspaceInv
    OBVIOUS
  <1>1. Submitted(config, given, chanIn)
    BY IdsAreApart DEF Init, Submitted
  <1>2. RowsOK
    BY <1>1 DEF Init, RowsOK, Credentials, Plain
  <1>3. req \in [Requests -> Request] /\ last \in Last
    BY IdleFits, NothingIsLast DEF Init
  <1>4. \A r \in Requests : Fit(req[r], checkIn, chanIn, given, bound)
    BY IdleFits DEF Init
  <1>5. /\ Joined(bound, checkIn, chanIn) /\ Owing(owed, checkIn, chanIn)
        /\ \A c \in Checks : Awaited(req, c) \/ owed[c] \subseteq bound[c]
    BY DEF Init, Joined, Owing
  <1> QED BY <1>2, <1>3, <1>4, <1>5, InvByParts

LEMMA NextInv == WorkspaceInv /\ [Next]_vars => WorkspaceInv'
  <1> SUFFICES ASSUME WorkspaceInv, [Next]_vars
               PROVE  WorkspaceInv'
    OBVIOUS
  <1>1. CASE Next
    BY <1>1, StepsDo, EffectInv
  <1>2. CASE UNCHANGED vars
    <2>1. UNCHANGED <<rows, req, owed>> /\ last' = last
      BY <1>2 DEF vars
    <2> QED BY <2>1, InvByParts, QuietInv
  <1> QED BY <1>1, <1>2

\* For every set of users, projects, checks, channels and handlers in flight, the
\* invariant of the tables and of the handlers between two of their statements
\* (check_create_core, bind_channels, channel_update) holds in every reachable state.
THEOREM WorkspaceInvariant == Spec => []WorkspaceInv
  BY InitInv, NextInv, PTL DEF Spec

\* No interleaving of bind_channels, bind_all_project_channels and the cascades of
\* deletions ever binds a check to a channel of another project or to one that is gone.
THEOREM BindingsAlwaysInProject == Spec => []BindingsInProject
  <1>1. WorkspaceInv => BindingsInProject
    BY DEF WorkspaceInv
  <1> QED BY <1>1, WorkspaceInvariant, PTL

\* Once check_create_core has finished, the new check has every channel its project had
\* when it was inserted, less those that were unbound or deleted since.
THEOREM OwedAlwaysBound == Spec => []OwedAreBound
  <1>1. WorkspaceInv => OwedAreBound
    BY DEF WorkspaceInv
  <1> QED BY <1>1, WorkspaceInvariant, PTL

-----------------------------------------------------------------------------
(* What a step may never do. *)

\* A handler leaves one of its later stages only by a step of its own.
LEMMA OwnSteps ==
  ASSUME WorkspaceInv, Effect, NEW t \in Requests, ~RequestStep(t), req[t].pc # "idle"
  PROVE  req'[t].pc = req[t].pc
  <1>1. req \in [Requests -> Request] /\ RowsOK
    BY InvByParts
  <1>2. ASSUME NEW ds \in SUBSET Channels
        PROVE  /\ Touched(req, ds) \in [Requests -> Request]
               /\ Touched(req, ds)[t].pc = req[t].pc
    BY <1>1, TouchedType, TouchedFields
  <1>3. CASE Quiet \/ \E u \in Users, p \in Projects : create_project(u, p)
    BY <1>3 DEF Quiet, create_project
  <1>4. ASSUME NEW P, Cascade(P)
        PROVE  req'[t].pc = req[t].pc
    <2>1. PICK ds \in SUBSET Channels : ds = {d \in Channels : chanIn[d] \in P}
      OBVIOUS
    <2>2. req' = Touched(req, ds)
      BY <1>4, <2>1 DEF Cascade
    <2> QED BY <1>2, <2>2
  <1>5. CASE \E p \in Projects : delete_project(p)
    BY <1>4, <1>5 DEF delete_project
  <1>6. CASE \E u \in Users : users_delete(u)
    BY <1>4, <1>6 DEF users_delete, delete_user
  <1>7. ASSUME NEW c \in Checks, delete_check(c)
        PROVE  req'[t].pc = req[t].pc
    BY <1>1, <1>2, <1>7 DEF delete_check, RowsOK
  <1>8. ASSUME NEW d \in Channels, delete_channel(d) \/ \E p, v : create_channel(p, d, v)
        PROVE  req'[t].pc = req[t].pc
    <2>1. {d} \in SUBSET Channels /\ req' = Touched(req, {d})
      BY <1>8 DEF delete_channel, create_channel
    <2> QED BY <1>2, <2>1
  <1>9. CASE \E r \in Requests, p \in Projects, c \in Checks, s \in ByRight : Inserts(r, p, c, s)
    BY <1>1, <1>9 DEF Inserts
  <1>10. CASE \E r \in Requests : Starts(r)
    BY <1>1, <1>10 DEF Starts, Moves
  <1>11. ASSUME NEW r \in Requests, RequestStep(r)
         PROVE  req'[t].pc = req[t].pc
    <2>1. r # t
      BY <1>11
    <2>2. ASSUME NEW n, NEW ds \in SUBSET Channels, Continues(r, n, ds)
          PROVE  req'[t].pc = req[t].pc
      BY <1>2, <2>1, <2>2 DEF Continues
    <2>3. Fit(req[r], checkIn, chanIn, given, bound)
      BY InvByParts
    <2>4. CASE BindAll(r)
      <3>1. PICK ds \in SUBSET Channels :
              ds = IF find_check(req[r].target) THEN bind_all_project_channels(req[r].target)
                   ELSE {}
        BY DEF bind_all_project_channels, list_channels_for_project
      <3> QED BY <2>2, <2>4, <3>1 DEF BindAll
    <2>5. CASE BindChannel(r)
      <3>1. PICK d \in req[r].adds : \E n : Continues(r, n, {d}) \/ Continues(r, n, {})
        BY <2>5 DEF BindChannel
      <3>2. d \in Channels
        BY <1>1 DEF Request
      <3> QED BY <2>2, <3>1, <3>2
    <2>6. CASE UnbindChannel(r)
      <3>1. PICK d \in req[r].dels : \E n : Continues(r, n, {d})
        BY <2>6 DEF UnbindChannel
      <3>2. d \in Channels
        BY <1>1 DEF Request
      <3> QED BY <2>2, <3>1, <3>2
    <2>7. CASE ChannelsSaved(r)
      BY <2>2, <2>7 DEF ChannelsSaved
    <2>8. CASE update_channel(r)
      <3>1. {} \in SUBSET Channels /\ Continues(r, IdleRequest, {})
        BY <2>8 DEF update_channel
      <3> QED BY <2>2, <3>1
    <2>9. CASE ListBound(r) \/ Drop(r)
      BY <1>1, <2>1, <2>9 DEF ListBound, Drop
    <2> QED BY <1>11, <2>4, <2>5, <2>6, <2>7, <2>8, <2>9 DEF RequestStep
  <1>12. CASE \E d \in Channels : HandEdit(d)
    BY <1>12 DEF HandEdit
  <1> QED BY <1>3, <1>5, <1>6, <1>7, <1>8, <1>9, <1>10, <1>11, <1>12 DEF Effect

LEMMA StepIsEarned ==
  ASSUME WorkspaceInv, Effect
  PROVE  /\ last'.standing # "stranger"
         /\ last'.kind = "write" \/ last'.url => last'.standing \in ByRight
  <1>1. CASE last' = Nothing
    BY <1>1 DEF Nothing, ByRight
  <1>2. CASE Quiet
    BY <1>2 DEF Quiet
  <1>3. CASE \E p : Right(p)
    BY <1>3 DEF Right, ByRight
  <1>4. CASE \E r \in Requests : \E n, ds : Continues(r, n, ds)
    BY <1>4, ContinuesRightly DEF ByRight
  <1>5. ASSUME NEW r \in Requests, RequestStep(r)
        PROVE  last' = Nothing \/ \E n, ds : Continues(r, n, ds)
    BY <1>5 DEF RequestStep, BindAll, ListBound, BindChannel, UnbindChannel, ChannelsSaved,
       update_channel, Drop
  <1>6. ASSUME NEW r \in Requests, Starts(r) PROVE last' = Nothing
    BY <1>6 DEF Starts, Moves
  <1>7. ASSUME NEW u \in Users, users_delete(u) PROVE last' = Nothing
    BY <1>7 DEF users_delete
  <1>8. CASE \E d \in Channels : HandEdit(d)
    BY <1>8 DEF HandEdit, Nothing, ByRight
  <1> QED BY <1>1, <1>2, <1>3, <1>4, <1>5, <1>6, <1>7, <1>8 DEF Effect

\* No handler of the three surfaces shows a row to, or writes for, anyone but its owner
\* and admins, and an admin's write to another user's rows is audited, whichever of its
\* statements makes it.
THEOREM AccessAlwaysEarned == Spec => AccessIsEarned
  <1> DEFINE A == /\ last'.standing # "stranger"
                  /\ last'.kind = "write" \/ last'.url
                       => last'.standing \in {"owner", "audited"}
  <1>1. WorkspaceInv /\ [Next]_vars => [A]_vars
    BY StepsDo, StepIsEarned DEF ByRight
  <1> QED BY <1>1, WorkspaceInvariant, PTL DEF Spec, AccessIsEarned

LEMMA SavesWhatWasSubmitted ==
  ASSUME WorkspaceInv, Effect, NEW r \in Requests,
         req[r].pc = "bind", req[r].adds = {}, req'[r].pc = "idle", last'.kind = "write",
         find_check(req[r].target), NEW d \in Channels \ req[r].touched
  PROVE  d \in bound[req[r].target] <=> d \in req[r].desired
  <1>1. /\ RequestStep(r) /\ req \in [Requests -> Request]
        /\ Fit(req[r], checkIn, chanIn, given, bound)
    BY OwnSteps, InvByParts
  <1>2. ~UnbindChannel(r)
    <2> SUFFICES ASSUME UnbindChannel(r)
                 PROVE  FALSE
      OBVIOUS
    <2>1. PICK e \in req[r].dels : Continues(r, [req[r] EXCEPT !.dels = @ \ {e}], {e})
      BY DEF UnbindChannel
    <2>2. PICK q \in Request : q = req[r]
      BY <1>1
    <2>3. PICK n : n = [q EXCEPT !.dels = @ \ {e}]
      OBVIOUS
    <2>4. e \in Channels
      BY <1>1 DEF Request
    <2>5. Touched(req, {e}) \in [Requests -> Request]
      BY <1>1, <2>4, TouchedType
    <2>6. req'[r] = n
      BY <2>1, <2>2, <2>3, <2>5 DEF Continues
    <2>7. n.pc = "bind"
      BY <2>2, <2>3 DEF Request
    <2> QED BY <2>6, <2>7
  <1>3. ~Drop(r)
    BY DEF Drop, Nothing
  <1>4. AllSaved(req[r])
    BY <1>1, <1>2, <1>3 DEF RequestStep, BindAll, ListBound, BindChannel, ChannelsSaved,
       update_channel
  <1> QED BY <1>1, <1>4 DEF AllSaved, Fit, find_check

\* When bind_channels reports success, the check has exactly the channels the form named
\* among those no other handler has touched since it began.
THEOREM SavesAlwaysAsSubmitted == Spec => SavedAsSubmitted
  <1> DEFINE A == \A r \in Requests :
                    req[r].pc = "bind" /\ req[r].adds = {} /\ req'[r].pc = "idle"
                    /\ last'.kind = "write" /\ find_check(req[r].target)
                      => \A d \in Channels \ req[r].touched :
                           d \in bound[req[r].target] <=> d \in req[r].desired
  <1>1. WorkspaceInv /\ [Next]_vars => [A]_vars
    BY StepsDo, SavesWhatWasSubmitted
  <1> QED BY <1>1, WorkspaceInvariant, PTL DEF Spec, SavedAsSubmitted

\* A channel always has the credential that was last submitted for it, or one that an
\* edit with a blank field had read before that: blank fields lose nothing and a cleared
\* token stays cleared but for such an edit (channel_update).
THEOREM CredentialsAlwaysSubmitted == Spec => []CredentialsAreSubmitted
  <1>1. WorkspaceInv => CredentialsAreSubmitted
    BY DEF WorkspaceInv
  <1> QED BY <1>1, WorkspaceInvariant, PTL

\* What leaves the rows of project p as they are.
Spared(p) ==
  /\ owner'[p] = owner[p]
  /\ \A c \in Checks : (checkIn'[c] = p <=> checkIn[c] = p)
                       /\ (checkIn[c] = p => bound'[c] = bound[c])
  /\ \A d \in Channels : (chanIn'[d] = p <=> chanIn[d] = p)
                         /\ (chanIn[d] = p => config'[d] = config[d])

LEMMA SparedRows ==
  ASSUME NEW p \in Projects, Spared(p)
  PROVE  ProjectRows(p)' = ProjectRows(p)
  <1>1. list_checks_for_project(p)' = list_checks_for_project(p)
    BY DEF Spared, list_checks_for_project
  <1>2. list_channels_for_project(p)' = list_channels_for_project(p)
    BY DEF Spared, list_channels_for_project
  <1>3. PICK cs \in SUBSET Checks, ds \in SUBSET Channels :
          cs = list_checks_for_project(p) /\ ds = list_channels_for_project(p)
    BY DEF list_checks_for_project, list_channels_for_project
  <1>4. \A c \in cs : bound'[c] = bound[c]
    BY <1>3 DEF Spared, list_checks_for_project
  <1>5. \A d \in ds : config'[d] = config[d]
    BY <1>3 DEF Spared, list_channels_for_project
  <1>6. {<<d, config'[d]>> : d \in ds} = {<<d, config[d]>> : d \in ds}
    BY <1>5
  <1>7. {<<c, bound'[c]>> : c \in cs} = {<<c, bound[c]>> : c \in cs}
    BY <1>4
  <1>8. owner'[p] = owner[p]
    BY DEF Spared
  <1> QED BY <1>1, <1>2, <1>3, <1>6, <1>7, <1>8 DEF ProjectRows

\* A statement of handler r that spares every project but its target's.
LEMMA OnlyItsTarget ==
  ASSUME WorkspaceInv, NEW r \in Requests, RequestStep(r), NEW p \in Projects
  PROVE  \/ Spared(p)
         \/ last'.kind = "write" /\ last'.project = p /\ last'.standing \in ByRight
  <1>1. PICK q \in Request : q = req[r]
    BY InvByParts
  <1>2. RowsOK /\ Fit(q, checkIn, chanIn, given, bound)
    BY <1>1, InvByParts
  <1>3. CASE UNCHANGED rows
    BY <1>3 DEF Spared, rows
  <1>4. ASSUME NEW n, NEW ds, Continues(r, n, ds), ProjectOf(q.target) = p
        PROVE  last'.kind = "write" /\ last'.project = p /\ last'.standing \in ByRight
    BY <1>1, <1>4, ContinuesRightly
  <1>5. ASSUME NEW c \in Checks, c = q.target, NEW B, bound' = [bound EXCEPT ![c] = B],
               UNCHANGED <<users, owner, checkIn, chanIn, config, given>>, NEW n, NEW ds,
               Continues(r, n, ds)
        PROVE  \/ Spared(p)
               \/ last'.kind = "write" /\ last'.project = p /\ last'.standing \in ByRight
    <2>1. ProjectOf(c) = checkIn[c]
      BY ProjectOfRow
    <2>2. \A k \in Checks \ {c} : bound'[k] = bound[k]
      BY <1>2, <1>5 DEF RowsOK
    <2>3. checkIn[c] # p => Spared(p)
      BY <1>5, <2>2 DEF Spared
    <2> QED BY <1>4, <1>5, <2>1, <2>3
  <1>6. q.pc \in {"bind_all", "bind"} => q.target \in Checks
    BY <1>2 DEF Fit
  <1>7. CASE BindAll(r)
    BY <1>1, <1>5, <1>6, <1>7 DEF BindAll
  <1>8. CASE BindChannel(r)
    <2>1. q.target \in Checks /\ UNCHANGED <<users, owner, checkIn, chanIn, config, given>>
      BY <1>1, <1>6, <1>8 DEF BindChannel
    <2>2. CASE \E B, n, ds : bound' = [bound EXCEPT ![q.target] = B] /\ Continues(r, n, ds)
      BY <1>5, <2>1, <2>2
    <2>3. CASE UNCHANGED bound
      BY <1>3, <2>1, <2>3 DEF rows
    <2> QED BY <1>1, <1>8, <2>2, <2>3 DEF BindChannel
  <1>9. CASE UnbindChannel(r)
    <2>1. q.target \in Checks /\ UNCHANGED <<users, owner, checkIn, chanIn, config, given>>
      BY <1>1, <1>6, <1>9 DEF UnbindChannel
    <2>2. \E B, n, ds : bound' = [bound EXCEPT ![q.target] = B] /\ Continues(r, n, ds)
      BY <1>1, <1>9 DEF UnbindChannel
    <2> QED BY <1>5, <2>1, <2>2
  <1>10. CASE update_channel(r)
    <2>1. PICK d \in Channels : d = q.target
      BY <1>1, <1>2, <1>10 DEF update_channel, Fit
    <2>2. ProjectOf(d) = chanIn[d]
      BY ProjectOfRow
    <2>3. /\ \A e \in Channels \ {d} : config'[e] = config[e]
          /\ UNCHANGED <<users, owner, checkIn, chanIn, bound>>
      BY <1>1, <1>2, <1>10, <2>1 DEF update_channel, RowsOK
    <2>4. chanIn[d] # p => Spared(p)
      BY <2>3 DEF Spared
    <2>5. \E n, ds : Continues(r, n, ds)
      BY <1>10 DEF update_channel
    <2> QED BY <1>4, <2>1, <2>2, <2>4, <2>5
  <1>11. CASE ListBound(r) \/ ChannelsSaved(r) \/ Drop(r)
    BY <1>3, <1>11 DEF ListBound, ChannelsSaved, Drop
  <1> QED BY <1>7, <1>8, <1>9, <1>10, <1>11 DEF RequestStep

\* Every step spares a project, or is a write to it by right, or deletes its owner.
LEMMA OnlyByRight ==
  ASSUME WorkspaceInv, Effect, users' = users, last'.kind # "hand", NEW p \in Projects
  PROVE  \/ Spared(p)
         \/ last'.kind = "write" /\ last'.project = p /\ last'.standing \in ByRight
  <1>1. RowsOK /\ Joined(bound, checkIn, chanIn)
    BY InvByParts
  <1>2. ASSUME NEW k, Right(k), k # p => Spared(p)
        PROVE  \/ Spared(p)
               \/ last'.kind = "write" /\ last'.project = p /\ last'.standing \in ByRight
    BY <1>2 DEF Right
  <1>3. CASE UNCHANGED rows
    BY <1>3 DEF Spared, rows
  <1>4. ASSUME NEW u, NEW k \in Projects, create_project(u, k), k # p
        PROVE  Spared(p)
    BY <1>1, <1>4 DEF create_project, Spared, RowsOK
  <1>5. ASSUME NEW k \in Projects, delete_project(k), k # p
        PROVE  Spared(p)
    <2>1. PICK ds \in SUBSET Channels, cs \in SUBSET Checks :
            /\ ds = {d \in Channels : chanIn[d] \in {k}}
            /\ cs = {c \in Checks : checkIn[c] \in {k}}
      OBVIOUS
    <2>2. /\ owner' = [i \in Projects |-> IF i \in {k} THEN Gone ELSE owner[i]]
          /\ checkIn' = [c \in Checks |-> IF c \in cs THEN Gone ELSE checkIn[c]]
          /\ chanIn' = [d \in Channels |-> IF d \in ds THEN Gone ELSE chanIn[d]]
          /\ config' = [d \in Channels |-> IF d \in ds THEN Empty ELSE config[d]]
          /\ bound' = [c \in Checks |-> IF c \in cs THEN {} ELSE bound[c] \ ds]
      BY <1>5, <2>1 DEF delete_project, Cascade
    <2>3. p # Gone
      BY IdsAreApart
    <2>4. \A c \in Checks : checkIn[c] = p => bound[c] \ ds = bound[c]
      BY <1>1, <1>5, <2>1 DEF Joined
    <2>5. \A c \in Checks : /\ checkIn'[c] = p <=> checkIn[c] = p
                            /\ checkIn[c] = p => bound'[c] = bound[c]
      BY <1>5, <2>1, <2>2, <2>3, <2>4
    <2>6. \A d \in Channels : /\ chanIn'[d] = p <=> chanIn[d] = p
                              /\ chanIn[d] = p => config'[d] = config[d]
      BY <1>5, <2>1, <2>2, <2>3
    <2>7. owner'[p] = owner[p]
      BY <1>5, <2>2
    <2> QED BY <2>5, <2>6, <2>7 DEF Spared
  <1>6. ASSUME NEW c \in Checks, delete_check(c), checkIn[c] # p
        PROVE  Spared(p)
    BY <1>1, <1>6, IdsAreApart DEF delete_check, Spared, RowsOK
  <1>7. ASSUME NEW d \in Channels, delete_channel(d), chanIn[d] # p
        PROVE  Spared(p)
    <2>1. \A c \in Checks : checkIn[c] = p => bound[c] \ {d} = bound[c]
      BY <1>1, <1>7 DEF Joined
    <2>2. /\ \A c \in Checks : bound'[c] = bound[c] \ {d}
          /\ chanIn'[d] = Gone /\ p # Gone
          /\ \A e \in Channels \ {d} : chanIn'[e] = chanIn[e] /\ config'[e] = config[e]
          /\ UNCHANGED <<owner, checkIn>>
      BY <1>1, <1>7, IdsAreApart DEF delete_channel, RowsOK
    <2> QED BY <1>7, <2>1, <2>2 DEF Spared
  <1>8. ASSUME NEW k \in Projects, NEW d \in Channels, NEW v, create_channel(k, d, v), k # p
        PROVE  Spared(p)
    BY <1>1, <1>8, IdsAreApart DEF create_channel, Spared, RowsOK
  <1>9. ASSUME NEW r, NEW k \in Projects, NEW c \in Checks, NEW s, Inserts(r, k, c, s), k # p
        PROVE  Spared(p)
    BY <1>1, <1>9, IdsAreApart DEF Inserts, Spared, RowsOK
  <1>10. \A u \in Users : ~users_delete(u)
    BY DEF users_delete, delete_user
  <1>11. CASE Quiet \/ \E r \in Requests : Starts(r)
    BY <1>3, <1>11 DEF Quiet, Starts, Moves
  <1>12. \A d \in Channels : ~HandEdit(d)
    BY DEF HandEdit, Nothing
  <1> QED BY <1>2, <1>4, <1>5, <1>6, <1>7, <1>8, <1>9, <1>10, <1>11, <1>12, OnlyItsTarget
          DEF Effect

\* The rows of a project change only by a handler that its owner sent, or an admin who
\* left an audit row, or when its owner's account is deleted (users_delete).
THEOREM ForeignChangeAlwaysAudited == Spec => ForeignChangeIsAudited
  <1> DEFINE A == \A p \in Projects :
                    ProjectRows(p) # ProjectRows(p)' /\ users' = users /\ last'.kind # "hand"
                      => /\ last'.kind = "write" /\ last'.project = p
                         /\ last'.standing \in {"owner", "audited"}
  <1>1. WorkspaceInv /\ [Next]_vars => [A]_vars
    <2>1. ASSUME WorkspaceInv, Next, users' = users, last'.kind # "hand", NEW p \in Projects,
                 ProjectRows(p) # ProjectRows(p)'
          PROVE  /\ last'.kind = "write" /\ last'.project = p
                 /\ last'.standing \in {"owner", "audited"}
      BY <2>1, StepsDo, OnlyByRight, SparedRows DEF ByRight
    <2> QED BY <2>1
  <1> QED BY <1>1, WorkspaceInvariant, PTL DEF Spec, ForeignChangeIsAudited
=============================================================================
