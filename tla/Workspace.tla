----------------------------- MODULE Workspace ------------------------------
(***************************************************************************)
(* Who may do what to whose rows: projects, checks, channels and the       *)
(* bindings between them, reached through three surfaces: the pages of     *)
(* the owner (web.rs), the pages under /admin (web.rs) and the JSON API    *)
(* (api/v1.rs).                                                            *)
(*                                                                         *)
(* A handler resolves the row it was asked for, then writes.  When it has  *)
(* one write, resolver and write are one step: ownership never changes, so *)
(* all that can come between them is a deletion, and the write then finds  *)
(* no row or fails on its foreign key, which is the handler not happening. *)
(* The handlers that read and write several times are split statement by   *)
(* statement: the creation of a check with its bindings, the replacement   *)
(* of a check's channels, and the edit of a channel.                       *)
(***************************************************************************)
EXTENDS Naturals, FiniteSets

CONSTANTS
  Users, Projects, Checks, Channels,  \* ids, never used twice (AUTOINCREMENT)
  Requests,                           \* slots for handlers of several statements
  Values,                             \* what a form may submit as a credential
  Ntfy,                               \* channels whose credential, a token, is optional
  Fragile                             \* channels whose row somebody may edit by hand

Absent == "absent"  \* not yet inserted
Gone   == "gone"    \* deleted, by hand or by cascade
Blank  == "blank"   \* a form field left empty: keep what is stored
Clear  == "clear"   \* ntfy_token_clear is set: drop what is stored
Empty  == "empty"   \* no credential is stored
Garbled == "garbled" \* the stored config_json does not parse: it was edited by hand

ASSUME IdsAreApart ==
  /\ Projects \cap Checks = {} /\ Projects \cap Channels = {} /\ Checks \cap Channels = {}
  /\ {Absent, Gone} \cap (Users \cup Projects \cup Checks \cup Channels) = {}
ASSUME ValuesAreApart == Values \cap {Blank, Clear, Empty, Garbled} = {} /\ Ntfy \subseteq Channels
ASSUME FragileAssumption == Fragile \subseteq Channels

VARIABLES
  users,   \* the rows of table users
  owner,   \* projects.user_id
  checkIn, \* checks.project_id
  chanIn,  \* channels.project_id
  config,  \* channels.config_json: one credential
  given,   \* history: the credentials a channel may have by what was submitted for
           \* it: the last one, and those that edits then in flight had read
  bound,   \* table check_channels
  req,     \* the handlers that are between two of their statements
  owed,    \* history: the channels of the project when the check was inserted,
           \* without those that were unbound or deleted since
  last     \* history: what the last handler did, to which project, by what right

rows == <<users, owner, checkIn, chanIn, config, given, bound>>
vars == <<rows, req, owed, last>>

\* By what right a caller reached a row: its owner, an admin whose access left an
\* audit row, an admin who left none, or nobody who should have.
Standings == {"owner", "audited", "admin", "stranger"}

Plain == Values \cup {Empty}
Credentials == Plain \cup {Garbled}

\* `desired`, `adds` and `dels` are the sets of bind_channels; `field` is the
\* credential submitted for a channel and `old` the stored one.  `touched`: the
\* channels that others have created, deleted or (un)bound since the handler began.
Request ==
  [pc : {"idle", "bind_all", "list_bound", "bind", "update_channel"},
   standing : Standings, target : Checks \cup Channels \cup {Absent},
   desired : SUBSET Channels, adds : SUBSET Channels, dels : SUBSET Channels,
   field : Values \cup {Blank, Clear}, old : Credentials, touched : SUBSET Channels]

IdleRequest ==
  [pc |-> "idle", standing |-> "owner", target |-> Absent, desired |-> {},
   adds |-> {}, dels |-> {}, field |-> Blank, old |-> Empty, touched |-> {}]

\* `url`: the ping URL, a credential, is part of the page or answer.
Last ==
  [kind : {"none", "page", "write", "hand"}, standing : Standings, url : BOOLEAN,
   project : Projects \cup {Absent}]
Nothing == [kind |-> "none", standing |-> "owner", url |-> FALSE, project |-> Absent]

\* Who sends a request, with the role the extractor read.
Callers == [user : Users, admin : BOOLEAN]

TypeOK ==
  /\ users \subseteq Users
  /\ owner \in [Projects -> Users \cup {Absent, Gone}]
  /\ checkIn \in [Checks -> Projects \cup {Absent, Gone}]
  /\ chanIn \in [Channels -> Projects \cup {Absent, Gone}]
  /\ config \in [Channels -> Credentials]
  /\ given \in [Channels -> SUBSET Plain]
  /\ bound \in [Checks -> SUBSET Channels]
  /\ req \in [Requests -> Request]
  /\ owed \in [Checks -> SUBSET Channels]
  /\ last \in Last

-----------------------------------------------------------------------------
(***************************************************************************)
(* store.rs: what a lookup finds and what a statement leaves behind.       *)
(***************************************************************************)
find_project(p) == owner[p] \in Users
find_check(c)   == checkIn[c] \in Projects
find_channel(d) == chanIn[d] \in Projects

list_channels_for_project(p) == {d \in Channels : chanIn[d] = p}
list_checks_for_project(p)   == {c \in Checks : checkIn[c] = p}

ProjectOf(x) ==
  IF x \in Checks THEN checkIn[x] ELSE IF x \in Channels THEN chanIn[x] ELSE x

\* Others have created, deleted or (un)bound the channels ds.
Touched(R, ds) ==
  [s \in DOMAIN R |-> IF R[s].pc = "idle" THEN R[s] ELSE [R[s] EXCEPT !.touched = @ \cup ds]]

create_project(u, p) ==
  /\ owner[p] = Absent /\ u \in users
  /\ owner' = [owner EXCEPT ![p] = u]
  /\ UNCHANGED <<users, checkIn, chanIn, config, given, bound, req, owed>>

\* Name, description and intervals: nothing that is modelled here changes.
update_project == UNCHANGED <<rows, req, owed>>

\* The foreign keys are ON DELETE CASCADE: projects, their checks and channels,
\* and the bindings go together.
Cascade(P) ==
  LET ds == {d \in Channels : chanIn[d] \in P}
      cs == {c \in Checks : checkIn[c] \in P}
  IN
  /\ owner' = [p \in Projects |-> IF p \in P THEN Gone ELSE owner[p]]
  /\ checkIn' = [c \in Checks |-> IF c \in cs THEN Gone ELSE checkIn[c]]
  /\ chanIn' = [d \in Channels |-> IF d \in ds THEN Gone ELSE chanIn[d]]
  /\ config' = [d \in Channels |-> IF d \in ds THEN Empty ELSE config[d]]
  /\ given' = [d \in Channels |-> IF d \in ds THEN {} ELSE given[d]]
  /\ bound' = [c \in Checks |-> IF c \in cs THEN {} ELSE bound[c] \ ds]
  /\ owed' = [c \in Checks |-> IF c \in cs THEN {} ELSE owed[c] \ ds]
  /\ req' = Touched(req, ds)

delete_project(p) == Cascade({p}) /\ UNCHANGED users

delete_user(u) ==
  /\ users' = users \ {u}
  /\ Cascade({p \in Projects : owner[p] = u})

\* update_check_schedule, set_status, acknowledge, resume_check, regenerate_uuid:
\* CheckMonitor models what they write.
update_check == UNCHANGED <<rows, req, owed>>

delete_check(c) ==
  /\ checkIn' = [checkIn EXCEPT ![c] = Gone]
  /\ bound' = [bound EXCEPT ![c] = {}]
  /\ owed' = [owed EXCEPT ![c] = {}]
  /\ req' = Touched(req, bound[c])
  /\ UNCHANGED <<users, owner, chanIn, config, given>>

\* channel_config refuses to store nothing where a credential is required.
Required(d, v) == v # Empty \/ d \in Ntfy

create_channel(p, d, v) ==
  /\ chanIn[d] = Absent /\ Required(d, v)
  /\ chanIn' = [chanIn EXCEPT ![d] = p]
  /\ config' = [config EXCEPT ![d] = v]
  /\ given' = [given EXCEPT ![d] = {v}]
  /\ req' = Touched(req, {d})
  /\ UNCHANGED <<users, owner, checkIn, bound, owed>>

delete_channel(d) ==
  /\ chanIn' = [chanIn EXCEPT ![d] = Gone]
  /\ config' = [config EXCEPT ![d] = Empty]
  /\ given' = [given EXCEPT ![d] = {}]
  /\ bound' = [c \in Checks |-> bound[c] \ {d}]
  /\ owed' = [c \in Checks |-> owed[c] \ {d}]
  /\ req' = Touched(req, {d})
  /\ UNCHANGED <<users, owner, checkIn>>

-----------------------------------------------------------------------------
(***************************************************************************)
(* The resolvers of the three surfaces: which callers get past them, and   *)
(* for whom they write an audit row.                                       *)
(***************************************************************************)
owned_project(w, p) == find_project(p) /\ owner[p] = w.user
owned_check(w, c)   == find_check(c) /\ owned_project(w, checkIn[c])
owned_channel(w, d) == find_channel(d) /\ owned_project(w, chanIn[d])

\* Mutant: only DELETE counts as a mutation.
AuditsDeletes(method) == method = "DELETE"

audits_as_mutation(method) == method # "GET"

\* The extractor AdminUser comes first.
admin_project(w, p) == w.admin /\ find_project(p)
admin_check(w, c)   == w.admin /\ find_check(c)
admin_channel(w, d) == w.admin /\ find_channel(d)

\* The API: the owner, else an admin whose access is audited, reads too.
audit_cross_user(w, x)  == owner[ProjectOf(x)] # w.user
resolve_project(w, p) == find_project(p) /\ (owner[p] = w.user \/ w.admin)
resolve_check(w, c)   == find_check(c) /\ resolve_project(w, checkIn[c])
resolve_channel(w, d) == find_channel(d) /\ resolve_project(w, chanIn[d])

Standing(w, x, audited) ==
  IF owner[ProjectOf(x)] = w.user THEN "owner"
  ELSE IF ~w.admin THEN "stranger"
  ELSE IF audited THEN "audited" ELSE "admin"

\* The handler shows x and writes nothing but, perhaps, the audit row.
Shows(w, x, audited, url) ==
  /\ last' = [kind |-> "page", standing |-> Standing(w, x, audited), url |-> url,
              project |-> Absent]
  /\ UNCHANGED <<rows, req, owed>>

\* The handler writes to the rows of x's project.  Redirects show nothing; an API
\* answer shows the row, and with a check its uuid: `url`.
Writes(w, x, audited, url) ==
  last' = [kind |-> "write", standing |-> Standing(w, x, audited), url |-> url,
           project |-> ProjectOf(x)]

-----------------------------------------------------------------------------
(***************************************************************************)
(* The handlers of several statements.                                     *)
(***************************************************************************)
Begin(r, q) == req[r].pc = "idle" /\ req' = [req EXCEPT ![r] = q]

\* check_create_core: INSERT INTO checks, then bind_all_project_channels.  The API
\* answers with the row, and so with the uuid: `url`.
check_create_core(r, w, p, c, audited, url) ==
  /\ checkIn[c] = Absent
  /\ Begin(r, [IdleRequest EXCEPT !.pc = "bind_all", !.target = c,
                                  !.standing = Standing(w, p, audited)])
  /\ Writes(w, p, audited, url)
  /\ checkIn' = [checkIn EXCEPT ![c] = p]
  /\ owed' = [owed EXCEPT ![c] = list_channels_for_project(p)]
  /\ UNCHANGED <<users, owner, chanIn, config, given, bound>>

\* The later statements of r: its standing is the one it began with.
Continues(r, q, ds) ==
  /\ req' = [Touched(req, ds) EXCEPT ![r] = q]
  /\ last' = [kind |-> "write", standing |-> req[r].standing, url |-> FALSE,
              project |-> IF ProjectOf(req[r].target) \in Projects
                          THEN ProjectOf(req[r].target) ELSE Absent]

\* Mutant: only the checks' channels that another check uses are bound.
BindsUsed(c) == list_channels_for_project(checkIn[c]) \cap UNION {bound[k] : k \in Checks}

\* INSERT INTO check_channels SELECT ... FROM channels WHERE project_id.
bind_all_project_channels(c) == list_channels_for_project(checkIn[c])

\* If the check is gone the statement fails (or selects nothing).
BindAll(r) ==
  LET c  == req[r].target
      ds == IF find_check(c) THEN bind_all_project_channels(c) ELSE {}
  IN
  /\ req[r].pc = "bind_all"
  /\ bound' = [bound EXCEPT ![c] = @ \cup ds]
  /\ Continues(r, IdleRequest, ds)
  /\ UNCHANGED <<users, owner, checkIn, chanIn, config, given, owed>>

\* Mutant: every id of the form is honoured.
Unfiltered(form, valid) == form

\* "Only ids belonging to the check's own project are honoured."
desired(form, valid) == form \cap valid

\* bind_channels begins: list_channels_for_project of the check's project.
ListChannels(r, w, c, form, audited) ==
  /\ Begin(r, [IdleRequest EXCEPT
       !.pc = "list_bound", !.target = c, !.standing = Standing(w, c, audited),
       !.desired = desired(form, list_channels_for_project(checkIn[c]))])
  /\ last' = Nothing
  /\ UNCHANGED <<rows, owed>>

\* bound_channel_ids, and the two differences.
ListBound(r) ==
  LET q == req[r] IN
  /\ q.pc = "list_bound"
  /\ req' = [req EXCEPT ![r] = [q EXCEPT
       !.pc = "bind", !.adds = q.desired \ bound[q.target],
       !.dels = bound[q.target] \ q.desired]]
  /\ last' = Nothing
  /\ UNCHANGED <<rows, owed>>

\* One bind_channel, in the order of a HashSet.  A check or channel that is gone
\* fails the foreign key and ends the handler: what is done stays done.
BindChannel(r) ==
  LET q == req[r] IN
  /\ q.pc = "bind"
  /\ \E d \in q.adds :
       IF find_check(q.target) /\ find_channel(d)
       THEN /\ bound' = [bound EXCEPT ![q.target] = @ \cup {d}]
            /\ Continues(r, [q EXCEPT !.adds = @ \ {d}], {d})
       ELSE Continues(r, IdleRequest, {}) /\ UNCHANGED bound
  /\ UNCHANGED <<users, owner, checkIn, chanIn, config, given, owed>>

\* One unbind_channel, once every add is done.
UnbindChannel(r) ==
  LET q == req[r] IN
  /\ q.pc = "bind" /\ q.adds = {}
  /\ \E d \in q.dels :
       /\ bound' = [bound EXCEPT ![q.target] = @ \ {d}]
       /\ owed' = [owed EXCEPT ![q.target] = @ \ {d}]
       /\ Continues(r, [q EXCEPT !.dels = @ \ {d}], {d})
  /\ UNCHANGED <<users, owner, checkIn, chanIn, config, given>>

\* Mutant: the loop over the removals is missing.
SavedTooSoon(q) == q.adds = {}

AllSaved(q) == q.adds = {} /\ q.dels = {}

\* channels_saved_response, or the API's answer with the resulting ids.
ChannelsSaved(r) ==
  /\ req[r].pc = "bind" /\ AllSaved(req[r])
  /\ Continues(r, IdleRequest, {})
  /\ UNCHANGED <<rows, owed>>

\* channel_update: the row that was resolved is what blank fields keep.
ChannelResolved(r, w, d, field, audited) ==
  /\ Begin(r, [IdleRequest EXCEPT
       !.pc = "update_channel", !.target = d, !.field = field, !.old = config[d],
       !.standing = Standing(w, d, audited)])
  /\ last' = Nothing
  /\ UNCHANGED <<rows, owed>>

\* "An unparseable stored config counts as empty."
StoredConfig(stored) == IF stored = Garbled THEN Empty ELSE stored

\* Mutant: a blank field clears what is stored.
MergedOverNothing(field, stored) == IF field \in Values THEN field ELSE Empty

merged(field, stored) == IF field \in Values THEN field ELSE StoredConfig(stored)

\* ntfy_token_clear goes before whatever was submitted or is stored.
channel_config(field, stored) == IF field = Clear THEN Empty ELSE merged(field, stored)

\* What the other edits of channel d that are in flight have read and may keep.
Held(r, d) ==
  {StoredConfig(req[s].old) : s \in
     {x \in Requests \ {r} :
        req[x].pc = "update_channel" /\ req[x].target = d /\ req[x].field = Blank}}

\* UPDATE channels SET ... config_json WHERE id: the whole config, merged.
update_channel(r) ==
  LET q == req[r]
      v == channel_config(q.field, q.old)
  IN
  /\ q.pc = "update_channel" /\ Required(q.target, v)
  /\ IF find_channel(q.target)
     THEN /\ config' = [config EXCEPT ![q.target] = v]
          /\ given' = IF q.field = Blank THEN given
                      ELSE [given EXCEPT ![q.target] = {v} \cup Held(r, q.target)]
     ELSE UNCHANGED <<config, given>>
  /\ Continues(r, IdleRequest, {})
  /\ UNCHANGED <<users, owner, checkIn, chanIn, bound, owed>>

\* Not a request: somebody edits the database file by hand and breaks a config_json.
HandEdit(d) ==
  /\ find_channel(d)
  /\ config' = [config EXCEPT ![d] = Garbled]
  /\ given' = [given EXCEPT ![d] = given[d] \cup {Empty}]
  /\ last' = [Nothing EXCEPT !.kind = "hand"]
  /\ UNCHANGED <<users, owner, checkIn, chanIn, bound, req, owed>>

\* The client hangs up, a statement fails, or channel_config refuses the form.
Drop(r) ==
  /\ req[r].pc # "idle"
  /\ req' = [req EXCEPT ![r] = IdleRequest]
  /\ owed' = IF req[r].pc = "bind_all" THEN [owed EXCEPT ![req[r].target] = {}] ELSE owed
  /\ last' = Nothing
  /\ UNCHANGED rows

RequestStep(r) ==
  \/ BindAll(r)
  \/ ListBound(r)
  \/ BindChannel(r)
  \/ UnbindChannel(r)
  \/ ChannelsSaved(r)
  \/ update_channel(r)
  \/ Drop(r)

-----------------------------------------------------------------------------
(***************************************************************************)
(* The owner's pages.                                                      *)
(***************************************************************************)
\* A form that does not validate is shown again and nothing is written; a delete
\* that is not confirmed shows the confirmation page.
confirmation_page(w, x, audited) == Shows(w, x, audited, FALSE)

project_create(w, p) ==
  /\ create_project(w.user, p)
  /\ last' = [kind |-> "write", standing |-> "owner", url |-> FALSE, project |-> p]

\* project_show and project_edit.
project_show(w, p) == owned_project(w, p) /\ Shows(w, p, FALSE, FALSE)
check_new(w, p)    == owned_project(w, p) /\ Shows(w, p, FALSE, FALSE)
channel_new(w, p)  == owned_project(w, p) /\ Shows(w, p, FALSE, FALSE)

project_update(w, p) ==
  owned_project(w, p) /\ Writes(w, p, FALSE, FALSE) /\ update_project

project_delete(w, p) ==
  /\ owned_project(w, p)
  /\ \/ confirmation_page(w, p, FALSE)
     \/ Writes(w, p, FALSE, FALSE) /\ delete_project(p)

check_create(r, w, p, c) == owned_project(w, p) /\ check_create_core(r, w, p, c, FALSE, FALSE)

\* CheckPageViewer: the owner's page shows the URL, an admin's page when it was
\* revealed or the check is the admin's own.
shows_url(route, revealed, w, c) ==
  route = "owner" \/ revealed \/ owner[checkIn[c]] = w.user

check_show(w, c) ==
  owned_check(w, c) /\ Shows(w, c, FALSE, shows_url("owner", FALSE, w, c))

\* check_pings, check_events, check_notifications.
check_fragments(w, c) == owned_check(w, c) /\ Shows(w, c, FALSE, FALSE)
check_edit(w, c)      == owned_check(w, c) /\ Shows(w, c, FALSE, FALSE)

\* check_update, check_pause, check_resume, check_ack and check_regenerate.
check_writes(w, c) == owned_check(w, c) /\ Writes(w, c, FALSE, FALSE) /\ update_check

check_delete(w, c) ==
  /\ owned_check(w, c)
  /\ \/ confirmation_page(w, c, FALSE)
     \/ Writes(w, c, FALSE, FALSE) /\ delete_check(c)

check_set_channels(r, w, c, form) == owned_check(w, c) /\ ListChannels(r, w, c, form, FALSE)

channel_create(w, p, d, v) ==
  owned_project(w, p) /\ Writes(w, p, FALSE, FALSE) /\ create_channel(p, d, v)

channel_edit(w, d) == owned_channel(w, d) /\ Shows(w, d, FALSE, FALSE)

channel_update(r, w, d, field) ==
  owned_channel(w, d) /\ ChannelResolved(r, w, d, field, FALSE)

channel_delete(w, d) ==
  owned_channel(w, d) /\ Writes(w, d, FALSE, FALSE) /\ delete_channel(d)

\* Sends once and records nothing; then the project's page.
channel_test(w, d) == owned_channel(w, d) /\ Shows(w, d, FALSE, FALSE)

-----------------------------------------------------------------------------
(***************************************************************************)
(* The pages under /admin.                                                 *)
(***************************************************************************)
Get  == audits_as_mutation("GET")
Post == audits_as_mutation("POST")

\* admin_project_show and admin_project_edit.
admin_project_pages(w, p) == admin_project(w, p) /\ Shows(w, p, Get, FALSE)

admin_project_update(w, p) ==
  admin_project(w, p) /\ Writes(w, p, Post, FALSE) /\ update_project

admin_project_delete(w, p) ==
  /\ admin_project(w, p)
  /\ \/ confirmation_page(w, p, Post)
     \/ Writes(w, p, Post, FALSE) /\ delete_project(p)

admin_check_new(w, p) == admin_project(w, p) /\ Shows(w, p, Get, FALSE)

admin_check_create(r, w, p, c) ==
  admin_project(w, p) /\ check_create_core(r, w, p, c, Post, FALSE)

\* Its audit row, admin.ping_url_reveal, is left out for one's own check.
admin_check_reveal_ping_url(w, c) ==
  /\ w.admin /\ find_check(c)
  /\ Shows(w, c, owner[checkIn[c]] # w.user, shows_url("admin", TRUE, w, c))

\* Mutant: the page is rendered as if the URL had been revealed.
ShowsRevealed(w, c) ==
  admin_check(w, c) /\ Shows(w, c, Get, shows_url("admin", TRUE, w, c))

admin_check_show(w, c) ==
  admin_check(w, c) /\ Shows(w, c, Get, shows_url("admin", FALSE, w, c))

admin_check_fragments(w, c) == admin_check(w, c) /\ Shows(w, c, Get, FALSE)
admin_check_edit(w, c)      == admin_check(w, c) /\ Shows(w, c, Get, FALSE)

admin_check_writes(w, c) == admin_check(w, c) /\ Writes(w, c, Post, FALSE) /\ update_check

admin_check_delete(w, c) ==
  /\ admin_check(w, c)
  /\ \/ confirmation_page(w, c, Post)
     \/ Writes(w, c, Post, FALSE) /\ delete_check(c)

admin_check_set_channels(r, w, c, form) ==
  admin_check(w, c) /\ ListChannels(r, w, c, form, Post)

admin_channel_new(w, p)  == admin_project(w, p) /\ Shows(w, p, Get, FALSE)
admin_channel_edit(w, d) == admin_channel(w, d) /\ Shows(w, d, Get, FALSE)

admin_channel_update(r, w, d, field) ==
  admin_channel(w, d) /\ ChannelResolved(r, w, d, field, Post)

admin_channel_create(w, p, d, v) ==
  admin_project(w, p) /\ Writes(w, p, Post, FALSE) /\ create_channel(p, d, v)

admin_channel_delete(w, d) ==
  admin_channel(w, d) /\ Writes(w, d, Post, FALSE) /\ delete_channel(d)

admin_channel_test(w, d) == admin_channel(w, d) /\ Shows(w, d, Post, FALSE)

\* users_delete (Accounts): DELETE FROM users, everything of the user with it.
\* Nobody deletes their own account.
users_delete(u) ==
  /\ u \in users /\ users \ {u} # {}
  /\ delete_user(u)
  /\ last' = Nothing

-----------------------------------------------------------------------------
(***************************************************************************)
(* The JSON API.  Every answer with a check contains its ping_uuid.        *)
(***************************************************************************)
api_get_project(w, p) ==
  resolve_project(w, p) /\ Shows(w, p, audit_cross_user(w, p), FALSE)
api_list_project_checks(w, p) ==
  resolve_project(w, p) /\ Shows(w, p, audit_cross_user(w, p), TRUE)
api_list_project_channels(w, p) ==
  resolve_project(w, p) /\ Shows(w, p, audit_cross_user(w, p), FALSE)
api_get_check(w, c) ==
  resolve_check(w, c) /\ Shows(w, c, audit_cross_user(w, c), TRUE)
api_list_check_pings(w, c) ==
  resolve_check(w, c) /\ Shows(w, c, audit_cross_user(w, c), FALSE)
api_list_check_notifications(w, c) ==
  resolve_check(w, c) /\ Shows(w, c, audit_cross_user(w, c), FALSE)
api_get_channel(w, d) ==
  resolve_channel(w, d) /\ Shows(w, d, audit_cross_user(w, d), FALSE)

api_create_project(w, p) == project_create(w, p)

api_update_project(w, p) ==
  resolve_project(w, p) /\ Writes(w, p, audit_cross_user(w, p), FALSE) /\ update_project

api_delete_project(w, p) ==
  resolve_project(w, p) /\ Writes(w, p, audit_cross_user(w, p), FALSE) /\ delete_project(p)

api_create_check(r, w, p, c) ==
  resolve_project(w, p) /\ check_create_core(r, w, p, c, audit_cross_user(w, p), TRUE)

\* Each ends in reload_check, which answers with the row.
api_update_check(w, c) ==
  resolve_check(w, c) /\ Writes(w, c, audit_cross_user(w, c), TRUE) /\ update_check
api_pause_check(w, c)      == api_update_check(w, c)
api_resume_check(w, c)     == api_update_check(w, c)
api_ack_check(w, c)        == api_update_check(w, c)
api_regenerate_check(w, c) == api_update_check(w, c)

api_delete_check(w, c) ==
  resolve_check(w, c) /\ Writes(w, c, audit_cross_user(w, c), FALSE) /\ delete_check(c)

api_set_check_channels(r, w, c, form) ==
  resolve_check(w, c) /\ ListChannels(r, w, c, form, audit_cross_user(w, c))

api_create_channel(w, p, d, v) ==
  /\ resolve_project(w, p)
  /\ Writes(w, p, audit_cross_user(w, p), FALSE) /\ create_channel(p, d, v)

api_update_channel(r, w, d, field) ==
  resolve_channel(w, d) /\ ChannelResolved(r, w, d, field, audit_cross_user(w, d))

api_delete_channel(w, d) ==
  resolve_channel(w, d) /\ Writes(w, d, audit_cross_user(w, d), FALSE) /\ delete_channel(d)

-----------------------------------------------------------------------------
ProjectRequests(w, p) ==
  \/ project_create(w, p) \/ project_show(w, p) \/ project_update(w, p)
  \/ project_delete(w, p) \/ check_new(w, p) \/ channel_new(w, p)
  \/ admin_project_pages(w, p) \/ admin_project_update(w, p) \/ admin_project_delete(w, p)
  \/ admin_check_new(w, p) \/ admin_channel_new(w, p)
  \/ api_get_project(w, p) \/ api_list_project_checks(w, p)
  \/ api_list_project_channels(w, p) \/ api_create_project(w, p)
  \/ api_update_project(w, p) \/ api_delete_project(w, p)

CheckRequests(w, c) ==
  \/ check_show(w, c) \/ check_fragments(w, c) \/ check_edit(w, c) \/ check_writes(w, c)
  \/ check_delete(w, c)
  \/ admin_check_reveal_ping_url(w, c) \/ admin_check_show(w, c)
  \/ admin_check_fragments(w, c) \/ admin_check_edit(w, c) \/ admin_check_writes(w, c)
  \/ admin_check_delete(w, c)
  \/ api_get_check(w, c) \/ api_list_check_pings(w, c)
  \/ api_list_check_notifications(w, c) \/ api_update_check(w, c)
  \/ api_pause_check(w, c) \/ api_resume_check(w, c) \/ api_ack_check(w, c)
  \/ api_regenerate_check(w, c) \/ api_delete_check(w, c)

ChannelRequests(w, d) ==
  \/ channel_edit(w, d) \/ channel_delete(w, d) \/ channel_test(w, d)
  \/ admin_channel_edit(w, d) \/ admin_channel_delete(w, d) \/ admin_channel_test(w, d)
  \/ api_get_channel(w, d) \/ api_delete_channel(w, d)
  \/ \E p \in Projects, v \in Plain :
       \/ channel_create(w, p, d, v)
       \/ admin_channel_create(w, p, d, v)
       \/ api_create_channel(w, p, d, v)

\* The box that clears the token is ntfy's alone; the other kinds ignore it.
Fields(d) == Values \cup {Blank} \cup (IF d \in Ntfy THEN {Clear} ELSE {})

LongRequests(r, w) ==
  \/ \E p \in Projects, c \in Checks :
       \/ check_create(r, w, p, c)
       \/ admin_check_create(r, w, p, c)
       \/ api_create_check(r, w, p, c)
  \/ \E c \in Checks, form \in SUBSET Channels :
       \/ check_set_channels(r, w, c, form)
       \/ admin_check_set_channels(r, w, c, form)
       \/ api_set_check_channels(r, w, c, form)
  \/ \E d \in Channels : \E field \in Fields(d) :
       \/ channel_update(r, w, d, field)
       \/ admin_channel_update(r, w, d, field)
       \/ api_update_channel(r, w, d, field)

Init ==
  /\ users = Users
  /\ owner = [p \in Projects |-> Absent]
  /\ checkIn = [c \in Checks |-> Absent]
  /\ chanIn = [d \in Channels |-> Absent]
  /\ config = [d \in Channels |-> Empty]
  /\ given = [d \in Channels |-> {}]
  /\ bound = [c \in Checks |-> {}]
  /\ req = [r \in Requests |-> IdleRequest]
  /\ owed = [c \in Checks |-> {}]
  /\ last = Nothing

Next ==
  \/ \E w \in Callers :
       /\ w.user \in users
       /\ \/ \E p \in Projects : ProjectRequests(w, p)
          \/ \E c \in Checks : CheckRequests(w, c)
          \/ \E d \in Channels : ChannelRequests(w, d)
          \/ \E r \in Requests : LongRequests(r, w)
  \/ \E r \in Requests : RequestStep(r)
  \/ \E u \in Users : users_delete(u)
  \/ \E d \in Fragile : HandEdit(d)

Spec == Init /\ [][Next]_vars

-----------------------------------------------------------------------------
\* A binding joins a check and a channel that both exist, in one project: no
\* interleaving of a save (bind_channels), a creation and a cascade binds a check
\* to a channel of another project, which would receive its alerts.
BindingsInProject ==
  \A c \in Checks : \A d \in bound[c] :
    find_check(c) /\ find_channel(d) /\ checkIn[c] = chanIn[d]

\* check_create_core inserts the check and binds the channels in two statements.
\* Unless the request is cut off in between, the check has every channel that its
\* project had when it was inserted and that nobody has unbound or deleted since.
OwedAreBound ==
  \A c \in Checks :
    (\A r \in Requests : ~(req[r].pc = "bind_all" /\ req[r].target = c))
      => owed[c] \subseteq bound[c]

\* bind_channels reads twice and writes channel by channel while others do the same.
\* When it reports success, every channel of the project that no other request has
\* touched meanwhile is bound exactly if the form named it: racing saves disagree
\* only about what both wrote.
SavedAsSubmitted ==
  [][\A r \in Requests :
       req[r].pc = "bind" /\ req[r].adds = {} /\ req'[r].pc = "idle"
       /\ last'.kind = "write" /\ find_check(req[r].target)
         => \A d \in Channels \ req[r].touched :
              d \in bound[req[r].target] <=> d \in req[r].desired]_vars

\* channel_update merges over the channel it resolved and writes the whole config.  A
\* channel has the credential that was last submitted for it, and none once its token
\* was cleared; an older one comes back only by an edit with a blank field that had
\* read it before it was replaced.  Where one is required, some credential is stored.
CredentialsAreSubmitted ==
  \A d \in Channels :
    find_channel(d) => StoredConfig(config[d]) \in given[d] /\ Required(d, config[d])

\* What a project holds: its row, its checks, its channels and their bindings.
ProjectRows(p) ==
  <<owner[p], list_checks_for_project(p),
    {<<d, config[d]>> : d \in list_channels_for_project(p)},
    {<<c, bound[c]>> : c \in list_checks_for_project(p)}>>

\* The rows of a project change only by a request of its owner or by one of an
\* admin that left an audit row, on whichever surface and however many statements
\* after its resolver (or with their owner's account, or in the file itself).
ForeignChangeIsAudited ==
  [][\A p \in Projects :
       ProjectRows(p) # ProjectRows(p)' /\ users' = users /\ last'.kind # "hand"
         => /\ last'.kind = "write" /\ last'.project = p
            /\ last'.standing \in {"owner", "audited"}]_vars

\* Nobody but its owner and admins is shown a row or reaches a write, and an admin
\* who writes to, or learns the ping URL of, another user's check leaves an audit row.
AccessIsEarned ==
  [][/\ last'.standing # "stranger"
     /\ last'.kind = "write" \/ last'.url => last'.standing \in {"owner", "audited"}]_vars

\* What a save is about to bind cannot be in another project than its check, and what
\* a new check is owed is in its project.
StaysInProject ==
  /\ \A r \in Requests :
       req[r].pc \in {"list_bound", "bind"} =>
         \A d \in req[r].desired \cup req[r].adds :
           chanIn[d] \in {checkIn[req[r].target], Gone} \/ checkIn[req[r].target] = Gone
  /\ \A c \in Checks : \A d \in owed[c] : find_check(c) /\ chanIn[d] = checkIn[c]

\* A handler of several statements began by right.
BeganByRight == \A r \in Requests : req[r].standing \in {"owner", "audited"}

\* What handler q aims at, and what it is yet to do: bind what the form names, unbind
\* what it does not.
Aimed(q) ==
  /\ q.pc \in {"bind_all", "list_bound", "bind"} =>
       q.target \in Checks /\ checkIn[q.target] # Absent
  /\ q.pc = "update_channel" => q.target \in Channels /\ chanIn[q.target] # Absent
  /\ q.pc = "bind" => q.adds \subseteq q.desired /\ q.dels \cap q.desired = {}

\* What q believes of the rows is true where nobody else has written: a check has the
\* channels that were to stay or are bound by now, and those yet to be unbound; a
\* blank field would keep a credential the channel may have.
Believes(q) ==
  /\ q.pc = "bind" /\ find_check(q.target) =>
       \A d \in Channels \ q.touched :
         d \in bound[q.target] <=> d \in (q.desired \ q.adds) \cup q.dels
  /\ q.pc = "update_channel" /\ q.field = Blank /\ find_channel(q.target) =>
       StoredConfig(q.old) \in given[q.target]

\* The types and all that the steps preserve together.
WorkspaceInv ==
  /\ TypeOK /\ BindingsInProject /\ OwedAreBound /\ StaysInProject /\ BeganByRight
  /\ CredentialsAreSubmitted
  /\ \A r \in Requests : Aimed(req[r]) /\ Believes(req[r])
=============================================================================
