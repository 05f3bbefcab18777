------------------------------ MODULE History -------------------------------
(***************************************************************************)
(* The history pages: keyset_page over the ids of pings, notifications or  *)
(* audit_log (store.rs), and the newer and older links a page is drawn     *)
(* with (build_pings_partial and its twins, list_check_pings).             *)
(*                                                                         *)
(* A reader walks from page to page while rows come in and are pruned.  An *)
(* id is drawn before its row is visible, so rows may become visible out   *)
(* of the order of their ids (PostgreSQL; SQLite lets one writer in at a   *)
(* time).  Which rows are old enough to be pruned is decided in Retention; *)
(* here any may go.                                                        *)
(***************************************************************************)
EXTENDS Integers, FiniteSets

CONSTANTS
  MaxId,     \* bound: ids
  Kinds,     \* what a filter can tell apart
  Filters,   \* the filters readers choose: sets of kinds, {} for no filter
  Limit      \* the page size

ASSUME HistoryAssumption ==
  /\ MaxId \in Nat /\ Limit \in Nat \ {0}
  /\ Kinds # {} /\ {} \in Filters /\ Filters \subseteq SUBSET Kinds

VARIABLES
  drawn,   \* ids drawn so far
  pending, \* the ones whose row is not visible yet
  kind,    \* the kind of each row
  table,   \* the ids of the rows that are visible
  read     \* the reader

kvars == <<drawn, pending, kind, table, read>>

Ids == 1 .. MaxId
NoLink == 0

\* `filter`, carried from page to page; `items`; the links, by the id they hold; `down`:
\* the page was reached by an older link or is the newest.  Histories: `seen`, the rows
\* shown since the walk began; `base`, the rows of the filter that were there when it
\* began, or later when a link was followed and were newer than all it had seen.
Reader == [open : BOOLEAN, filter : Filters, items : SUBSET Ids, older : 0 .. MaxId,
           newer : 0 .. MaxId, down : BOOLEAN, base : SUBSET Ids, seen : SUBSET Ids]

HistoryTypeOK ==
  /\ drawn \in 0 .. MaxId
  /\ kind \in [Ids -> Kinds]
  /\ table \subseteq 1 .. drawn /\ pending \subseteq (1 .. drawn) \ table
  /\ read \in Reader

AnyFilter == CHOOSE f \in Filters : TRUE
Closed == [open |-> FALSE, filter |-> AnyFilter, items |-> {}, older |-> NoLink, newer |-> NoLink,
           down |-> TRUE, base |-> {}, seen |-> {}]

HistoryInit ==
  /\ drawn = 0 /\ pending = {}
  /\ kind \in [Ids -> Kinds]
  /\ table = {}
  /\ read = Closed

-----------------------------------------------------------------------------
(* The query. *)

\* predicates(): an empty filter constrains nothing.
Matches(i, f) == f = {} \/ kind[i] \in f

Largest(s)  == CHOOSE i \in s : \A j \in s : j <= i
Smallest(s) == CHOOSE i \in s : \A j \in s : i <= j

\* ORDER BY id DESC, or ASC, LIMIT limit: what is left without the overflow row.
Newest(s) == {i \in s : Cardinality({j \in s : j > i}) < Limit}
Oldest(s) == {i \in s : Cardinality({j \in s : j < i}) < Limit}

\* Mutant: After takes from the wrong end, as Before does.
NewestAfter(id, f) == LET s == {i \in table : Matches(i, f) /\ i > id}
                      IN [items |-> Newest(s), has_newer |-> Cardinality(s) > Limit, has_older |-> TRUE]

Latest(f) == LET s == {i \in table : Matches(i, f)}
             IN [items |-> Newest(s), has_newer |-> FALSE, has_older |-> Cardinality(s) > Limit]

\* Mutant: the flag is taken from a query without the extra row.
NoExtraRow(id, f) == LET s == {i \in table : Matches(i, f) /\ i < id}
                     IN [items |-> Newest(s), has_newer |-> TRUE, has_older |-> Cardinality(s) > Limit + 1]

Before(id, f) == LET s == {i \in table : Matches(i, f) /\ i < id}
                 IN [items |-> Newest(s), has_newer |-> TRUE, has_older |-> Cardinality(s) > Limit]

After(id, f) == LET s == {i \in table : Matches(i, f) /\ i > id}
                IN [items |-> Oldest(s), has_newer |-> Cardinality(s) > Limit, has_older |-> TRUE]

\* neighbour_ids: no row to start from, no link.
OlderId(page) == IF page.has_older /\ page.items # {} THEN Smallest(page.items) ELSE NoLink
NewerId(page) == IF page.has_newer /\ page.items # {} THEN Largest(page.items) ELSE NoLink

-----------------------------------------------------------------------------
(* The reader. *)

Shown(page, f, down, base, seen) ==
  [open |-> TRUE, filter |-> f, items |-> page.items, older |-> OlderId(page),
   newer |-> NewerId(page), down |-> down, base |-> base, seen |-> seen \cup page.items]

Above(f, seen) == {i \in table : Matches(i, f) /\ \A j \in seen : j < i}

\* A fresh page, a filter applied or cleared.
OpenLatest(f) ==
  /\ read' = Shown(Latest(f), f, TRUE, Above(f, {}), {})
  /\ UNCHANGED <<drawn, pending, kind, table>>

\* The rest of the walk goes on with page p.
Walk(p, down) ==
  /\ read' = Shown(p, read.filter, down, read.base \cup Above(read.filter, read.seen), read.seen)
  /\ UNCHANGED <<drawn, pending, kind, table>>

FollowOlder == read.open /\ read.older # NoLink /\ Walk(Before(read.older, read.filter), TRUE)

FollowNewer == read.open /\ read.newer # NoLink /\ Walk(After(read.newer, read.filter), FALSE)

-----------------------------------------------------------------------------
(* The table. *)

DrawId ==
  /\ drawn < MaxId
  /\ drawn' = drawn + 1 /\ pending' = pending \cup {drawn + 1}
  /\ UNCHANGED <<kind, table, read>>

\* The row becomes visible; `kind` says what it is.
InsertVisible(i) ==
  /\ i \in pending
  /\ pending' = pending \ {i} /\ table' = table \cup {i}
  /\ UNCHANGED <<drawn, kind, read>>

\* Retention, or the deletion of the check.
RowGoes(i) ==
  /\ i \in table
  /\ table' = table \ {i}
  /\ UNCHANGED <<drawn, pending, kind, read>>

HistoryNext ==
  \/ \E f \in Filters : OpenLatest(f)
  \/ FollowOlder \/ FollowNewer
  \/ DrawId
  \/ \E i \in Ids : InsertVisible(i) \/ RowGoes(i)

HistorySpec == HistoryInit /\ [][HistoryNext]_kvars

-----------------------------------------------------------------------------
(* Properties. *)

Between(i, s) == (\E lo \in s : lo <= i) /\ (\E hi \in s : i <= hi)

\* However a reader mixes older and newer links, and whatever comes in and goes in the
\* meantime, no row that was there to be found, and still is, lies unseen between two
\* rows that were shown.
NothingIsSkipped == \A i \in read.base \cap table : Between(i, read.seen) => i \in read.seen

\* A page that was reached downwards and offers no older link is the end: by then the
\* reader has seen everything that was there to be found below the newest row shown.
WalkIsComplete ==
  read.open /\ read.down /\ read.older = NoLink =>
    \A i \in read.base \cap table : (\E j \in read.seen : i <= j) => i \in read.seen

\* The links start from rows of the walk.
HistoryInv ==
  /\ HistoryTypeOK
  /\ NothingIsSkipped
  /\ WalkIsComplete
  /\ read.items \subseteq read.seen
  /\ read.older # NoLink => read.older \in read.seen
  /\ read.newer # NoLink => read.newer \in read.seen
  /\ read.base \cup read.seen \subseteq (1 .. drawn) \ pending
  /\ \A i \in read.base : Matches(i, read.filter)
  /\ ~read.open => read = Closed
=============================================================================
