----------------------------- MODULE AdminPages -----------------------------
(***************************************************************************)
(* The three tables of the administration: users, conversations, ratings   *)
(* (app/[locale]/(dashboard)/admin/.../page.tsx, hooks/use-admin-users.ts, *)
(* hooks/use-admin-conversations.ts, components/admin/user-detail-drawer), *)
(* with the lists of the server behind them, and the export of the ratings *)
(* (services/message_rating.py).                                           *)
(*                                                                         *)
(* One page is open, or the tab in which an export is opened. A call is    *)
(* sent, served, and applied when its answer arrives; an effect of React   *)
(* runs in the step that changes what it depends on. Filters, sort orders  *)
(* and page sizes are one filter: each goes back to the first page and     *)
(* fetches.                                                                *)
(***************************************************************************)
EXTENDS Integers, ListFilter, SequencesExt

CONSTANTS
  Item,     \* users, conversations or ratings
  Found,    \* the users that the search finds, and the items whose flag is set at the start
  Admins,   \* the users with is_app_admin
  First,    \* the items that are there at the start
  Call,     \* slots for the calls that are under way
  PageSize, \* rows of a page
  Chunk,    \* EXPORT_CHUNK_SIZE
  MaxChanges, \* bound: changes that the administrator and others make
  Nothing

VARIABLES
  kind,     \* the page: "users", "conversations" or "ratings", or "export"
  rows,     \* what the server has, the newest (or last touched) first
  flag,     \* users: is_active; conversations: not is_archived; ratings: a like
  born,     \* the items that have been on the server
  changes,  \* how many there have been, of the administrator and of others
  filter,   \* "all", or "part": the search, the active ones, the likes
  page,
  timer,    \* the query the debounce timer will send, or Nothing
  list,     \* the rows of the table
  total,
  loading,  \* isLoading
  count,    \* loadingCount of use-admin-conversations
  call,     \* the calls
  drawer,   \* drawerUser, drawerOpen, and the drawer's conversations
  export,   \* the export of the ratings
  answers,  \* the query that the table answers
  mixed,    \* whether calls have crossed since a fetch was sent alone
  missed,   \* whether a call has failed since the last fetch that did not
  stale,    \* whether others have changed the server since it was last fetched
  crossed   \* whether conversations of two users were fetched at a time

viewVars == <<filter, page, timer>>
tableVars == <<list, total, loading, count, answers, mixed, missed>>
serverVars == <<rows, flag, born, changes, stale, export>>
drawerVars == <<drawer, crossed>>
adminVars == <<kind, viewVars, tableVars, serverVars, drawerVars, call>>

Query == [filter : {"all", "part"}, page : 0 .. Cardinality(Item)]
Row == [id : Item, flag : BOOLEAN, admin : BOOLEAN]

ASSUME AdminAssumption ==
  /\ PageSize \in Nat \ {0} /\ Chunk \in Nat \ {0} /\ MaxChanges \in Nat
  /\ Found \subseteq Item /\ Admins \subseteq Item /\ First \subseteq Item
  /\ IsFiniteSet(Item) /\ IsFiniteSet(Call) /\ Nothing \notin Item \cup Query \cup Row

Idle == [kind |-> "none", query |-> Nothing, item |-> Nothing, value |-> FALSE, at |-> "free",
         rows |-> <<>>, total |-> 0]
NoExport == [at |-> "idle", filter |-> "all", skip |-> 0, total |-> 0, out |-> <<>>,
             base |-> {}, lost |-> FALSE, grown |-> FALSE]

AdminTypeOK ==
  /\ kind \in {"users", "conversations", "ratings", "export"}
  /\ changes \in 0 .. MaxChanges
  /\ IsInjective(rows) /\ ToSet(rows) \subseteq born /\ born \subseteq Item
  /\ flag \in [Item -> BOOLEAN]
  /\ [filter |-> filter, page |-> page] \in Query
  /\ timer \in Query \cup {Nothing} /\ (kind \in {"ratings", "export"} => timer = Nothing)
  /\ ToSet(list) \subseteq Row /\ total \in -MaxChanges .. Cardinality(Item)
  /\ count \in 0 .. Cardinality(Call) /\ answers \in Query \cup {Nothing}
  /\ {loading, mixed, missed, stale, crossed} \subseteq BOOLEAN
  /\ \A k \in Call :
       /\ call[k].at \in {"free", "sent", "ok", "bad"}
       /\ call[k].at = "free" <=> call[k] = Idle
  /\ drawer.user \in Row \cup {Nothing} /\ (drawer.open <=> drawer.user # Nothing)
  /\ drawer.convs \in Item \cup {Nothing} /\ drawer.loading \in BOOLEAN
  /\ (kind # "users" => drawer.user = Nothing) /\ (kind # "export" => export = NoExport)

Ids(s) == {s[i].id : i \in DOMAIN s}
Least(m, n) == IF m < n THEN m ELSE n
Flying(kinds) == {k \in Call : call[k].kind \in kinds}
Changes == {"table", "patch", "delete"}

-----------------------------------------------------------------------------
(* The server                                                               *)

RowOf(i) == [id |-> i, flag |-> flag[i], admin |-> kind = "users" /\ i \in Admins]

Fits(i, f, flags) == f = "all" \/ IF kind = "users" THEN i \in Found ELSE flags[i]

HitsIn(rs, flags, f) == Keep(rs, {i \in Item : Fits(i, f, flags)})
Hits(f) == HitsIn(rows, flag, f)

\* The rows from skip on, and no more than limit.
Slice(s, skip, limit) == SubSeq(s, skip + 1, Least(skip + limit, Len(s)))

PageOf(q) ==
  LET ids == Slice(Hits(q.filter), q.page * PageSize, PageSize) IN
  [j \in DOMAIN ids |-> RowOf(ids[j])]

Pages(n) == IF n <= PageSize THEN 1 ELSE (n + PageSize - 1) \div PageSize

\* What an export that is under way will not see, or may see once more: a row that
\* goes moves the others up, one that comes in moves them down, past the last chunk
\* if the rows were counted before.
Noted(rs, flags) ==
  export' =
    IF export.at \notin {"count", "select"} THEN export
    ELSE LET was == ToSet(Hits(export.filter))
             is  == ToSet(HitsIn(rs, flags, export.filter))
             more == ~(is \subseteq was)
         IN [export EXCEPT !.base  = @ \cap is,
                           !.lost  = @ \/ ~(was \subseteq is) \/ (more /\ export.at = "select"),
                           !.grown = @ \/ more]

Becomes(rs, flags) == rows' = rs /\ flag' = flags /\ Noted(rs, flags)

\* Other users, and other administrators, change what the server has.
Others ==
  /\ changes < MaxChanges /\ changes' = changes + 1
  /\ \/ \E i \in Item \ born :
          Becomes(<<i>> \o rows, [flag EXCEPT ![i] = TRUE]) /\ born' = born \cup {i}
     \/ \E i \in ToSet(rows) :
          LET rest == Keep(rows, Item \ {i}) IN
          /\ \/ Becomes(rest, flag)
             \/ Becomes(rows, [flag EXCEPT ![i] = ~@])
             \/ /\ kind = "conversations"
                /\ \E p \in DOMAIN rows : Becomes(InsertAt(rest, p, i), flag)
          /\ UNCHANGED born
  /\ stale' = TRUE
  /\ UNCHANGED <<kind, call>> /\ UNCHANGED viewVars /\ UNCHANGED tableVars /\ UNCHANGED drawerVars

Reply(k, at, rs, n) ==
  /\ call[k].at = "sent"
  /\ call' = [call EXCEPT ![k].at = at, ![k].rows = rs, ![k].total = n]

\* The proxy or the server refuses, or no answer comes.
Refuse(k) == Reply(k, "bad", <<>>, 0) /\ UNCHANGED serverVars

ServeTable(k) ==
  LET query == call[k].query IN
  /\ call[k].kind = "table"
  /\ Reply(k, "ok", PageOf(query), Len(Hits(query.filter)))
  /\ stale' = FALSE /\ UNCHANGED <<rows, flag, born, changes, export>>

\* The owners of the menu, and a user's recent conversations.
ServeOther(k) ==
  /\ call[k].kind \in {"owners", "recent"}
  /\ Reply(k, "ok", <<>>, 0) /\ UNCHANGED serverVars

\* is_app_admin is no field of UserUpdate, where a patch of it is accepted and
\* changes nothing, nor of the UserRead that answers, and it counts as not set.
ServePatch(k) ==
  LET c == call[k] IN
  /\ c.kind = "patch" /\ c.item \in ToSet(rows)
  /\ flag' = IF c.query = "active" THEN [flag EXCEPT ![c.item] = c.value] ELSE flag
  /\ Reply(k, "ok", <<[id |-> c.item, flag |-> flag'[c.item], admin |-> FALSE]>>, 0)
  /\ UNCHANGED <<rows, born, changes, stale, export>>

ServeDelete(k) ==
  /\ call[k].kind = "delete" /\ call[k].item \in ToSet(rows)
  /\ rows' = Keep(rows, Item \ {call[k].item})
  /\ Reply(k, "ok", <<>>, 0)
  /\ UNCHANGED <<flag, born, changes, stale, export>>

Serve(k) ==
  /\ Refuse(k) \/ ServeTable(k) \/ ServeOther(k) \/ ServePatch(k) \/ ServeDelete(k)
  /\ UNCHANGED kind /\ UNCHANGED viewVars /\ UNCHANGED tableVars /\ UNCHANGED drawerVars

\* The answer does not reach the page; it matters for what has been changed only.
Lose(k) ==
  /\ call[k].kind \in {"patch", "delete"} /\ call[k].at = "ok"
  /\ call' = [call EXCEPT ![k].at = "bad", ![k].rows = <<>>, ![k].total = 0]
  /\ UNCHANGED kind /\ UNCHANGED viewVars /\ UNCHANGED tableVars /\ UNCHANGED serverVars
  /\ UNCHANGED drawerVars
-----------------------------------------------------------------------------
(* Fetching                                                                 *)

Shown == [filter |-> filter, page |-> page]

Sent(k, what, query, item, value) ==
  call' = [call EXCEPT ![k] = [Idle EXCEPT !.kind = what, !.at = "sent", !.query = query,
                                           !.item = item, !.value = value]]

Gone(k) == call' = [call EXCEPT ![k] = Idle]

\* startLoad and endLoad: only use-admin-conversations counts.
StartLoad ==
  /\ loading' = TRUE
  /\ count' = IF kind = "conversations" THEN count + 1 ELSE count

EndLoadUncounted ==
  /\ count' = IF count = 0 THEN 0 ELSE count - 1
  /\ loading' = FALSE

EndLoad ==
  /\ count' = IF count = 0 THEN 0 ELSE count - 1
  /\ loading' = (count' > 0)

Fetch(k, query) ==
  /\ call[k].at = "free"
  /\ Sent(k, "table", query, Nothing, FALSE)
  /\ StartLoad
  /\ mixed' = (Flying(Changes) # {})
  /\ UNCHANGED <<list, total, answers, missed>>

\* The view changes: two of the pages arm their timer anew.
ViewsAtOnce(f, p) ==
  /\ filter' = f /\ page' = p
  /\ timer' = IF timer = Nothing THEN [filter |-> f, page |-> p] ELSE timer

Views(f, p) ==
  /\ filter' = f /\ page' = p
  /\ timer' = [filter |-> f, page |-> p]

\* Search, status, owner, page size or sort order; not with the drawer, which is
\* modal, open.
Filter(f) ==
  /\ kind \in {"users", "conversations"} /\ ~drawer.open
  /\ Views(f, 0)
  /\ UNCHANGED <<kind, call>> /\ UNCHANGED tableVars /\ UNCHANGED serverVars /\ UNCHANGED drawerVars

TurnUnbounded(p) ==
  /\ kind \in {"users", "conversations"} /\ ~drawer.open /\ ~loading /\ total # 0
  /\ p \in {page - 1, page + 1}
  /\ Views(filter, p)
  /\ UNCHANGED <<kind, call>> /\ UNCHANGED tableVars /\ UNCHANGED serverVars /\ UNCHANGED drawerVars

\* onPrev and onNext of the PaginationBar, which is not there without rows.
Turn(p) ==
  /\ kind \in {"users", "conversations"} /\ ~drawer.open /\ ~loading /\ total # 0
  /\ \/ p = page - 1 /\ page > 0
     \/ p = page + 1 /\ page < Pages(total) - 1
  /\ Views(filter, p)
  /\ UNCHANGED <<kind, call>> /\ UNCHANGED tableVars /\ UNCHANGED serverVars /\ UNCHANGED drawerVars

FireTimer(k) ==
  /\ timer # Nothing
  /\ Fetch(k, timer)
  /\ timer' = Nothing
  /\ UNCHANGED <<kind, filter, page>> /\ UNCHANGED serverVars /\ UNCHANGED drawerVars

\* The ratings page fetches when what it shows has changed; its buttons stay
\* enabled meanwhile, and are there for more than one page only.
FilterRatings(k, f) ==
  /\ kind = "ratings" /\ [filter |-> f, page |-> 0] # Shown
  /\ filter' = f /\ page' = 0
  /\ Fetch(k, [filter |-> f, page |-> 0])
  /\ UNCHANGED <<kind, timer>> /\ UNCHANGED serverVars /\ UNCHANGED drawerVars

TurnRatings(k, p) ==
  /\ kind = "ratings" /\ Pages(total) > 1
  /\ \/ p = page - 1 /\ page > 0
     \/ p = page + 1 /\ page < Pages(total) - 1
  /\ page' = p
  /\ Fetch(k, [filter |-> filter, page |-> p])
  /\ UNCHANGED <<kind, filter, timer>> /\ UNCHANGED serverVars /\ UNCHANGED drawerVars

-----------------------------------------------------------------------------
(* The drawer                                                               *)

\* The effect of [open, user]: conversations are fetched, in slot k, or dropped.
Recent(k, user) ==
  /\ Sent(k, "recent", Nothing, user.id, FALSE)
  /\ LET before == Flying({"recent"}) \ {k} IN
     crossed' = (before # {} /\ (crossed \/ \E o \in before : call[o].item # user.id))

\* The list has new objects of the users in news: an open drawer takes its own,
\* which fetches its conversations again.
Sync(k, news) ==
  IF drawer.open /\ drawer.user.id \in Ids(news)
  THEN LET fresh == news[SelectInSeq(news, LAMBDA r : r.id = drawer.user.id)] IN
       Recent(k, fresh) /\ drawer' = [drawer EXCEPT !.user = fresh, !.loading = TRUE]
  ELSE Gone(k) /\ UNCHANGED drawerVars

OpenDrawer(k, row) ==
  /\ kind = "users" /\ ~drawer.open /\ call[k].at = "free"
  /\ drawer' = [drawer EXCEPT !.user = row, !.open = TRUE, !.loading = TRUE]
  /\ Recent(k, row)
  /\ UNCHANGED kind /\ UNCHANGED viewVars /\ UNCHANGED tableVars /\ UNCHANGED serverVars

\* The user and the conversations of a closed drawer are not kept here: nothing
\* shows them, and the next opening, and the answer to its fetch, overwrite them.
Closed == [user |-> Nothing, open |-> FALSE, convs |-> Nothing, loading |-> FALSE]

CloseDrawer ==
  /\ drawer.open
  /\ drawer' = [Closed EXCEPT !.loading = drawer.loading]
  /\ UNCHANGED <<kind, call, crossed>>
  /\ UNCHANGED viewVars /\ UNCHANGED tableVars /\ UNCHANGED serverVars

\* Whoever the drawer is of by now.
ApplyRecent(k) ==
  /\ call[k].kind = "recent" /\ call[k].at \in {"ok", "bad"}
  /\ drawer' = [drawer EXCEPT !.loading = FALSE,
                              !.convs = IF drawer.open /\ call[k].at = "ok" THEN call[k].item
                                        ELSE Nothing]
  /\ Gone(k)
  /\ UNCHANGED <<kind, crossed>>
  /\ UNCHANGED viewVars /\ UNCHANGED tableVars /\ UNCHANGED serverVars

\* Suspend, reactivate, promote or demote.
Patch(k, field) ==
  /\ drawer.open /\ call[k].at = "free"
  /\ changes < MaxChanges /\ changes' = changes + 1
  /\ Sent(k, "patch", field, drawer.user.id,
          IF field = "active" THEN ~drawer.user.flag ELSE ~drawer.user.admin)
  /\ mixed' = (mixed \/ timer # Nothing \/ Flying(Changes) # {})
  /\ UNCHANGED <<kind, list, total, loading, count, answers, missed>>
  /\ UNCHANGED viewVars /\ UNCHANGED <<rows, flag, born, stale, export>> /\ UNCHANGED drawerVars

Delete(k) ==
  /\ drawer.open /\ call[k].at = "free"
  /\ changes < MaxChanges /\ changes' = changes + 1
  /\ Sent(k, "delete", Nothing, drawer.user.id, FALSE)
  /\ drawer' = [Closed EXCEPT !.loading = drawer.loading]
  /\ mixed' = (mixed \/ timer # Nothing \/ Flying(Changes) # {} \/ drawer.user.id \notin Ids(list))
  /\ UNCHANGED <<kind, list, total, loading, count, answers, missed, crossed>>
  /\ UNCHANGED viewVars /\ UNCHANGED <<rows, flag, born, stale, export>>

-----------------------------------------------------------------------------
(* Answers                                                                  *)

ApplyTable(k) ==
  LET c == call[k] IN
  /\ c.kind = "table" /\ c.at \in {"ok", "bad"}
  /\ EndLoad
  /\ IF c.at = "ok"
     THEN /\ list' = c.rows /\ total' = c.total /\ answers' = c.query /\ missed' = FALSE
          /\ Sync(k, c.rows)
     ELSE /\ missed' = TRUE
          /\ Gone(k)
          /\ UNCHANGED <<list, total, answers>> /\ UNCHANGED drawerVars
  /\ UNCHANGED <<kind, mixed>> /\ UNCHANGED viewVars /\ UNCHANGED serverVars

ApplyOwners(k) ==
  /\ call[k].kind = "owners" /\ call[k].at \in {"ok", "bad"}
  /\ EndLoad
  /\ Gone(k)
  /\ UNCHANGED <<kind, list, total, answers, mixed, missed>>
  /\ UNCHANGED viewVars /\ UNCHANGED serverVars /\ UNCHANGED drawerVars

\* The answer, a UserRead, takes the row's place.
ApplyPatch(k) ==
  LET c == call[k] IN
  /\ c.kind = "patch" /\ c.at \in {"ok", "bad"}
  /\ IF c.at = "ok"
     THEN /\ list' = [i \in DOMAIN list |-> IF list[i].id = c.item THEN c.rows[1] ELSE list[i]]
          /\ Sync(k, IF c.item \in Ids(list) THEN c.rows ELSE <<>>)
          /\ UNCHANGED missed
     ELSE missed' = TRUE /\ Gone(k) /\ UNCHANGED list /\ UNCHANGED drawerVars
  /\ UNCHANGED <<kind, total, loading, count, answers, mixed>>
  /\ UNCHANGED viewVars /\ UNCHANGED serverVars

ApplyDelete(k) ==
  LET c == call[k] IN
  /\ c.kind = "delete" /\ c.at \in {"ok", "bad"}
  /\ IF c.at = "ok"
     THEN /\ list' = Keep(list, {r \in Row : r.id # c.item}) /\ total' = total - 1
          /\ UNCHANGED missed
     ELSE missed' = TRUE /\ UNCHANGED <<list, total>>
  /\ Gone(k)
  /\ UNCHANGED <<kind, loading, count, answers, mixed>>
  /\ UNCHANGED viewVars /\ UNCHANGED serverVars /\ UNCHANGED drawerVars

-----------------------------------------------------------------------------
(* The export of the ratings, in a tab of its own: chunks are read while others *)
(* rate                                                                     *)

ExportBegin ==
  /\ kind = "export" /\ export.at = "idle"
  /\ export' = [export EXCEPT !.at = "count", !.filter = filter, !.base = ToSet(Hits(filter))]
  /\ UNCHANGED <<kind, call, rows, flag, born, changes, stale>>
  /\ UNCHANGED viewVars /\ UNCHANGED tableVars /\ UNCHANGED drawerVars

\* list_ratings counts the rows and then selects some: two queries.
ExportCount ==
  /\ export.at = "count"
  /\ export' = [export EXCEPT !.at = "select", !.total = Len(Hits(export.filter))]
  /\ UNCHANGED <<kind, call, rows, flag, born, changes, stale>>
  /\ UNCHANGED viewVars /\ UNCHANGED tableVars /\ UNCHANGED drawerVars

ExportSelectShort ==
  /\ export.at = "select"
  /\ LET chunk == Slice(Hits(export.filter), export.skip, Chunk)
         next == export.skip + Chunk
     IN export' = [export EXCEPT
                     !.at   = IF chunk = <<>> \/ next + 1 >= export.total THEN "done" ELSE "count",
                     !.out  = @ \o chunk,
                     !.skip = next]
  /\ UNCHANGED <<kind, call, rows, flag, born, changes, stale>>
  /\ UNCHANGED viewVars /\ UNCHANGED tableVars /\ UNCHANGED drawerVars

ExportSelect ==
  /\ export.at = "select"
  /\ LET chunk == Slice(Hits(export.filter), export.skip, Chunk)
         next == export.skip + Chunk
     IN export' = [export EXCEPT
                     !.at   = IF chunk = <<>> \/ next >= export.total THEN "done" ELSE "count",
                     !.out  = @ \o chunk,
                     !.skip = IF chunk = <<>> THEN @ ELSE next]
  /\ UNCHANGED <<kind, call, rows, flag, born, changes, stale>>
  /\ UNCHANGED viewVars /\ UNCHANGED tableVars /\ UNCHANGED drawerVars

-----------------------------------------------------------------------------
(* The specification                                                        *)

\* The table's effect has run: a timer is armed, or the call is under way; the
\* conversations page asks for the owners too.
AdminInit ==
  /\ kind \in {"users", "conversations", "ratings", "export"}
  /\ rows = SetToSeq(First) /\ born = First
  /\ flag = [i \in Item |-> i \in Found] /\ changes = 0
  /\ \/ filter = IF kind = "conversations" THEN "part" ELSE "all"
     \/ kind = "export" /\ filter = "part"
  /\ page = 0
  /\ timer = IF kind \in {"ratings", "export"} THEN Nothing ELSE [filter |-> filter, page |-> 0]
  /\ list = <<>> /\ total = 0 /\ answers = Nothing
  /\ loading = (kind \in {"conversations", "ratings"})
  /\ count = IF kind = "conversations" THEN 1 ELSE 0
  /\ IF kind \in {"users", "export"} THEN call = [k \in Call |-> Idle]
     ELSE \E k \in Call :
       call = [c \in Call |->
                IF c # k THEN Idle
                ELSE [Idle EXCEPT !.at = "sent",
                        !.kind = IF kind = "ratings" THEN "table" ELSE "owners",
                        !.query = IF kind = "ratings" THEN [filter |-> filter, page |-> 0]
                                  ELSE Nothing]]
  /\ drawer = Closed
  /\ export = NoExport
  /\ mixed = FALSE /\ missed = FALSE /\ stale = FALSE /\ crossed = FALSE

AdminNext ==
  \/ Others \/ CloseDrawer \/ ExportBegin \/ ExportCount \/ ExportSelect
  \/ \E f \in {"all", "part"} : Filter(f)
  \/ \E p \in {page - 1, page + 1} : Turn(p)
  \/ \E k \in Call :
       \/ Serve(k) \/ Lose(k) \/ FireTimer(k) \/ Delete(k)
       \/ ApplyTable(k) \/ ApplyOwners(k) \/ ApplyRecent(k) \/ ApplyPatch(k) \/ ApplyDelete(k)
       \/ \E f \in {"all", "part"} : FilterRatings(k, f)
       \/ \E p \in {page - 1, page + 1} : TurnRatings(k, p)
       \/ \E row \in ToSet(list) : OpenDrawer(k, row)
       \/ \E field \in {"active", "admin"} : Patch(k, field)

AdminSpec == AdminInit /\ [][AdminNext]_adminVars

-----------------------------------------------------------------------------
(* Properties                                                               *)

\* Once nothing is armed or under way, and no calls have crossed and none has
\* failed, the table is the answer to the filter and the page on the screen; if no
\* one else has changed the users since, what the administrator has changed shows
\* in it: no row of a deleted user, the right status, the right total, and nobody
\* shown as an administrator who is none.
TableAnswersView ==
  (kind # "export" /\ timer = Nothing /\ Flying(Changes) = {} /\ ~mixed /\ ~missed) =>
    /\ answers = Shown
    /\ ~stale =>
         /\ Ids(list) \subseteq Ids(PageOf(answers))
         /\ total = Len(Hits(filter))
         /\ \A i \in DOMAIN list :
              /\ list[i].flag = flag[list[i].id]
              /\ list[i].admin => list[i].id \in Admins

\* The skeletons of the conversations page are there while a fetch is under way
\* and not longer; those of the other pages are gone when none is.
LoadingIsTrue ==
  IF kind = "conversations" THEN loading <=> Flying({"table", "owners"}) # {}
  ELSE loading => Flying({"table"}) # {}

\* An open drawer ends with the conversations of the user whom it shows, unless
\* those of two users were fetched at a time.
DrawerSettles ==
  /\ drawer.loading => Flying({"recent"}) # {}
  /\ (drawer.open /\ Flying({"recent"}) = {} /\ ~crossed) =>
       drawer.convs \in {drawer.user.id, Nothing}

\* A page comes to rest with what it shows.
PageSettles == LoadingIsTrue /\ DrawerSettles

\* What docs of the route promise: an administrator made by a patch is one
\* (api/routes/v1/admin_users.py:8, "Update user (role, is_active, is_app_admin)").
PromotionHolds ==
  \A k \in Call :
    (call[k].kind = "patch" /\ call[k].query = "admin" /\ call[k].at = "ok") =>
      (call[k].item \in Admins <=> call[k].value)

\* An export has every rating that matched all along, unless ratings went, or came
\* in after a count; and it has none twice unless ratings came in.
ExportIsAccounted ==
  /\ (export.at = "done" /\ ~export.lost) => export.base \subseteq ToSet(export.out)
  /\ ~export.grown => IsInjective(export.out)
=============================================================================
