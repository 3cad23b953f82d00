------------------------------ MODULE Listing ------------------------------
(***************************************************************************)
(* A list of the panel (API keys, connected accounts, charges, payouts) and *)
(* the pages the server cuts it into: newest first, the cursor is the       *)
(* creation time of the last row. The tab keeps the pages in the query      *)
(* cache of usePaginatedQuery, under a key that does not name the user.     *)
(* Charges and payouts can also be exported, all those of a period.         *)
(***************************************************************************)
EXTENDS Naturals, FiniteSets, Sequences

CONSTANTS
  Users,
  PageSize,   \* INTEGRATOR_PAGE_LIMIT
  MaxPage,    \* MAX_PAGE_LIMIT
  ExportMax,  \* the limit of an export, 5000
  MaxRows,    \* bound: rows ever made
  MaxTime,    \* bound: instants createdAt can take
  MaxClicks,  \* bound: what the user of the tab does
  NoUser      \* no token in localStorage

ListingAssumption ==
  /\ NoUser \notin Users /\ ExportMax \in Nat
  /\ PageSize \in 1 .. MaxPage /\ MaxPage \in 1 .. ExportMax
  /\ MaxRows \in 0 .. ExportMax /\ MaxTime \in Nat /\ MaxClicks \in Nat

VARIABLES
  list,      \* which list it is
  now,
  rows,      \* in the database: [id, at, owner]
  ids,       \* rows made so far
  user,      \* whose token the tab has
  mounted,   \* the list is on the screen
  cache,     \* the pages the query has, NoCache before the first
  fetch,     \* the fetch under way, Idle
  carried,   \* history: the user changed while the query had pages or a fetch
  export,    \* the last file: the page it was made of, the rows it lacks
  clicks

vars == <<list, now, rows, ids, user, mounted, cache, fetch, carried, export, clicks>>

Known(u) == {r \in rows : r.owner = u}

\* pages: items and cursor of each; known: the rows there were at the first
NoCache == [pages |-> <<>>, fresh |-> FALSE, known |-> {}]
Idle == [kind |-> "none", left |-> 0, pages |-> <<>>, known |-> {}]

\* What a page offers besides reading.
Kind(form, delete, file) == [form |-> form, delete |-> delete, file |-> file]

ApiKeysList  == Kind(TRUE, TRUE, FALSE)
AccountsList == Kind(TRUE, FALSE, FALSE)
ChargesList  == Kind(FALSE, FALSE, TRUE)
PayoutsList  == Kind(FALSE, FALSE, TRUE)

Shown(ps) == UNION {ps[i].items : i \in DOMAIN ps}

\* nextCursor of the last page: 0 is null.
NextCursor(ps) == ps[Len(ps)].next

-----------------------------------------------------------------------------
(* The server.                                                             *)

\* parsePaginationLimit.
PageLimit(n) == IF n < MaxPage THEN n ELSE MaxPage

Older(r, q) == r.at <= q.at

\* paginatedResponse: the newest n of s, in one of the orders the database may
\* give rows of one instant.
Cut(s, n) ==
  IF Cardinality(s) <= n THEN {[items |-> s, next |-> 0]}
  ELSE {[items |-> t, next |-> (CHOOSE r \in t : \A q \in t : Older(r, q)).at] :
          t \in {t \in SUBSET s : Cardinality(t) = n
                                  /\ \A r \in t, q \in s \ t : Older(q, r)}}

\* Mutation: the next page starts at the instant of the last row.
PageOf_FromLast(u, cursor, n) ==
  Cut({r \in Known(u) : cursor = 0 \/ r.at <= cursor}, PageLimit(n))

\* listForUser, listForIntegration: the pages that may be answered.
PageOf(u, cursor, n) ==
  Cut({r \in Known(u) : cursor = 0 \/ r.at < cursor}, PageLimit(n))

Insert(u) ==
  /\ ids < MaxRows
  /\ ids' = ids + 1
  /\ rows' = rows \cup {[id |-> ids + 1, at |-> now, owner |-> u]}

\* A row made with the API or in another tab; a row deleted.
RemoteInsert(u) ==
  /\ Insert(u)
  /\ UNCHANGED <<list, now, user, mounted, cache, fetch, carried, export, clicks>>

RemoteDelete(r) ==
  /\ list.delete
  /\ rows' = rows \ {r}
  /\ UNCHANGED <<list, now, ids, user, mounted, cache, fetch, carried, export, clicks>>

Tick ==
  /\ now < MaxTime
  /\ now' = now + 1
  /\ UNCHANGED <<list, rows, ids, user, mounted, cache, fetch, carried, export, clicks>>

-----------------------------------------------------------------------------
(* usePaginatedQuery.                                                      *)

Click == clicks < MaxClicks /\ clicks' = clicks + 1

\* All pages the query has are asked for again, from the first.
Refetch == [Idle EXCEPT !.kind = "all", !.left = IF cache = NoCache THEN 1 ELSE Len(cache.pages)]

\* The list comes on the screen: pages younger than staleTime are not asked for.
Open ==
  /\ ~mounted /\ user # NoUser
  /\ Click
  /\ mounted' = TRUE
  /\ fetch' = IF fetch = Idle /\ ~cache.fresh THEN Refetch ELSE fetch
  /\ UNCHANGED <<list, now, rows, ids, user, cache, carried, export>>

Leave ==
  /\ mounted
  /\ mounted' = FALSE
  /\ UNCHANGED <<list, now, rows, ids, user, cache, fetch, carried, export, clicks>>

\* The button under the list; a fetch of all pages under way is cancelled.
LoadMore ==
  /\ mounted /\ cache # NoCache /\ NextCursor(cache.pages) # 0
  /\ fetch.kind # "next"
  /\ Click
  /\ fetch' = [kind |-> "next", left |-> 1, pages |-> cache.pages, known |-> cache.known]
  /\ UNCHANGED <<list, now, rows, ids, user, mounted, cache, carried, export>>

\* fetchPage with the token of this moment, a page after the other; the query
\* takes the pages when the last has come.
FetchPage ==
  /\ fetch # Idle /\ user # NoUser
  /\ \E p \in PageOf(user, IF fetch.pages = <<>> THEN 0 ELSE NextCursor(fetch.pages),
                     PageSize) :
       LET got   == Append(fetch.pages, p)
           known == IF fetch.pages = <<>> THEN Known(user) ELSE fetch.known
       IN  IF fetch.left = 1 \/ p.next = 0
           THEN /\ cache' = [pages |-> got, fresh |-> TRUE, known |-> known]
                /\ fetch' = Idle
           ELSE /\ fetch' = [fetch EXCEPT !.left = @ - 1, !.pages = got, !.known = known]
                /\ UNCHANGED cache
  /\ UNCHANGED <<list, now, rows, ids, user, mounted, carried, export, clicks>>

\* A request failed, twice, or there is no token: the pages stay.
FetchFails ==
  /\ fetch # Idle
  /\ fetch' = Idle
  /\ UNCHANGED <<list, now, rows, ids, user, mounted, cache, carried, export, clicks>>

\* staleTime, and gcTime of a list nobody shows.
Ages ==
  /\ cache.fresh
  /\ cache' = [cache EXCEPT !.fresh = FALSE]
  /\ UNCHANGED <<list, now, rows, ids, user, mounted, fetch, carried, export, clicks>>

Collected ==
  /\ ~mounted /\ cache # NoCache /\ fetch = Idle
  /\ cache' = NoCache
  /\ carried' = FALSE
  /\ UNCHANGED <<list, now, rows, ids, user, mounted, fetch, export, clicks>>

\* submitCreate: the row is made; its answer invalidates the list, which asks
\* for everything again if it is still on the screen.
Create ==
  /\ list.form /\ mounted
  /\ Click
  /\ Insert(user)
  /\ \/ UNCHANGED <<cache, fetch>>  \* the reply is lost
     \/ /\ cache' = [cache EXCEPT !.fresh = FALSE]
        /\ fetch' = Refetch
  /\ UNCHANGED <<list, now, user, mounted, carried, export>>

NoExport == [page |-> {}, lacks |-> {}]

Within(r, from, to) == from <= r.at /\ r.at <= to

\* exportCharges, exportPayouts: the first page of the longest list, and of it
\* the rows of the period go into the file.
Export(from, to) ==
  /\ list.file /\ mounted /\ user # NoUser
  /\ Click
  /\ \E p \in PageOf(user, 0, ExportMax) :
       export' = [page |-> p.items,
                  lacks |-> {r \in Known(user) : Within(r, from, to)} \ p.items]
  /\ UNCHANGED <<list, now, rows, ids, user, mounted, cache, fetch, carried>>

\* Logout, and login as anybody: the query keeps its pages.
ChangeUser(u) ==
  /\ u # user
  /\ Click
  /\ user' = u
  /\ mounted' = FALSE
  /\ carried' = (carried \/ cache # NoCache \/ fetch # Idle)
  /\ UNCHANGED <<list, now, rows, ids, cache, fetch, export>>

Init ==
  /\ list \in {ApiKeysList, AccountsList, ChargesList, PayoutsList}
  /\ export = NoExport
  /\ now = 1 /\ rows = {} /\ ids = 0
  /\ user \in Users
  /\ mounted = FALSE
  /\ cache = NoCache /\ fetch = Idle
  /\ carried = FALSE /\ clicks = 0

Next ==
  \/ \E u \in Users : RemoteInsert(u)
  \/ \E r \in rows : RemoteDelete(r)
  \/ Tick
  \/ Open \/ Leave \/ LoadMore \/ FetchPage \/ FetchFails \/ Ages \/ Collected
  \/ Create
  \/ \E from, to \in 1 .. MaxTime : from <= to /\ Export(from, to)
  \/ \E u \in Users \cup {NoUser} : ChangeUser(u)

Spec == Init /\ [][Next]_vars

-----------------------------------------------------------------------------
(* Properties.                                                             *)

\* No row is listed twice.
ListedOnce ==
  \A i, j \in DOMAIN cache.pages :
    i # j => cache.pages[i].items \cap cache.pages[j].items = {}

\* A list read to its end has every row there was when its first page was read
\* and still is, but for rows of the same instant as the last row of a page:
\* the cursor passes them over.
NoneMissing ==
  cache # NoCache /\ ~carried /\ NextCursor(cache.pages) = 0 =>
    \A r \in cache.known \cap rows :
      r \in Shown(cache.pages) \/ \E i \in DOMAIN cache.pages : cache.pages[i].next = r.at

\* The rows are the user's, unless the pages, or one of them, were read before
\* the user of the tab changed.
OwnRows ==
  mounted /\ ~carried => \A r \in Shown(cache.pages) : r.owner = user

\* An export lacks a row of its period only when MaxPage others are not older.
ExportLacksOnlyBehindAPage ==
  \A r \in export.lacks :
    Cardinality({q \in export.page : Older(r, q)}) = MaxPage

ListIsExplained ==
  ListedOnce /\ NoneMissing /\ OwnRows /\ ExportLacksOnlyBehindAPage

\* docs/API.md: an export has the charges, or the payouts, of its period, up to
\* ExportMax of them (and there are never more).
ExportHasItsPeriod == export.lacks = {}
=============================================================================
