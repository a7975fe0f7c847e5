---------------------------- MODULE OrderQueries ----------------------------
(***************************************************************************)
(* The read endpoints, GET /orders/:id and GET /orders, over the read      *)
(* model that InMemoryPipeline keeps up to date.  Either answer is put     *)
(* together from two statements, without a transaction, and the projection *)
(* may write between them and between the pages of a listing.              *)
(*                                                                         *)
(* There is one client.  It gets an order, or lists orders page by page    *)
(* until a page is shorter than the page size of its answer.               *)
(***************************************************************************)
EXTENDS InMemoryPipeline, SequencesExt

CONSTANTS
    OccurredAt,        \* OccurredAt[e]: when event e was raised, as PostgreSQL
                       \* keeps it: to the microsecond, so that two may be equal
    Listings,          \* the listings the client may ask for
    MaxPageSize,       \* 100 in the code
    DefaultPageSize    \* 20 in the code

\* status: the filter, "" for none; sort: the column; dir: the direction;
\* size: the page size asked for.
ListingFilters == [status : {"", "DRAFT", "CONFIRMED"},
                   sort : {"created_at", "total_amount", "other"},
                   dir : {"asc", "desc"}, size : Int]

ASSUME QueryAssumption ==
    /\ OccurredAt \in [1..Len(Log) -> Nat]
    /\ Listings \subseteq ListingFilters
    /\ DefaultPageSize \in 1..MaxPageSize

VARIABLES
    asked,         \* the query the client waits for, or has last made
    place,         \* the statement that is next; "idle", "answered"
    answer,        \* what it has been given so far
    present,       \* matching orders that were there when the listing began
    seen           \* orders that have been on one of its pages

clientVars == <<asked, place, answer, present, seen>>
queryVars  == <<vars, clientVars>>

-----------------------------------------------------------------------------
NoQuery  == [op |-> "none"]
NoAnswer == [view |-> P!NoView, items |-> {}, count |-> 0, page |-> <<>>]

\* Orders with a view.
Viewed == {o \in OrderIds : views[o] # P!NoView}

\* Mutants of GetOrderByID and Offset.
GetOrderByIDItemsFirst == <<"items", "view">>
OffsetFromOne(page, size) == page * size

\* The two statements of GetOrderByID: the row, then the items.
GetOrderByID == <<"view", "items">>

\* The answer with what statement p adds to it.
Told(p, o) == IF p = "view" THEN [answer EXCEPT !.view = views[o]]
                            ELSE [answer EXCEPT !.items = itemViews[o]]

\* WHERE: no filter, or the status.
Matching(status) == {o \in Viewed : status = "" \/ views[o].status = status}

\* ListOrdersHandler.Handle: the size the listing is really made with.
EffectiveSize(size) == IF size < 1 \/ size > MaxPageSize THEN DefaultPageSize ELSE size

\* The first row of a page, from 0.  A negative offset, as the product may be
\* when it wraps around, is no offset at all.
Offset(page, size) ==
    LET offset == Wrap((page - 1) * size) IN IF offset < 0 THEN 0 ELSE offset

\* The event that created an order; created_at is when it was raised.
Creation(o)  == CHOOSE e \in R!EventIds : Log[e] = NewOrderCreated(o)
CreatedAt(o) == OccurredAt[Creation(o)]

\* ORDER BY: a column that is not on the list, "other", is not sorted by, and
\* then the direction does not count either.  (The columns status and updated_at
\* are left out; like total_amount they change under a listing.)
Precedes(l, o, p) ==
    CASE l.sort = "created_at" /\ l.dir = "asc"    -> CreatedAt(o) < CreatedAt(p)
      [] l.sort = "total_amount" /\ l.dir = "asc"  -> views[o].total < views[p].total
      [] l.sort = "total_amount" /\ l.dir = "desc" -> views[o].total > views[p].total
      [] OTHER                                     -> CreatedAt(o) > CreatedAt(p)

\* The orders S as a statement may return them: rows that compare equal come
\* in any order.
Sorted(l, S) ==
    {s \in SetToSeqs(S) : \A i, j \in DOMAIN s : i < j => ~Precedes(l, s[j], s[i])}

-----------------------------------------------------------------------------
QueryInit ==
    /\ Init
    /\ asked = NoQuery /\ place = "idle" /\ answer = NoAnswer
    /\ present = {} /\ seen = {}

\* GET /orders/:id: the first statement; a 404 changes nothing.
StartGet ==
    /\ place = "idle"
    /\ \E o \in Viewed :
          /\ asked' = [op |-> "get", order |-> o]
          /\ answer' = Told(GetOrderByID[1], o)
    /\ place' = GetOrderByID[2]
    /\ UNCHANGED <<vars, present, seen>>

\* The second statement.
ReadRest ==
    /\ place \in {"view", "items"}
    /\ answer' = Told(place, asked.order)
    /\ place' = "answered"
    /\ UNCHANGED <<vars, asked, present, seen>>

\* SELECT count(*), the first statement of a page.
CountMatching(status) ==
    /\ answer' = [NoAnswer EXCEPT !.count = Cardinality(Matching(status))]
    /\ place' = "page"

\* GET /orders, the first page.
StartList ==
    /\ place = "idle"
    /\ \E l \in Listings :
          /\ asked' = [op |-> "list", page |-> 1, status |-> l.status, sort |-> l.sort,
                       dir |-> l.dir, size |-> l.size]
          /\ CountMatching(l.status)
          /\ present' = Matching(l.status)
    /\ UNCHANGED <<vars, seen>>

\* SELECT ... ORDER BY ... LIMIT ... OFFSET.
SelectPage ==
    /\ place = "page"
    /\ LET size  == EffectiveSize(asked.size)
           first == Offset(asked.page, size) + 1 IN
       \E s \in Sorted(asked, Matching(asked.status)) :
          LET page == SubSeq(s, first, IF first + size - 1 < Len(s)
                                       THEN first + size - 1 ELSE Len(s)) IN
          /\ answer' = [answer EXCEPT !.page = page]
          /\ seen' = seen \cup Range(page)
    /\ place' = "answered"
    /\ UNCHANGED <<vars, asked, present>>

\* A statement fails (500), the client loses interest, or it has its answer.
EndQuery ==
    /\ place # "idle"
    /\ place' = "idle" /\ asked' = NoQuery /\ answer' = NoAnswer
    /\ present' = {} /\ seen' = {}
    /\ UNCHANGED vars

FullPage == Len(answer.page) = EffectiveSize(asked.size)

\* The client asks for the next page.
NextPage ==
    /\ place = "answered" /\ asked.op = "list" /\ FullPage
    /\ asked' = [asked EXCEPT !.page = @ + 1]
    /\ CountMatching(asked.status)
    /\ UNCHANGED <<vars, present, seen>>

-----------------------------------------------------------------------------
Get     == StartGet \/ ReadRest
List    == StartList \/ SelectPage \/ NextPage
Project == Next /\ UNCHANGED clientVars

QueryNext == Get \/ List \/ EndQuery \/ Project

QuerySpec == QueryInit /\ [][QueryNext]_queryVars

\* The projection goes on as in InMemoryPipeline; the client need not.
QueryFairSpec == QuerySpec /\ Fairness

-----------------------------------------------------------------------------
(* Properties.                                                             *)

\* Although GetOrderByID reads two tables at two times, an order is never told
\* with more in its row than in its items: count and total are those of some
\* of the items in the answer, and of all of them when it is CONFIRMED.
OrderFitsItsItems ==
    place = "answered" /\ asked.op = "get" =>
        \E S \in SUBSET answer.items :
            /\ answer.view.count = Cardinality(S)
            /\ answer.view.total = TotalAmount(S)
            /\ answer.view.status = "CONFIRMED" => S = answer.items

\* TotalCount and the page are two statements: as orders are never removed and
\* never unconfirmed, the page is not shorter than the count lets one expect.
PageFitsItsCount ==
    place = "answered" /\ asked.op = "list" /\ asked.status # "DRAFT" =>
        LET size == EffectiveSize(asked.size)
            rest == answer.count - (asked.page - 1) * size
        IN Len(answer.page) >= IF rest < size THEN rest ELSE size

\* A client that pages through the orders by created_at sees every order that
\* was there when it began, although orders are inserted in front of it and the
\* offsets of ListOrders shift: they only ever shift to later pages.  It may miss
\* an order only for another that it did see and that was created in the same
\* microsecond: nothing decides between these, and they may change places from
\* page to page.  (Not so for DRAFT orders, which leave the listing, and by
\* total, which changes.)
OnlyTiedOrdersAreMissed ==
    /\ place = "answered" /\ asked.op = "list" /\ ~FullPage
    /\ asked.status # "DRAFT" /\ asked.sort # "total_amount"
    => \A o \in present \ seen : \E p \in seen \ {o} : CreatedAt(p) = CreatedAt(o)
=============================================================================
