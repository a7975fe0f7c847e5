------------------------- MODULE OrderQueries_proofs -------------------------
(***************************************************************************)
(* Proofs about OrderQueries: the answers of the read endpoints for any    *)
(* orders, items and listings, while the one worker of InMemoryPipeline    *)
(* writes between the statements of a query and between the pages of a     *)
(* listing.                                                                *)
(***************************************************************************)
EXTENDS OrderQueries, InMemoryPipeline_proofs

-----------------------------------------------------------------------------
(* Offsets.                                                                *)

\* The divisor of the wrap-around: the size of a powerset.
LEMMA PowerOfTwo ==
  ASSUME NEW n \in Nat
  PROVE  2^n \in Nat \ {0}
<1> DEFINE D == 1..n
<1>1. IsFiniteSet(D) /\ Cardinality(D) = n
  BY FS_Interval
<1>2. IsFiniteSet(SUBSET D) /\ Cardinality(SUBSET D) = 2^Cardinality(D)
  BY <1>1, FS_SUBSET
<1>3. SUBSET D # {}
  OBVIOUS
<1>4. Cardinality(SUBSET D) \in Nat /\ Cardinality(SUBSET D) # 0
  BY <1>2, <1>3, FS_EmptySet, FS_CardinalityType
<1>5. QED
  BY <1>1, <1>2, <1>4

\* A remainder, as the number it is the remainder of grows.
LEMMA Remainder ==
  ASSUME NEW W \in Nat \ {0}, NEW a \in Int, NEW s \in Nat
  PROVE  /\ a % W \in Nat
         /\ a >= 0 => a % W <= a
         /\ (a + s) % W <= (a % W) + s
<1>1. \A x \in Int : /\ x % W \in 0..(W - 1) /\ x \div W \in Int
                     /\ x = (W * (x \div W)) + (x % W)
  OBVIOUS
<1>2. \A k \in Int : k >= 1 => W * k >= W
  OBVIOUS
<1>3. \A k \in Int : k <= -1 => W * k <= -W
  OBVIOUS
<1>4. a >= 0 => a % W <= a
  BY <1>1, <1>3
<1>5. (a + s) % W <= (a % W) + s
  BY <1>1, <1>2
<1>6. QED
  BY <1>1, <1>4, <1>5

\* An offset is no further than the pages before it, and the next one no further
\* than one page on, also when the product has wrapped around.
LEMMA OffsetBounds ==
  ASSUME NEW page \in Nat \ {0}, NEW size \in Nat
  PROVE  /\ Offset(page, size) \in Nat
         /\ Offset(page, size) <= (page - 1) * size
         /\ Offset(page + 1, size) <= Offset(page, size) + size
<1>1. PICK W \in Nat \ {0}, H \in Nat \ {0} : W = 2^IntWidth /\ H = 2^(IntWidth - 1)
  BY PowerOfTwo, ItemAssumption
<1>2. PICK n \in Nat : n = (page - 1) * size
  OBVIOUS
<1>3. ((page + 1) - 1) * size = n + size
  BY <1>2
<1>4. \A x \in Nat : Wrap(x) = ((x + H) % W) - H
  BY <1>1 DEF Wrap
<1>5. ((n + H) % W) \in Nat /\ ((n + H) % W) <= n + H
  BY Remainder
<1>6. (((n + H) + size) % W) \in Nat /\ (((n + H) + size) % W) <= ((n + H) % W) + size
  BY Remainder
<1>7. Wrap(n) \in Int /\ Wrap(n) <= n /\ Wrap(n + size) \in Int /\ Wrap(n + size) <= Wrap(n) + size
  <2>1. (n + size) + H = (n + H) + size
    OBVIOUS
  <2>2. Wrap(n) = ((n + H) % W) - H /\ Wrap(n + size) = (((n + H) + size) % W) - H
    BY <1>4, <2>1
  <2>3. QED
    BY <1>5, <1>6, <2>2
<1>8. Offset(page, size) = IF Wrap(n) < 0 THEN 0 ELSE Wrap(n)
  BY <1>2 DEF Offset
<1>9. Offset(page + 1, size) = IF Wrap(n + size) < 0 THEN 0 ELSE Wrap(n + size)
  BY <1>3 DEF Offset
<1>10. QED
  BY <1>2, <1>7, <1>8, <1>9

\* The page size of an answer.
LEMMA PageSize ==
  ASSUME NEW size \in Int
  PROVE  EffectiveSize(size) \in Nat \ {0}
<1>1. MaxPageSize \in Int => EffectiveSize(size) \in Nat \ {0}
  BY QueryAssumption DEF EffectiveSize
<1>2. QED
  BY <1>1, QueryAssumption DEF EffectiveSize

-----------------------------------------------------------------------------
(* The orders in the read model.                                           *)

\* An order with a view was created by an event of the log.
LEMMA ViewedWasCreated ==
  ASSUME Serial, HistoryInv, NEW o \in Viewed
  PROVE  Creation(o) \in R!EventIds /\ Log[Creation(o)] = NewOrderCreated(o)
<1>1. PICK S \in PP!Reached(o) : views[o] = PP!ViewOf(S)
  BY DEF HistoryInv, PP!HistoryInv, PP!Shown, Viewed
<1>2. S # {}
  BY <1>1, SameProjectionRows DEF PP!ViewOf, Viewed
<1>3. PICK e \in S : e \in P!EventsOf(o)
  <2>1. S \subseteq PP!EventsOf(o)
    BY <1>1, ProjectionAssumptions, PP!ReachedIsPrefix DEF HistoryInv, Viewed
  <2>2. QED
    BY <1>2, <2>1, SameHistory
<1>4. e \in P!LogIds /\ Log[e].order = o
  BY <1>3 DEF P!EventsOf
<1>5. PICK k \in P!LogIds : Log[k] = P!NewOrderCreated(o)
  BY <1>4 DEF Serial, P!SerialLog
<1>6. Log[k] = NewOrderCreated(o) /\ k \in R!EventIds
  BY <1>5, EventNumbers DEF P!NewOrderCreated, NewOrderCreated
<1>7. QED
  BY <1>6 DEF Creation

\* No two orders were created by the same event.
LEMMA CreatedApart ==
  ASSUME Serial, HistoryInv, NEW o \in Viewed, NEW p \in Viewed, Creation(o) = Creation(p)
  PROVE  o = p
<1>1. NewOrderCreated(o) = NewOrderCreated(p)
  BY ViewedWasCreated
<1>2. NewOrderCreated(o).order = o /\ NewOrderCreated(p).order = p
  BY DEF NewOrderCreated
<1>3. QED
  BY <1>1, <1>2

\* So they are finitely many, whatever OrderIds is.
LEMMA ViewedFinite ==
  ASSUME Serial, HistoryInv
  PROVE  IsFiniteSet(Viewed)
<1> DEFINE f == [o \in Viewed |-> Creation(o)]
<1>1. f \in Injection(Viewed, R!EventIds)
  BY ViewedWasCreated, CreatedApart DEF Injection, IsInjective
<1>2. IsFiniteSet(R!EventIds)
  <2>1. R!EventIds = 1..Len(Log) /\ Len(Log) \in Nat
    BY PipelineAssumption DEF R!EventIds
  <2>2. QED
    BY <2>1, FS_Interval
<1>3. QED
  BY <1>1, <1>2, FS_Injection

\* The time of an order with a view.
LEMMA ViewedHasTime ==
  ASSUME Serial, HistoryInv, NEW o \in Viewed
  PROVE  CreatedAt(o) \in Nat
<1>1. Creation(o) \in 1..Len(Log)
  BY ViewedWasCreated DEF R!EventIds
<1>2. QED
  BY <1>1, QueryAssumption DEF CreatedAt

-----------------------------------------------------------------------------
(* What the projection may do under a query.                               *)

\* Items, views and confirmations stay.
LEMMA ReadModelGrows ==
  ASSUME Serial, HistoryInv, HistoryInv', [Next]_vars, NEW o \in OrderIds
  PROVE  /\ itemViews[o] \subseteq itemViews'[o]
         /\ views[o] # P!NoView => views'[o] # P!NoView
         /\ views[o].status = "CONFIRMED" => views'[o].status = "CONFIRMED"
<1>1. [P!Next]_(P!vars)
  BY ProjectionStep DEF HistoryInv, IInv, RP!IInv, vars, projectionVars, P!vars, P!readModel
<1>2. [PP!Next]_(PP!vars)
  BY <1>1, SameProjection, SameProjectionRows
<1>t. /\ itemViews \in [OrderIds -> SUBSET ItemIds]
      /\ views \in [OrderIds -> PP!Views \cup {PP!NoView}]
  BY DEF HistoryInv, IInv, PP!IInv, PP!TypeOK
<1>3. itemViews[o] \subseteq itemViews'[o]
  <2>1. ASSUME NEW c \in Workers, P!WriteItem(c)
        PROVE  itemViews[o] \subseteq itemViews'[o]
    BY <1>t, <2>1 DEF P!WriteItem, P!ReturnError, P!readModel
  <2>2. (\E c \in Workers : P!WriteItem(c)) \/ itemViews' = itemViews
    BY <1>1 DEF P!Next, P!vars, P!readModel, P!Handle, P!Statement, P!CheckProcessed, P!FindView,
         P!WriteView, P!FindItem, P!GetOrder, P!GetItems, P!CountItems, P!UpdateView,
         P!FindMark, P!WriteMark, P!Failure, P!CountFails, P!StatementFails, P!Return, P!Abort,
         P!Leave, P!ReturnError
  <2>3. QED
    BY <2>1, <2>2
<1>4. CASE views' = views
  BY <1>3, <1>4
<1>5. ASSUME NEW p \in OrderIds, NEW e \in PP!EventsOf(p),
             views[p] = PP!ViewOf(PP!Done(p)),
             views' = [views EXCEPT ![p] = PP!ViewOf(PP!Done(p) \cup {e})]
      PROVE  /\ views[o] # P!NoView => views'[o] # P!NoView
             /\ views[o].status = "CONFIRMED" => views'[o].status = "CONFIRMED"
  <2>1. CASE o # p
    BY <1>t, <1>5, <2>1
  <2>2. CASE o = p
    <3>1. PICK D, A : D = PP!Done(p) /\ A = PP!Done(p) \cup {e}
      OBVIOUS
    <3>2. D \in SUBSET PP!LogIds /\ A \in SUBSET PP!LogIds /\ A # {}
      BY <1>5, <3>1 DEF PP!Done, PP!EventsOf
    <3>3. views[o] = PP!ViewOf(D) /\ views'[o] = PP!ViewOf(A)
      BY <1>t, <1>5, <2>2, <3>1
    <3>4. PP!ViewOf(A) # PP!NoView
          /\ PP!ViewOf(A).status = IF \E x \in A : Log[x].type = "OrderConfirmed"
                                   THEN "CONFIRMED" ELSE "DRAFT"
      BY <3>2, ProjectionAssumptions, PP!ViewAfterEvent
    <3>5. CASE D = {}
      <4>1. PP!ViewOf(D).status # "CONFIRMED"
        BY <3>5 DEF PP!ViewOf, PP!NoView
      <4>2. QED
        BY <3>3, <3>4, <4>1, SameProjectionRows
    <3>6. CASE D # {}
      <4>1. PP!ViewOf(D).status = IF \E x \in D : Log[x].type = "OrderConfirmed"
                                  THEN "CONFIRMED" ELSE "DRAFT"
        BY <3>2, <3>6, ProjectionAssumptions, PP!ViewAfterEvent
      <4>2. D \subseteq A
        BY <3>1
      <4>3. QED
        BY <3>3, <3>4, <4>1, <4>2, SameProjectionRows
    <3>7. QED
      BY <3>5, <3>6
  <2>3. QED
    BY <2>1, <2>2
<1>6. QED
  <2>1. PP!Orderly
    BY SerialIsOrderly
  <2>2. \/ views' = views
        \/ \E p \in OrderIds : \E e \in PP!EventsOf(p) :
              /\ PP!IsNext(e)
              /\ views[p] = PP!ViewOf(PP!Done(p))
              /\ views' = [views EXCEPT ![p] = PP!ViewOf(PP!Done(p) \cup {e})]
    BY <1>2, <2>1, ProjectionAssumptions, PP!ViewsAdvance DEF HistoryInv
  <2>3. QED
    BY <1>3, <1>4, <1>5, <2>2

\* No order leaves a listing, except one of DRAFT orders.
LEMMA MatchingGrows ==
  ASSUME Serial, HistoryInv, HistoryInv', [Next]_vars, NEW status \in {"", "CONFIRMED"}
  PROVE  Matching(status) \subseteq Matching(status)'
<1>1. /\ \A o \in OrderIds : views[o] # P!NoView => views'[o] # P!NoView
      /\ \A o \in OrderIds : views[o].status = "CONFIRMED" => views'[o].status = "CONFIRMED"
  BY ReadModelGrows
<1>2. P!NoView' = P!NoView
  BY DEF P!NoView
<1>3. QED
  BY <1>1, <1>2 DEF Matching, Viewed

\* They are finitely many, before a step and after it.
LEMMA MatchingFinite ==
  ASSUME Serial, HistoryInv, NEW status
  PROVE  IsFiniteSet(Matching(status)) /\ Cardinality(Matching(status)) \in Nat
<1>1. Matching(status) \in SUBSET Viewed
  BY DEF Matching
<1>2. QED
  BY <1>1, ViewedFinite, FS_Subset, FS_CardinalityType

LEMMA MatchingStaysFinite ==
  ASSUME Serial, HistoryInv, HistoryInv', [Next]_vars, NEW status
  PROVE  IsFiniteSet(Matching(status)') /\ Cardinality(Matching(status)') \in Nat
<1>1. PICK p : \A o \in OrderIds : o # p => views'[o] = views[o]
  <2>1. [PP!Next]_(PP!vars)
    <3>1. [P!Next]_(P!vars)
      BY ProjectionStep DEF HistoryInv, IInv, RP!IInv, vars, projectionVars, P!vars, P!readModel
    <3>2. QED
      BY <3>1, SameProjection, SameProjectionRows
  <2>2. views \in [OrderIds -> PP!Views \cup {PP!NoView}]
    BY DEF HistoryInv, IInv, PP!IInv, PP!TypeOK
  <2>3. \/ views' = views
        \/ \E p \in OrderIds : \E e \in PP!EventsOf(p) :
              /\ PP!IsNext(e)
              /\ views[p] = PP!ViewOf(PP!Done(p))
              /\ views' = [views EXCEPT ![p] = PP!ViewOf(PP!Done(p) \cup {e})]
    BY <2>1, SerialIsOrderly, ProjectionAssumptions, PP!ViewsAdvance DEF HistoryInv
  <2>4. QED
    BY <2>2, <2>3
<1>2. P!NoView' = P!NoView
  BY DEF P!NoView
<1>3. Matching(status)' \in SUBSET (Viewed \cup {p})
  BY <1>1, <1>2 DEF Matching, Viewed
<1>4. QED
  BY <1>3, ViewedFinite, FS_AddElement, FS_Subset, FS_CardinalityType

-----------------------------------------------------------------------------
(* What the client has been told so far.                                   *)

Queries ==
    [op : {"list"}, page : Nat \ {0}, status : {"", "DRAFT", "CONFIRMED"},
     sort : {"created_at", "total_amount", "other"}, dir : {"asc", "desc"}, size : Int]

\* What a row says of its order is still true of the items, which only get more.
RowFits(view, o) ==
    \E S \in SUBSET itemViews[o] :
        /\ view.count = Cardinality(S)
        /\ view.total = TotalAmount(S)
        /\ view.status = "CONFIRMED" => S = P!ItemsIn(P!EventsOf(o))

GetInv ==
    /\ place = "idle" => answer = NoAnswer
    /\ place = "items" =>
           /\ asked.op = "get" /\ asked.order \in OrderIds
           /\ answer = [NoAnswer EXCEPT !.view = answer.view]
           /\ RowFits(answer.view, asked.order)
    /\ OrderFitsItsItems

\* A listing is being answered.
IsListing == place = "page" \/ (place = "answered" /\ asked.op = "list")

\* The rows that were counted are still there.
PageInv ==
    /\ IsListing => asked \in Queries
    /\ place = "page" =>
           /\ answer = [NoAnswer EXCEPT !.count = answer.count] /\ answer.count \in Nat
           /\ asked.status # "DRAFT" => answer.count <= Cardinality(Matching(asked.status))
    /\ PageFitsItsCount

\* No order leaves the listing, and its rows keep their order.
IsSteady == IsListing /\ asked.status # "DRAFT" /\ asked.sort # "total_amount"

\* The orders that come before o.
Ahead(l, o) == {p \in Matching(l.status) : Precedes(l, p, o)}

\* The rows that the pages so far may have shown.
Passed == Offset(asked.page, EffectiveSize(asked.size))
            + IF place = "page" THEN 0 ELSE EffectiveSize(asked.size)

\* An order of the same time was seen.
TieSeen(o) == \E p \in seen \ {o} : CreatedAt(p) = CreatedAt(o)

\* An order that is still to be seen, and for which no other was, is still to come.
ListingInv ==
    IsSteady =>
        /\ present \subseteq Matching(asked.status)
        /\ \A o \in present \ seen : TieSeen(o) \/ Cardinality(Ahead(asked, o)) >= Passed
        /\ OnlyTiedOrdersAreMissed

ClientInv ==
    /\ place \in {"idle", "items", "page", "answered"}
    /\ GetInv /\ PageInv /\ ListingInv

-----------------------------------------------------------------------------
(* Getting an order.                                                       *)

LEMMA RowFitsNow ==
  ASSUME Serial, HistoryInv, NEW o \in Viewed
  PROVE  RowFits(views[o], o)
<1>1. PICK S \in PP!Reached(o), T \in PP!Reached(o) :
         S \subseteq T /\ views[o] = PP!ViewOf(S) /\ itemViews[o] = PP!ItemsIn(T)
  BY DEF HistoryInv, PP!HistoryInv, PP!Shown, Viewed
<1>2. S \subseteq P!EventsOf(o) /\ \A e \in S : \A d \in P!EventsOf(o) : d < e => d \in S
  BY ProjectionAssumptions, PP!ReachedIsPrefix, SameHistory DEF HistoryInv, Viewed
<1>3. views[o] = P!ViewOf(S) /\ itemViews[o] = P!ItemsIn(T) /\ S # {}
  BY <1>1, SameHistory, SameProjectionRows DEF P!ViewOf, Viewed
<1>4. P!ItemsIn(S) \in SUBSET itemViews[o]
  BY <1>1, <1>3 DEF P!ItemsIn
<1>5. /\ views[o].count = Cardinality(P!ItemsIn(S))
      /\ views[o].total = TotalAmount(P!ItemsIn(S))
  <2>1. \A X : P!Cardinality(X) = Cardinality(X)
    BY Zenon DEF P!Cardinality, Cardinality
  <2>2. QED
    BY <1>3, <2>1, SameTotals DEF P!ViewOf
<1>6. ASSUME views[o].status = "CONFIRMED"
      PROVE  S = P!EventsOf(o)
  <2>1. PICK e \in S : Log[e].type = "OrderConfirmed"
    BY <1>3, <1>6 DEF P!ViewOf
  <2>2. ASSUME NEW d \in P!EventsOf(o)
        PROVE  d \in S
    <3>1. d \in P!LogIds /\ e \in P!EventsOf(o) /\ Log[d].order = o /\ d \in Nat /\ e \in Nat
      BY <1>2, EventNumbers DEF P!EventsOf
    <3>2. ~(e < d)
      BY <2>1, <3>1 DEF Serial, P!SerialLog
    <3>3. d < e \/ d = e
      BY <3>1, <3>2
    <3>4. QED
      BY <1>2, <3>3
  <2>3. QED
    BY <1>2, <2>2
<1>7. QED
  BY <1>4, <1>5, <1>6 DEF RowFits

LEMMA RowFitsStays ==
  ASSUME Serial, HistoryInv, HistoryInv', [Next]_vars,
         NEW view, NEW o \in OrderIds, RowFits(view, o)
  PROVE  RowFits(view, o)'
<1>1. itemViews[o] \subseteq itemViews'[o]
  BY ReadModelGrows
<1>2. P!ItemsIn(P!EventsOf(o))' = P!ItemsIn(P!EventsOf(o))
  BY DEF P!ItemsIn, P!EventsOf, P!LogIds
<1>3. QED
  BY <1>1, <1>2 DEF RowFits

\* The items that are read after the row are those of the row, or more.
LEMMA ItemsFitRow ==
  ASSUME Serial, HistoryInv, NEW view, NEW o \in OrderIds, RowFits(view, o)
  PROVE  \E S \in SUBSET itemViews[o] :
            /\ view.count = Cardinality(S)
            /\ view.total = TotalAmount(S)
            /\ view.status = "CONFIRMED" => S = itemViews[o]
<1>1. itemViews[o] \subseteq P!ItemsIn(P!EventsOf(o))
  BY SameHistory DEF HistoryInv, PP!HistoryInv, PP!TotalsInv, PP!ItemsAreLogged
<1>2. QED
  BY <1>1 DEF RowFits

\* The steps of the client, and those of the pipeline.
LEMMA ClientSteps ==
  ASSUME [QueryNext]_queryVars
  PROVE  /\ [Next]_vars
         /\ \/ UNCHANGED clientVars
            \/ /\ UNCHANGED vars
               /\ StartGet \/ ReadRest \/ StartList \/ SelectPage \/ NextPage \/ EndQuery
<1>1. CASE UNCHANGED queryVars
  BY <1>1 DEF queryVars
<1>2. CASE Project
  BY <1>2 DEF Project
<1>3. CASE Get \/ List \/ EndQuery
  <2>1. StartGet \/ ReadRest \/ StartList \/ SelectPage \/ NextPage \/ EndQuery
    BY <1>3 DEF Get, List
  <2>2. UNCHANGED vars
    BY <2>1 DEF StartGet, ReadRest, StartList, SelectPage, NextPage, EndQuery
  <2>3. QED
    BY <2>1, <2>2
<1>4. QED
  BY <1>1, <1>2, <1>3 DEF QueryNext

LEMMA NextGetInv ==
  ASSUME Serial, HistoryInv, HistoryInv', ClientInv, [QueryNext]_queryVars
  PROVE  place' \in {"idle", "items", "page", "answered"} /\ GetInv'
<1>p. place \in {"idle", "items", "page", "answered"} /\ GetInv /\ PageInv
  BY DEF ClientInv
<1>v. UNCHANGED vars => UNCHANGED <<views, itemViews>>
  BY DEF vars, projectionVars
<1>n. NoAnswer' = NoAnswer /\ NoAnswer = [view |-> P!NoView, items |-> {}, count |-> 0, page |-> <<>>]
  BY DEF NoAnswer, P!NoView
<1>1. CASE UNCHANGED clientVars
  <2>1. UNCHANGED <<asked, place, answer>>
    BY <1>1 DEF clientVars
  <2>2. ASSUME place = "items"
        PROVE  RowFits(answer.view, asked.order)'
    <3>o. PICK o \in OrderIds : o = asked.order
      BY <1>p, <2>2 DEF GetInv
    <3>1. PICK view : view = answer.view /\ o = asked.order
      BY <3>o
    <3>2. RowFits(view, o)
      BY <1>p, <2>2, <3>1 DEF GetInv
    <3>3. RowFits(view, o)'
      BY <3>2, RowFitsStays, ClientSteps
    <3>4. view = answer'.view /\ o = asked'.order
      BY <2>1, <3>1
    <3>5. QED
      BY <3>3, <3>4 DEF RowFits
  <2>3. QED
    BY <1>p, <1>n, <2>1, <2>2 DEF GetInv, OrderFitsItsItems
<1>2. CASE UNCHANGED vars /\ StartGet
  <2>1. PICK o \in Viewed : /\ asked' = [op |-> "get", order |-> o]
                            /\ answer' = Told(GetOrderByID[1], o)
    BY <1>2 DEF StartGet
  <2>2. place' = "items" /\ answer' = Told("view", o)
    BY <1>2, <2>1 DEF StartGet, GetOrderByID
  <2>3. answer' = [answer EXCEPT !.view = views[o]]
    BY <2>2 DEF Told
  <2>4. /\ answer' = [NoAnswer EXCEPT !.view = views[o]]
        /\ answer'.view = views[o]
    BY <1>2, <1>n, <1>p, <2>3 DEF StartGet, GetInv
  <2>5. RowFits(views[o], o)'
    <3>1. RowFits(views[o], o)
      BY RowFitsNow
    <3>2. QED
      BY <1>2, <1>v, <3>1 DEF RowFits, P!ItemsIn, P!EventsOf, P!LogIds
  <2>6. RowFits(answer.view, asked.order)'
    <3>1. asked'.order = o /\ answer'.view = views'[o]
      BY <1>2, <1>v, <2>1, <2>4
    <3>2. QED
      BY <2>5, <3>1 DEF RowFits
  <2>7. asked'.op = "get" /\ asked'.order \in OrderIds
    BY <2>1 DEF Viewed
  <2>8. QED
    BY <1>n, <2>2, <2>4, <2>6, <2>7 DEF GetInv, OrderFitsItsItems
<1>3. CASE UNCHANGED vars /\ ReadRest
  <2>1. /\ place = "items" /\ place' = "answered" /\ asked' = asked
        /\ answer' = [answer EXCEPT !.items = itemViews[asked.order]]
    BY <1>p, <1>3 DEF ReadRest, Told
  <2>o. PICK o \in OrderIds : o = asked.order
    BY <1>p, <2>1 DEF GetInv
  <2>2. PICK view : view = answer.view /\ o = asked.order /\ RowFits(view, o)
    BY <1>p, <2>1, <2>o DEF GetInv
  <2>3. answer = [view |-> view, items |-> {}, count |-> 0, page |-> <<>>]
    BY <1>p, <1>n, <2>1, <2>2 DEF GetInv
  <2>4. answer'.view = view /\ answer'.items = itemViews[o]
    BY <2>1, <2>2, <2>3
  <2>5. OrderFitsItsItems'
    BY <2>2, <2>4, ItemsFitRow DEF OrderFitsItsItems
  <2>6. QED
    BY <2>1, <2>5 DEF GetInv
<1>4. CASE UNCHANGED vars /\ (StartList \/ NextPage)
  BY <1>4 DEF StartList, NextPage, CountMatching, GetInv, OrderFitsItsItems
<1>5. CASE UNCHANGED vars /\ SelectPage
  <2>1. place' = "answered" /\ asked' = asked /\ asked.op = "list"
    BY <1>p, <1>5 DEF SelectPage, PageInv, IsListing, Queries
  <2>2. QED
    BY <2>1 DEF GetInv, OrderFitsItsItems
<1>6. CASE UNCHANGED vars /\ EndQuery
  BY <1>6 DEF EndQuery, GetInv, OrderFitsItsItems
<1>7. QED
  BY <1>1, <1>2, <1>3, <1>4, <1>5, <1>6, ClientSteps

-----------------------------------------------------------------------------
(* Listing orders.                                                         *)

\* The query of a first page, and that of the next.
LEMMA FirstQuery ==
  ASSUME NEW l \in Listings
  PROVE  [op |-> "list", page |-> 1, status |-> l.status, sort |-> l.sort,
          dir |-> l.dir, size |-> l.size] \in Queries
<1>1. /\ l.status \in {"", "DRAFT", "CONFIRMED"} /\ l.sort \in {"created_at", "total_amount", "other"}
      /\ l.dir \in {"asc", "desc"} /\ l.size \in Int
  BY QueryAssumption DEF ListingFilters
<1>2. 1 \in Nat \ {0} /\ "list" \in {"list"}
  OBVIOUS
<1>3. QED
  BY <1>1, <1>2, Zenon DEF Queries

LEMMA NextQuery ==
  ASSUME NEW q \in Queries
  PROVE  LET r == [q EXCEPT !.page = q.page + 1]
         IN  /\ r \in Queries /\ r.page = q.page + 1
             /\ r.status = q.status /\ r.sort = q.sort /\ r.dir = q.dir /\ r.size = q.size
<1> DEFINE r == [q EXCEPT !.page = q.page + 1]
<1>1. q.page \in Nat \ {0}
  BY DEF Queries
<1>2. PICK n \in Nat \ {0} : n = q.page + 1
  BY <1>1
<1>3. r = [q EXCEPT !.page = n]
  BY <1>2
<1>4. r \in Queries
  BY <1>3, Zenon DEF Queries
<1>5. DOMAIN q = {"op", "page", "status", "sort", "dir", "size"}
  BY DEF Queries
<1>6. r.page = n /\ r.status = q.status /\ r.sort = q.sort /\ r.dir = q.dir /\ r.size = q.size
  BY <1>3, <1>5
<1>7. QED
  BY <1>2, <1>4, <1>6

\* The rows of a statement are the orders, each of them once.
LEMMA RowsOfListing ==
  ASSUME NEW l, NEW M, IsFiniteSet(M), NEW s \in Sorted(l, M)
  PROVE  /\ s \in Seq(M) /\ Len(s) = Cardinality(M) /\ Len(s) \in Nat
         /\ DOMAIN s = 1..Len(s)
         /\ \A i, j \in 1..Len(s) : i # j => s[i] # s[j]
         /\ \A o \in M : \E i \in 1..Len(s) : s[i] = o
<1>1. Cardinality(M) \in Nat
  BY FS_CardinalityType
<1>2. PICK n \in Nat : n = Cardinality(M)
  BY <1>1
<1>3. s \in [1..n -> M] /\ \A i, j \in 1..n : i # j => s[i] # s[j]
  BY <1>2 DEF Sorted, SetToSeqs
<1>4. s \in Seq(M) /\ Len(s) = n /\ DOMAIN s = 1..n
  BY <1>3
<1>5. s \in Injection(1..n, M)
  BY <1>3 DEF Injection, IsInjective
<1>6. Cardinality(1..n) = n
  BY FS_Interval
<1>7. s \in Surjection(1..n, M)
  BY <1>2, <1>5, <1>6, FS_Injection
<1>8. \A o \in M : \E i \in 1..n : s[i] = o
  BY <1>7 DEF Surjection
<1>9. QED
  BY <1>2, <1>3, <1>4, <1>8

\* A page of them, the rows from the offset to the last.
LEMMA RowsOfPage ==
  ASSUME NEW M, NEW s \in Seq(M), NEW offset \in Nat,
         NEW last \in Nat, last <= Len(s),
         NEW page, page = SubSeq(s, offset + 1, last)
  PROVE  /\ Len(page) = IF last < offset THEN 0 ELSE last - offset
         /\ \A i \in (offset + 1)..last : s[i] \in Range(page)
<1>1. Len(s) \in Nat /\ last <= Len(s)
  OBVIOUS
<1>2. CASE last <= offset
  BY <1>1, <1>2
<1>3. CASE last > offset
  <2>1. /\ Len(page) = last - offset
        /\ DOMAIN page = 1..(last - offset)
        /\ \A i \in 1..(last - offset) : page[i] = s[offset + i]
    BY <1>1, <1>3
  <2>2. ASSUME NEW i \in (offset + 1)..last
        PROVE  s[i] \in Range(page)
    <3>1. (i - offset) \in DOMAIN page /\ page[i - offset] = s[i]
      BY <2>1
    <3>2. QED
      BY <3>1 DEF Range
  <2>3. QED
    BY <1>3, <2>1, <2>2
<1>4. QED
  BY <1>1, <1>2, <1>3

\* The offset and the length of a page, against what was counted.
LEMMA PageLength ==
  ASSUME NEW before \in Nat, NEW offset \in Nat, offset <= before,
         NEW size \in Nat \ {0}, NEW n \in Nat, NEW count \in Nat, count <= n,
         NEW last \in Nat,
         last = IF (offset + 1) + size - 1 < n THEN (offset + 1) + size - 1 ELSE n
  PROVE  (IF last < offset THEN 0 ELSE last - offset)
            >= IF count - before < size THEN count - before ELSE size
  OBVIOUS

LEMMA NextPageInv ==
  ASSUME Serial, HistoryInv, HistoryInv', ClientInv, [QueryNext]_queryVars
  PROVE  PageInv'
<1>p. GetInv /\ PageInv /\ place \in {"idle", "items", "page", "answered"}
  BY DEF ClientInv
<1>s. [Next]_vars
  BY ClientSteps
<1>n. NoAnswer' = NoAnswer /\ NoAnswer = [view |-> P!NoView, items |-> {}, count |-> 0, page |-> <<>>]
  BY DEF NoAnswer, P!NoView
<1>m. ASSUME UNCHANGED vars
      PROVE  \A status : Matching(status)' = Matching(status)
  BY <1>m DEF vars, projectionVars, Matching, Viewed, P!NoView
<1>1. CASE UNCHANGED clientVars
  <2>1. UNCHANGED <<asked, place, answer>>
    BY <1>1 DEF clientVars
  <2>2. ASSUME place = "page", asked.status # "DRAFT"
        PROVE  answer.count <= Cardinality(Matching(asked.status)')
    <3>1. asked.status \in {"", "CONFIRMED"}
      BY <1>p, <2>2 DEF PageInv, IsListing, Queries
    <3>2. PICK status : status = asked.status /\ status \in {"", "CONFIRMED"}
      BY <3>1
    <3>3. PICK M, N : M = Matching(status) /\ N = Matching(status)'
      OBVIOUS
    <3>4. /\ IsFiniteSet(N) /\ M \in SUBSET N
          /\ Cardinality(M) \in Nat /\ Cardinality(N) \in Nat
      <4>1. M \subseteq N
        BY <1>s, <3>2, <3>3, MatchingGrows, Zenon
      <4>2. QED
        BY <1>s, <3>3, <4>1, MatchingFinite, MatchingStaysFinite
    <3>5. Cardinality(M) <= Cardinality(N)
      BY <3>4, FS_Subset
    <3>6. answer.count <= Cardinality(M) /\ answer.count \in Nat
      BY <1>p, <2>2, <3>2, <3>3 DEF PageInv
    <3>7. answer.count <= Cardinality(N)
      BY <3>4, <3>5, <3>6
    <3>8. N = Matching(asked.status)'
      BY <2>1, <3>2, <3>3 DEF Matching
    <3>9. QED
      BY <3>7, <3>8
  <2>3. QED
    BY <1>p, <1>n, <2>1, <2>2 DEF PageInv, IsListing, PageFitsItsCount
<1>2. CASE UNCHANGED vars /\ (StartGet \/ EndQuery)
  BY <1>2 DEF StartGet, EndQuery, GetOrderByID, PageInv, IsListing, PageFitsItsCount
<1>3. CASE UNCHANGED vars /\ ReadRest
  <2>1. place' = "answered" /\ asked' = asked /\ asked.op = "get"
    BY <1>p, <1>3 DEF ReadRest, GetInv
  <2>2. QED
    BY <2>1 DEF PageInv, IsListing, PageFitsItsCount
<1>4. ASSUME UNCHANGED vars, NEW status, CountMatching(status),
             asked' \in Queries, asked'.status = status
      PROVE  PageInv'
  <2>1. Cardinality(Matching(status)) \in Nat
    BY MatchingFinite
  <2>2. answer' = [NoAnswer EXCEPT !.count = Cardinality(Matching(status))] /\ place' = "page"
    BY <1>4 DEF CountMatching
  <2>3. answer'.count = Cardinality(Matching(status))
    BY <1>n, <2>2
  <2>4. Matching(asked.status)' = Matching(status)
    BY <1>m, <1>4 DEF Matching
  <2>5. QED
    BY <1>n, <1>4, <2>1, <2>2, <2>3, <2>4 DEF PageInv, IsListing, PageFitsItsCount
<1>5. CASE UNCHANGED vars /\ StartList
  <2>1. PICK l \in Listings :
           /\ asked' = [op |-> "list", page |-> 1, status |-> l.status, sort |-> l.sort,
                        dir |-> l.dir, size |-> l.size]
           /\ CountMatching(l.status)
    BY <1>5 DEF StartList
  <2>2. asked' \in Queries /\ asked'.status = l.status
    BY <2>1, FirstQuery
  <2>3. QED
    BY <1>4, <1>5, <2>1, <2>2
<1>6. CASE UNCHANGED vars /\ NextPage
  <2>1. PICK q \in Queries : q = asked
    BY <1>p, <1>6 DEF NextPage, PageInv, IsListing
  <2>2. asked' = [q EXCEPT !.page = q.page + 1] /\ CountMatching(q.status)
    BY <1>6, <2>1 DEF NextPage
  <2>3. asked' \in Queries /\ asked'.status = q.status
    BY <2>2, NextQuery
  <2>4. QED
    BY <1>4, <1>6, <2>2, <2>3
<1>7. CASE UNCHANGED vars /\ SelectPage
  <2>1. PICK q \in Queries : q = asked
    BY <1>p, <1>7 DEF SelectPage, PageInv, IsListing
  <2>2. PICK size, offset : size = EffectiveSize(q.size) /\ offset = Offset(q.page, size)
    OBVIOUS
  <2>3. PICK M : M = Matching(q.status)
    OBVIOUS
  <2>s. PICK s \in Sorted(q, M) :
           answer' = [answer EXCEPT !.page =
              SubSeq(s, offset + 1, IF (offset + 1) + size - 1 < Len(s)
                                    THEN (offset + 1) + size - 1 ELSE Len(s))]
    BY <1>7, <2>1, <2>2, <2>3 DEF SelectPage
  <2>4. PICK last :
           /\ last = IF (offset + 1) + size - 1 < Len(s) THEN (offset + 1) + size - 1 ELSE Len(s)
           /\ answer' = [answer EXCEPT !.page = SubSeq(s, offset + 1, last)]
    BY <2>s
  <2>5. asked' = q /\ place' = "answered"
    BY <1>7, <2>1 DEF SelectPage
  <2>6. IsFiniteSet(M) /\ Cardinality(M) \in Nat
    BY <2>3, MatchingFinite
  <2>7. q.page \in Nat \ {0} /\ q.size \in Int
    BY DEF Queries
  <2>8. size \in Nat \ {0}
    BY <2>2, <2>7, PageSize
  <2>9. offset \in Nat /\ offset <= (q.page - 1) * size
    BY <2>2, <2>7, <2>8, OffsetBounds
  <2>10. s \in Seq(M) /\ Len(s) = Cardinality(M) /\ Len(s) \in Nat
    BY <2>6, RowsOfListing
  <2>11. last \in Nat
    BY <2>4, <2>8, <2>9, <2>10
  <2>12. Len(SubSeq(s, offset + 1, last)) = IF last < offset THEN 0 ELSE last - offset
    <3>1. PICK page : page = SubSeq(s, offset + 1, last)
      OBVIOUS
    <3>2. last <= Len(s)
      BY <2>4, <2>8, <2>9, <2>10
    <3>3. Len(page) = IF last < offset THEN 0 ELSE last - offset
      BY <2>9, <2>10, <2>11, <3>1, <3>2, RowsOfPage
    <3>4. QED
      BY <3>1, <3>3
  <2>13. answer'.page = SubSeq(s, offset + 1, last) /\ answer'.count = answer.count
    <3>1. answer = [view |-> P!NoView, items |-> {}, count |-> answer.count, page |-> <<>>]
      BY <1>p, <1>n, <1>7 DEF PageInv, SelectPage
    <3>2. QED
      BY <2>4, <3>1
  <2>14. q.status # "DRAFT" => answer.count \in Nat /\ answer.count <= Len(s)
    BY <1>p, <1>7, <2>1, <2>3, <2>10 DEF PageInv, SelectPage
  <2>15. PICK before \in Nat : before = (q.page - 1) * size
    BY <2>7, <2>8
  <2>16. ASSUME q.status # "DRAFT"
         PROVE  Len(answer'.page) >= IF answer'.count - before < size
                                     THEN answer'.count - before ELSE size
    <3>1. PICK n, count : n = Len(s) /\ count = answer.count
      OBVIOUS
    <3>2. count \in Nat /\ n \in Nat /\ count <= n /\ offset <= before
      BY <2>9, <2>10, <2>14, <2>15, <2>16, <3>1
    <3>3. last = IF (offset + 1) + size - 1 < n THEN (offset + 1) + size - 1 ELSE n
      BY <2>4, <3>1
    <3>4. (IF last < offset THEN 0 ELSE last - offset)
            >= IF count - before < size THEN count - before ELSE size
      BY <2>8, <2>9, <2>11, <2>15, <3>2, <3>3, PageLength
    <3>5. answer'.count = count /\ Len(answer'.page) = IF last < offset THEN 0 ELSE last - offset
      BY <2>12, <2>13, <3>1
    <3>6. QED
      BY <3>4, <3>5
  <2>17. PageFitsItsCount'
    BY <2>2, <2>5, <2>15, <2>16 DEF PageFitsItsCount, EffectiveSize
  <2>18. QED
    BY <2>5, <2>17 DEF PageInv, IsListing
<1>8. QED
  BY <1>1, <1>2, <1>3, <1>5, <1>6, <1>7, ClientSteps

\* Paging by created_at, up or down, which no step changes.
Sooner(l, o, p) ==
    IF l.sort = "created_at" /\ l.dir = "asc" THEN CreatedAt(o) < CreatedAt(p)
                                              ELSE CreatedAt(o) > CreatedAt(p)

LEMMA PrecedesByTime ==
  ASSUME NEW l, l.sort # "total_amount"
  PROVE  \A o, p : /\ Precedes(l, o, p) <=> Sooner(l, o, p)
                   /\ Precedes(l, o, p)' <=> Sooner(l, o, p)
<1>1. ASSUME NEW o, NEW p
      PROVE  Precedes(l, o, p) <=> Sooner(l, o, p)
  BY DEF Precedes, Sooner
<1>2. ASSUME NEW o, NEW p
      PROVE  Precedes(l, o, p)' <=> Sooner(l, o, p)
  BY DEF Precedes, Sooner
<1>3. QED
  BY <1>1, <1>2

\* The first row that does not come before an order has the time of the order:
\* it is the order itself or one that is tied with it.
LEMMA PlaceOfRow ==
  ASSUME Serial, HistoryInv, NEW l, l.sort # "total_amount",
         NEW s \in Sorted(l, Matching(l.status)), NEW o \in Matching(l.status)
  PROVE  LET n == Cardinality(Ahead(l, o)) + 1
         IN  n \in 1..Len(s) /\ CreatedAt(s[n]) = CreatedAt(o)
<1>1. PICK M : M = Matching(l.status)
  OBVIOUS
<1>2. IsFiniteSet(M) /\ M \subseteq Viewed /\ o \in M
  BY <1>1, MatchingFinite DEF Matching
<1>3. /\ Len(s) \in Nat /\ DOMAIN s = 1..Len(s)
      /\ \A j \in 1..Len(s) : s[j] \in M
      /\ \A j, k \in 1..Len(s) : j # k => s[j] # s[k]
      /\ \A p \in M : \E j \in 1..Len(s) : s[j] = p
  <2>1. s \in Sorted(l, M)
    BY <1>1
  <2>2. /\ s \in Seq(M) /\ Len(s) \in Nat /\ DOMAIN s = 1..Len(s)
        /\ \A j, k \in 1..Len(s) : j # k => s[j] # s[k]
        /\ \A p \in M : \E j \in 1..Len(s) : s[j] = p
    BY <1>2, <2>1, RowsOfListing
  <2>3. \A j \in 1..Len(s) : s[j] \in M
    BY <2>2
  <2>4. QED
    BY <2>2, <2>3
<1>4. \A j, k \in 1..Len(s) : j < k => ~Sooner(l, s[k], s[j])
  BY <1>3, PrecedesByTime DEF Sorted
<1>5. PICK i \in 1..Len(s) : s[i] = o
  BY <1>2, <1>3
<1>6. \A p \in M : CreatedAt(p) \in Nat
  BY <1>2, ViewedHasTime
<1> DEFINE J == {j \in 1..Len(s) : Sooner(l, s[j], o)}
           f == [j \in J |-> s[j]]
<1>7. J \subseteq 1..(i - 1)
  <2>1. ASSUME NEW j \in J
        PROVE  j < i
    <3>1. ~(i < j)
      BY <1>4, <1>5
    <3>2. i # j
      BY <1>2, <1>5, <1>6 DEF Sooner
    <3>3. QED
      BY <1>3, <3>1, <3>2
  <2>2. QED
    BY <1>3, <2>1
<1>8. \A j \in J : \A k \in 1..Len(s) : k < j => k \in J
  <2>1. ASSUME NEW j \in J, NEW k \in 1..Len(s), k < j
        PROVE  Sooner(l, s[k], o)
    <3>1. ~Sooner(l, s[j], s[k]) /\ Sooner(l, s[j], o)
      BY <1>4, <2>1
    <3>2. CreatedAt(s[j]) \in Nat /\ CreatedAt(s[k]) \in Nat /\ CreatedAt(o) \in Nat
      BY <1>2, <1>3, <1>6
    <3>3. QED
      BY <3>1, <3>2 DEF Sooner
  <2>2. QED
    BY <2>1
<1>9. Ahead(l, o) = {p \in M : Sooner(l, p, o)}
  BY <1>1, PrecedesByTime DEF Ahead
<1>10. f \in Bijection(J, Ahead(l, o))
  BY <1>3, <1>9 DEF Bijection, Injection, Surjection, IsInjective
<1>11. \A n \in Nat : IsFiniteSet(1..n) /\ Cardinality(1..n) = n
  <2>1. ASSUME NEW n \in Nat
        PROVE  IsFiniteSet(1..n) /\ Cardinality(1..n) = n
    BY FS_Interval
  <2>2. QED
    BY <2>1
<1>12. PICK D, A : D = J /\ A = Ahead(l, o)
  OBVIOUS
<1>13. i - 1 \in Nat /\ IsFiniteSet(1..(i - 1)) /\ Cardinality(1..(i - 1)) = i - 1
  BY <1>3, <1>11
<1>14. IsFiniteSet(D) /\ Cardinality(D) <= i - 1 /\ Cardinality(D) \in Nat
  BY <1>7, <1>12, <1>13, FS_Subset, FS_CardinalityType
<1>15. Cardinality(A) = Cardinality(D)
  <2>1. ExistsBijection(D, A)
    BY <1>10, <1>12 DEF ExistsBijection
  <2>2. QED
    BY <1>14, <2>1, FS_Bijection
<1>16. PICK a \in Nat : a = Cardinality(D)
  BY <1>14
<1>17. a + 1 \in 1..Len(s) /\ a + 1 <= i
  BY <1>3, <1>14, <1>16
<1>18. a + 1 \notin J
  <2>1. SUFFICES ASSUME a + 1 \in J PROVE FALSE
    OBVIOUS
  <2>2. 1..(a + 1) \subseteq D
    BY <1>3, <1>8, <1>12, <1>17, <2>1
  <2>3. Cardinality(1..(a + 1)) = a + 1
    BY <1>11
  <2>4. a + 1 <= a
    BY <1>14, <1>16, <2>2, <2>3, FS_Subset
  <2>5. QED
    BY <2>4
<1>19. ~Sooner(l, s[a + 1], o)
  BY <1>17, <1>18
<1>20. ~Sooner(l, o, s[a + 1])
  <2>1. CASE a + 1 = i
    BY <1>2, <1>5, <1>6, <2>1 DEF Sooner
  <2>2. CASE a + 1 < i
    BY <1>4, <1>5, <1>17, <2>2
  <2>3. QED
    BY <1>3, <1>17, <2>1, <2>2
<1>21. CreatedAt(s[a + 1]) = CreatedAt(o)
  BY <1>2, <1>3, <1>6, <1>17, <1>19, <1>20 DEF Sooner
<1>22. QED
  BY <1>12, <1>15, <1>16, <1>17, <1>21

\* Orders only come in: none is further ahead later.
LEMMA AheadGrows ==
  ASSUME Serial, HistoryInv, HistoryInv', [Next]_vars,
         NEW q \in Queries, q.status # "DRAFT", q.sort # "total_amount", NEW o
  PROVE  /\ Matching(q.status) \subseteq Matching(q.status)'
         /\ Cardinality(Ahead(q, o)) \in Nat /\ Cardinality(Ahead(q, o)') \in Nat
         /\ Cardinality(Ahead(q, o)) <= Cardinality(Ahead(q, o)')
<1>1. PICK status : status = q.status /\ status \in {"", "CONFIRMED"}
  BY Zenon DEF Queries
<1>2. Matching(status) \subseteq Matching(status)'
  BY <1>1, MatchingGrows, Zenon
<1>3. PICK M, N : M = Matching(status) /\ N = Matching(status)'
  OBVIOUS
<1>4. IsFiniteSet(N) /\ M \subseteq N
  BY <1>2, <1>3, MatchingStaysFinite
<1> DEFINE A == {p \in M : Sooner(q, p, o)}
           B == {p \in N : Sooner(q, p, o)}
<1>5. Ahead(q, o) = A /\ Ahead(q, o)' = B
  BY <1>1, <1>3, PrecedesByTime DEF Ahead
<1>6. B \in SUBSET N /\ A \in SUBSET B
  BY <1>4
<1>7. IsFiniteSet(B) /\ IsFiniteSet(A) /\ Cardinality(A) <= Cardinality(B)
  BY <1>4, <1>6, FS_Subset
<1>8. Cardinality(A) \in Nat /\ Cardinality(B) \in Nat
  BY <1>7, FS_CardinalityType
<1>9. QED
  BY <1>1, <1>2, <1>5, <1>7, <1>8

\* The query of a listing that no order leaves.
LEMMA SteadyQuery ==
  ASSUME ClientInv, IsSteady
  PROVE  /\ asked \in Queries /\ asked.status # "DRAFT" /\ asked.sort # "total_amount"
         /\ asked.page \in Nat \ {0} /\ EffectiveSize(asked.size) \in Nat \ {0}
         /\ Offset(asked.page, EffectiveSize(asked.size)) \in Nat
<1>1. asked \in Queries
  BY DEF ClientInv, PageInv, IsSteady
<1>2. asked.page \in Nat \ {0} /\ asked.size \in Int
  BY <1>1 DEF Queries
<1>3. EffectiveSize(asked.size) \in Nat \ {0}
  BY <1>2, PageSize
<1>4. Offset(asked.page, EffectiveSize(asked.size)) \in Nat
  BY <1>2, <1>3, OffsetBounds
<1>5. QED
  BY <1>1, <1>2, <1>3, <1>4 DEF IsSteady

\* A page shows the orders up to its last row: those that are still to be seen
\* come after it, and if it is not full there are none.
LEMMA SelectListingInv ==
  ASSUME Serial, HistoryInv, HistoryInv', ClientInv, UNCHANGED vars, SelectPage, IsSteady'
  PROVE  ListingInv'
<1>1. place = "page" /\ place' = "answered" /\ asked' = asked /\ present' = present
  BY DEF SelectPage
<1>2. IsSteady
  BY <1>1 DEF IsSteady, IsListing
<1>3. PICK q \in Queries, size \in Nat \ {0}, offset \in Nat :
         /\ q = asked /\ q.status # "DRAFT" /\ q.sort # "total_amount"
         /\ size = EffectiveSize(q.size) /\ offset = Offset(q.page, size)
  BY <1>2, SteadyQuery
<1>s. PICK s \in Sorted(q, Matching(q.status)) :
         LET page == SubSeq(s, offset + 1, IF (offset + 1) + size - 1 < Len(s)
                                           THEN (offset + 1) + size - 1 ELSE Len(s))
         IN  answer' = [answer EXCEPT !.page = page] /\ seen' = seen \cup Range(page)
  BY <1>3 DEF SelectPage
<1>4. PICK last, page :
         /\ last = IF (offset + 1) + size - 1 < Len(s) THEN (offset + 1) + size - 1 ELSE Len(s)
         /\ page = SubSeq(s, offset + 1, last)
         /\ answer' = [answer EXCEPT !.page = page]
         /\ seen' = seen \cup Range(page)
  BY <1>s
<1>5. PICK M : M = Matching(q.status)
  OBVIOUS
<1>6. IsFiniteSet(M) /\ present \subseteq M
  BY <1>2, <1>3, <1>5, MatchingFinite DEF ClientInv, ListingInv
<1>7. s \in Seq(M) /\ Len(s) \in Nat /\ \A o \in M : \E i \in 1..Len(s) : s[i] = o
  BY <1>4, <1>5, <1>6, RowsOfListing
<1>l. last = IF (offset + 1) + size - 1 < Len(s) THEN (offset + 1) + size - 1 ELSE Len(s)
  BY <1>4
<1>8. last \in Nat
  BY <1>l, <1>7
<1>9. /\ Len(page) = IF last < offset THEN 0 ELSE last - offset
      /\ \A i \in (offset + 1)..last : s[i] \in Range(page)
  <2>1. page = SubSeq(s, offset + 1, last)
    BY <1>4
  <2>2. s \in Seq(M)
    BY <1>7
  <2>3. last <= Len(s)
    BY <1>l, <1>7
  <2>4. QED
    BY <1>8, <2>1, <2>2, <2>3, RowsOfPage
<1>10. answer'.page = page
  BY <1>1, <1>4 DEF ClientInv, PageInv, NoAnswer
<1>11. ASSUME NEW o \in present \ seen', ~TieSeen(o)'
       PROVE  Cardinality(Ahead(q, o)) >= offset + size /\ Len(page) = size
  <2>1. o \in present \ seen /\ o \in M /\ o \notin Range(page) /\ ~TieSeen(o)
    BY <1>4, <1>6, <1>11, <1>1 DEF TieSeen
  <2>2. PICK a : a = Cardinality(Ahead(q, o))
    OBVIOUS
  <2>3. a + 1 \in 1..Len(s) /\ CreatedAt(s[a + 1]) = CreatedAt(o) /\ a \in Nat
    BY <1>3, <1>4, <1>5, <2>1, <2>2, PlaceOfRow, AheadGrows
  <2>4. a >= offset
    BY <1>1, <1>2, <1>3, <2>1, <2>2 DEF ClientInv, ListingInv, Passed
  <2>5. s[a + 1] \notin Range(page)
    BY <1>4, <1>11, <2>1, <2>3 DEF TieSeen
  <2>6. a + 1 \notin (offset + 1)..last /\ a + 1 <= Len(s) /\ a + 1 >= offset + 1
    BY <1>7, <1>9, <2>3, <2>4, <2>5
  <2>7. a + 1 > last /\ last = offset + size
    BY <1>l, <1>7, <1>8, <2>3, <2>6
  <2>8. QED
    BY <1>9, <2>2, <2>3, <2>7
<1>12. ASSUME NEW o \in present \ seen', ~TieSeen(o)'
       PROVE  Cardinality(Ahead(q, o)') >= offset + size
  <2>1. PICK a, b : a = Cardinality(Ahead(q, o)) /\ b = Cardinality(Ahead(q, o)')
    OBVIOUS
  <2>2. a \in Nat /\ b \in Nat /\ a <= b
    BY <1>3, <2>1, AheadGrows
  <2>3. a >= offset + size
    BY <1>11, <1>12, <2>1
  <2>4. QED
    BY <2>1, <2>2, <2>3
<1>13. Passed' = offset + size
  BY <1>1, <1>3 DEF Passed, Offset, EffectiveSize
<1>14. present' \subseteq Matching(asked.status)'
  <2>1. M \subseteq Matching(q.status)'
    BY <1>3, <1>5, AheadGrows
  <2>2. Matching(q.status)' = Matching(asked.status)'
    BY <1>1, <1>3 DEF Matching
  <2>3. QED
    BY <1>1, <1>6, <2>1, <2>2
<1>15. \A o \in present' \ seen' : TieSeen(o)' \/ Cardinality(Ahead(asked, o)') >= Passed'
  <2>1. \A o : Ahead(asked, o)' = Ahead(q, o)'
    BY <1>1, <1>3 DEF Ahead, Matching, Precedes
  <2>2. QED
    BY <1>1, <1>12, <1>13, <2>1
<1>16. OnlyTiedOrdersAreMissed'
  <2>1. FullPage' <=> Len(page) = size
    BY <1>1, <1>3, <1>10 DEF FullPage, EffectiveSize
  <2>2. QED
    BY <1>1, <1>11, <2>1 DEF OnlyTiedOrdersAreMissed, TieSeen
<1>17. QED
  BY <1>14, <1>15, <1>16 DEF ListingInv

LEMMA NextListingInv ==
  ASSUME Serial, HistoryInv, HistoryInv', ClientInv, [QueryNext]_queryVars
  PROVE  ListingInv'
<1> SUFFICES ASSUME IsSteady' PROVE ListingInv'
  BY DEF ListingInv
<1>p. GetInv /\ PageInv /\ ListingInv /\ place \in {"idle", "items", "page", "answered"}
  BY DEF ClientInv
<1>s. [Next]_vars
  BY ClientSteps
<1>1. CASE UNCHANGED clientVars
  <2>1. UNCHANGED <<asked, place, answer, present, seen>>
    BY <1>1 DEF clientVars
  <2>2. IsSteady
    BY <2>1 DEF IsSteady, IsListing
  <2>3. PICK q \in Queries : q = asked /\ q.status # "DRAFT" /\ q.sort # "total_amount"
    BY <2>2, SteadyQuery
  <2>4. PICK passed \in Nat : passed = Passed
    BY <2>2, SteadyQuery DEF Passed
  <2>5. Passed' = passed
    BY <2>1, <2>4 DEF Passed, Offset, EffectiveSize
  <2>6. ASSUME NEW o \in present' \ seen', ~TieSeen(o)'
        PROVE  Cardinality(Ahead(asked, o)') >= Passed'
    <3>1. PICK a, b : a = Cardinality(Ahead(q, o)) /\ b = Cardinality(Ahead(q, o)')
      OBVIOUS
    <3>2. a \in Nat /\ b \in Nat /\ a <= b
      BY <1>s, <2>3, <3>1, AheadGrows
    <3>3. a >= passed
      BY <1>p, <2>1, <2>2, <2>3, <2>4, <2>6, <3>1 DEF ListingInv, TieSeen
    <3>4. b >= passed
      BY <3>2, <3>3
    <3>5. Ahead(asked, o)' = Ahead(q, o)'
      BY <2>1, <2>3 DEF Ahead, Matching, Precedes
    <3>6. QED
      BY <2>5, <3>1, <3>4, <3>5
  <2>7. present' \subseteq Matching(asked.status)'
    <3>1. Matching(q.status) \subseteq Matching(q.status)'
      BY <1>s, <2>3, AheadGrows
    <3>2. Matching(q.status)' = Matching(asked.status)'
      BY <2>1, <2>3 DEF Matching
    <3>3. QED
      BY <1>p, <2>1, <2>2, <2>3, <3>1, <3>2 DEF ListingInv
  <2>8. OnlyTiedOrdersAreMissed'
    BY <1>p, <2>1, <2>2 DEF ListingInv, OnlyTiedOrdersAreMissed, FullPage
  <2>9. QED
    BY <2>6, <2>7, <2>8 DEF ListingInv
<1>2. CASE UNCHANGED vars /\ (StartGet \/ EndQuery)
  BY <1>2 DEF StartGet, EndQuery, GetOrderByID, IsSteady, IsListing
<1>3. CASE UNCHANGED vars /\ ReadRest
  BY <1>p, <1>3 DEF ReadRest, GetInv, IsSteady, IsListing
<1>4. CASE UNCHANGED vars /\ SelectPage
  BY <1>4, SelectListingInv
<1>5. CASE UNCHANGED vars /\ StartList
  <2>1. PICK l \in Listings :
           /\ asked' = [op |-> "list", page |-> 1, status |-> l.status, sort |-> l.sort,
                        dir |-> l.dir, size |-> l.size]
           /\ place' = "page" /\ present' = Matching(l.status)
    BY <1>5 DEF StartList, CountMatching
  <2>2. PICK q \in Queries : q = asked' /\ q.page = 1 /\ q.status = l.status
    BY <2>1, FirstQuery
  <2>3. q.status # "DRAFT" /\ q.sort # "total_amount" /\ q.size \in Int
    BY <2>2 DEF IsSteady, Queries
  <2>4. EffectiveSize(q.size) \in Nat /\ 0 * EffectiveSize(q.size) = 0
    BY <2>3, PageSize
  <2>5. Offset(1, EffectiveSize(q.size)) = 0
    <3>1. PICK size \in Nat : size = EffectiveSize(q.size)
      BY <2>4
    <3>2. Offset(1, size) \in Nat /\ Offset(1, size) <= (1 - 1) * size
      BY OffsetBounds
    <3>3. QED
      BY <3>1, <3>2
  <2>6. Passed' = 0
    BY <2>1, <2>2, <2>5 DEF Passed, Offset, EffectiveSize
  <2>7. ASSUME NEW o
        PROVE  Cardinality(Ahead(asked, o)') >= 0
    <3>1. Cardinality(Ahead(q, o)') \in Nat
      BY <1>s, <2>3, AheadGrows
    <3>2. Ahead(asked, o)' = Ahead(q, o)'
      BY <2>2 DEF Ahead, Matching, Precedes
    <3>3. QED
      BY <3>1, <3>2
  <2>8. present' \subseteq Matching(asked.status)'
    <3>1. Matching(q.status) \subseteq Matching(q.status)'
      BY <1>s, <2>3, AheadGrows
    <3>2. Matching(q.status)' = Matching(asked.status)'
      BY <2>2 DEF Matching
    <3>3. QED
      BY <2>1, <2>2, <3>1, <3>2
  <2>9. QED
    BY <2>1, <2>6, <2>7, <2>8 DEF ListingInv, OnlyTiedOrdersAreMissed
<1>6. CASE UNCHANGED vars /\ NextPage
  <2>1. /\ place = "answered" /\ asked.op = "list"
        /\ asked' = [asked EXCEPT !.page = @ + 1] /\ place' = "page"
        /\ present' = present /\ seen' = seen
    BY <1>6 DEF NextPage, CountMatching
  <2>2. PICK q \in Queries : q = asked
    BY <1>p, <2>1 DEF PageInv, IsListing
  <2>3. PICK r \in Queries : r = asked' /\ r.page = q.page + 1 /\ r.status = q.status
                             /\ r.sort = q.sort /\ r.dir = q.dir /\ r.size = q.size
    <3>1. asked' = [q EXCEPT !.page = q.page + 1]
      BY <2>1, <2>2
    <3>2. QED
      BY <3>1, NextQuery
  <2>4. r.status # "DRAFT" /\ r.sort # "total_amount"
    BY <2>3 DEF IsSteady
  <2>5. IsSteady
    BY <2>1, <2>2, <2>3, <2>4 DEF IsSteady, IsListing
  <2>6. PICK size \in Nat \ {0}, page \in Nat \ {0} :
           size = EffectiveSize(q.size) /\ page = q.page /\ size = EffectiveSize(r.size)
    BY <2>2, <2>3, <2>5, SteadyQuery
  <2>7. Passed = Offset(page, size) + size /\ Offset(page, size) \in Nat
    BY <2>1, <2>2, <2>5, <2>6, SteadyQuery DEF Passed
  <2>8. Offset(page + 1, size) \in Nat /\ Offset(page + 1, size) <= Offset(page, size) + size
    <3>1. page + 1 \in Nat \ {0}
      OBVIOUS
    <3>2. Offset(page + 1, size) \in Nat
      BY <3>1, OffsetBounds
    <3>3. Offset(page + 1, size) <= Offset(page, size) + size
      BY OffsetBounds
    <3>4. QED
      BY <3>2, <3>3
  <2>9. Passed' = Offset(page + 1, size)
    <3>1. PICK next \in Nat : next = Offset(page + 1, size)
      BY <2>8
    <3>2. asked'.page = page + 1 /\ EffectiveSize(asked.size)' = size
      BY <2>3, <2>6 DEF EffectiveSize
    <3>3. Offset(asked.page, EffectiveSize(asked.size))' = next
      BY <3>1, <3>2 DEF Offset
    <3>4. QED
      BY <2>1, <3>1, <3>3 DEF Passed
  <2>10. ASSUME NEW o \in present' \ seen', ~TieSeen(o)'
         PROVE  Cardinality(Ahead(asked, o)') >= Passed'
    <3>1. PICK a, b : a = Cardinality(Ahead(q, o)) /\ b = Cardinality(Ahead(q, o)')
      OBVIOUS
    <3>2. a \in Nat /\ b \in Nat /\ a <= b
      BY <1>s, <2>3, <2>4, <3>1, AheadGrows
    <3>3. a >= Offset(page, size) + size
      BY <1>p, <2>1, <2>2, <2>5, <2>7, <2>10, <3>1 DEF ListingInv, TieSeen
    <3>4. b >= Offset(page + 1, size)
      BY <2>7, <2>8, <3>2, <3>3
    <3>5. Ahead(asked, o)' = Ahead(q, o)'
      BY <2>3 DEF Ahead, Matching, Precedes
    <3>6. QED
      BY <2>9, <3>1, <3>4, <3>5
  <2>11. present' \subseteq Matching(asked.status)'
    <3>1. Matching(q.status) \subseteq Matching(q.status)'
      BY <1>s, <2>3, <2>4, AheadGrows
    <3>2. Matching(q.status)' = Matching(asked.status)'
      BY <2>3 DEF Matching
    <3>3. QED
      BY <1>p, <2>1, <2>2, <2>5, <3>1, <3>2 DEF ListingInv
  <2>12. QED
    BY <2>1, <2>10, <2>11 DEF ListingInv, OnlyTiedOrdersAreMissed
<1>7. QED
  BY <1>1, <1>2, <1>3, <1>4, <1>5, <1>6, ClientSteps

-----------------------------------------------------------------------------
(* The theorems.                                                           *)

LEMMA InitClientInv == QueryInit => ClientInv
  BY DEF QueryInit, ClientInv, GetInv, PageInv, ListingInv, IsSteady, IsListing,
         OrderFitsItsItems, PageFitsItsCount

LEMMA ClientInvariant == Serial => (QuerySpec => [](HistoryInv /\ ClientInv))
<1> SUFFICES ASSUME Serial PROVE QuerySpec => [](HistoryInv /\ ClientInv)
  OBVIOUS
<1>1. QueryInit => HistoryInv /\ ClientInv
  BY InitHistoryInv, InitClientInv DEF QueryInit
<1>2. HistoryInv /\ ClientInv /\ [QueryNext]_queryVars => (HistoryInv /\ ClientInv)'
  <2> SUFFICES ASSUME HistoryInv, ClientInv, [QueryNext]_queryVars
               PROVE  HistoryInv' /\ ClientInv'
    OBVIOUS
  <2>1. HistoryInv'
    BY ClientSteps, NextHistoryInv
  <2>2. QED
    BY <2>1, NextGetInv, NextPageInv, NextListingInv DEF ClientInv
<1>3. QED
  BY <1>1, <1>2, PTL DEF QuerySpec

\* GetOrderByID reads the row of an order and then its items, and WriteItem may
\* come in between: for any order, the row is never ahead of the items, and the
\* row of a confirmed one is that of all of them.
THEOREM OrdersFit == Serial => (QuerySpec => []OrderFitsItsItems)
<1> SUFFICES ASSUME Serial PROVE QuerySpec => []OrderFitsItsItems
  OBVIOUS
<1>1. ClientInv => OrderFitsItsItems
  BY DEF ClientInv, GetInv
<1>2. QED
  BY <1>1, ClientInvariant, PTL

\* For any page and page size, also when the offset wraps around, a page is not
\* shorter than the count that was read before it says.
THEOREM PagesFit == Serial => (QuerySpec => []PageFitsItsCount)
<1> SUFFICES ASSUME Serial PROVE QuerySpec => []PageFitsItsCount
  OBVIOUS
<1>1. ClientInv => PageFitsItsCount
  BY DEF ClientInv, PageInv
<1>2. QED
  BY <1>1, ClientInvariant, PTL

\* ListOrders pages by an offset into a table that is written meanwhile, and sorts
\* by a time that several orders may share: for any number of orders, created at
\* any times, an order that was there is only skipped for one of the same time.
THEOREM OnlyTiedAreMissed == Serial => (QuerySpec => []OnlyTiedOrdersAreMissed)
<1> SUFFICES ASSUME Serial PROVE QuerySpec => []OnlyTiedOrdersAreMissed
  OBVIOUS
<1>1. ClientInv => OnlyTiedOrdersAreMissed
  BY DEF ClientInv, ListingInv, OnlyTiedOrdersAreMissed, IsSteady, IsListing
<1>2. QED
  BY <1>1, ClientInvariant, PTL
=============================================================================
