------------------------------- MODULE Listing ------------------------------
(***************************************************************************)
(* GET /api/v1/payments while payments are created and processed: a client *)
(* walks the pages of a filter with a fixed limit, adding the limit to the *)
(* offset until a page is not full.  PaymentsService.list and              *)
(* EntityRepo.search make each page one SELECT ... WHERE ... ORDER BY id   *)
(* LIMIT ... OFFSET ....                                                   *)
(*                                                                         *)
(* Ids are random UUIDs, so a new payment may sort anywhere.  The filters  *)
(* are equalities on status, on currency, on both, or none.                *)
(***************************************************************************)
EXTENDS Naturals, FiniteSets

CONSTANTS
  Ids,          \* payment ids, numbered in their order
  Currencies,
  MaxLimit      \* bound: largest page asked for

ASSUME ListingConstants ==
  /\ Ids \subseteq Nat /\ IsFiniteSet(Ids)
  /\ Currencies \cap {"any", "absent"} = {}
  /\ MaxLimit \in Nat \ {0}

VARIABLES
  payments,     \* the committed rows
  walk,         \* the request's parameters and the walk's progress
  seen,         \* the payments the walk has returned
  returned,     \* the rows it has returned
  start,        \* payments the filter selected when the walk began
  moved         \* those that have entered and left the filter since then

vars == <<payments, walk, seen, returned, start, moved>>

Statuses == {"pending", "succeeded", "failed"}
Filters == [status : Statuses \cup {"any"}, currency : Currencies \cup {"any"}]

Payment == [status : Statuses \cup {"absent"}, currency : Currencies \cup {"absent"}]
NoPayment == [status |-> "absent", currency |-> "absent"]

Walk == [pc : {"idle", "walking", "done"}, filter : Filters,
         limit : 1..MaxLimit, offset : Nat]

TypeOK ==
  /\ payments \in [Ids -> Payment]
  /\ walk \in Walk
  /\ seen \subseteq Ids
  /\ returned \in Nat
  /\ start \subseteq Ids
  /\ moved \in [in : SUBSET Ids, out : SUBSET Ids]

Init ==
  /\ payments = [i \in Ids |-> NoPayment]
  /\ walk = [pc |-> "idle", filter |-> [status |-> "any", currency |-> "any"],
             limit |-> 1, offset |-> 0]
  /\ seen = {}
  /\ returned = 0
  /\ start = {}
  /\ moved = [in |-> {}, out |-> {}]

-----------------------------------------------------------------------------
Matches(payment, filter) ==
  /\ payment # NoPayment
  /\ filter.status \in {"any", payment.status}
  /\ filter.currency \in {"any", payment.currency}

Selected(filter) == {i \in Ids : Matches(payments[i], filter)}

(* The place of i among the rows of a filter, ordered by id.               *)
Rank(filter, i) == Cardinality({j \in Selected(filter) : j <= i})

searchOneMore(filter, limit, offset) ==  \* mutant: LIMIT is one row too large
  {i \in Selected(filter) : Rank(filter, i) \in offset + 1..offset + limit + 1}

searchLate(filter, limit, offset) ==     \* mutant: OFFSET is the last row read
  {i \in Selected(filter) : Rank(filter, i) \in offset + 2..offset + limit + 1}

search(filter, limit, offset) ==
  {i \in Selected(filter) : Rank(filter, i) \in offset + 1..offset + limit}

-----------------------------------------------------------------------------
(* A row changes; the walk's filter may select it now, or no longer.       *)
Update(i, payment) ==
  LET was == Matches(payments[i], walk.filter)
      is  == Matches(payment, walk.filter)
      walking == walk.pc = "walking"
  IN
  /\ payments' = [payments EXCEPT ![i] = payment]
  /\ moved' = [in  |-> IF walking /\ is /\ ~was THEN moved.in \cup {i} ELSE moved.in,
               out |-> IF walking /\ was /\ ~is THEN moved.out \cup {i} ELSE moved.out]
  /\ UNCHANGED <<walk, seen, returned, start>>

(* PaymentsService.create commits; the database draws the id.              *)
Create(i) ==
  /\ payments[i] = NoPayment
  /\ \E c \in Currencies : Update(i, [status |-> "pending", currency |-> c])

(* The consumer records an outcome.                                        *)
Process(i) ==
  /\ payments[i].status = "pending"
  /\ \E s \in {"succeeded", "failed"} : Update(i, [payments[i] EXCEPT !.status = s])

Begin(filter, limit) ==
  /\ walk.pc = "idle"
  /\ walk' = [pc |-> "walking", filter |-> filter, limit |-> limit, offset |-> 0]
  /\ start' = Selected(filter)
  /\ UNCHANGED <<payments, seen, returned, moved>>

NextPage ==
  LET page == search(walk.filter, walk.limit, walk.offset) IN
  /\ walk.pc = "walking"
  /\ seen' = seen \cup page
  /\ returned' = returned + Cardinality(page)
  /\ walk' = [walk EXCEPT !.offset = @ + walk.limit,
                          !.pc = IF Cardinality(page) < walk.limit THEN "done" ELSE @]
  /\ UNCHANGED <<payments, start, moved>>

Next ==
  \/ \E i \in Ids : Create(i) \/ Process(i)
  \/ \E filter \in Filters, limit \in 1..MaxLimit : Begin(filter, limit)
  \/ NextPage

Spec == Init /\ [][Next]_vars

-----------------------------------------------------------------------------
(* A walk misses a payment that was there from beginning to end only for   *)
(* one that left its filter meanwhile.  Without a filter, by currency, and *)
(* by a final status, nothing leaves: such a walk is complete, although the*)
(* offset counts rows and new rows appear anywhere.                        *)
SkipsNeedLeavers ==
  walk.pc = "done" =>
    Cardinality((start \ moved.out) \ seen) <= Cardinality(moved.out)

(* It returns a payment again only for one that entered its filter: the    *)
(* rows it has returned exceed the payments by no more.                    *)
RepeatsNeedEntries == returned <= Cardinality(seen) + Cardinality(moved.in)
=============================================================================
