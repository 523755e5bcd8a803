-------------------------- MODULE IdempotentStore ---------------------------
(***************************************************************************)
(* What POST /api/v1/payments promises: per idempotency key at most one    *)
(* payment, booked together with its one outbox event in a single step,    *)
(* and answers that agree with the booking.                                *)
(***************************************************************************)
EXTENDS Naturals

CONSTANTS Requests, Keys, Bodies, NoPayment

VARIABLES
  book,      \* per key: the payment booked and the body it was booked with
  events,    \* per payment: outbox events written for it
  answers    \* per request: what was asked and what was answered

vars == <<book, events, answers>>

NotBooked == [payment |-> NoPayment, body |-> NoPayment]
NoAnswer == [key |-> NoPayment, body |-> NoPayment, code |-> 0, payment |-> NoPayment]

Init ==
  /\ book = [k \in Keys |-> NotBooked]
  /\ events = [r \in Requests |-> 0]
  /\ answers = [r \in Requests |-> NoAnswer]

(* A payment is identified by the request that creates it.                 *)
Create(r, k, b) ==
  /\ book[k] = NotBooked
  /\ events[r] = 0
  /\ answers[r] = NoAnswer
  /\ book' = [book EXCEPT ![k] = [payment |-> r, body |-> b]]
  /\ events' = [events EXCEPT ![r] = 1]
  /\ UNCHANGED answers

Answer(r, k, b) ==
  /\ answers[r] = NoAnswer
  /\ \E code \in {202, 409, 500}, p \in Requests \cup {NoPayment} :
       /\ code = 202 => book[k] = [payment |-> p, body |-> b] /\ p # NoPayment
       /\ code = 409 => book[k] # NotBooked /\ book[k].body # b
       /\ code # 202 => p = NoPayment
       /\ answers' = [answers EXCEPT ![r] =
                        [key |-> k, body |-> b, code |-> code, payment |-> p]]
  /\ UNCHANGED <<book, events>>

Next == \E r \in Requests, k \in Keys, b \in Bodies : Create(r, k, b) \/ Answer(r, k, b)

Spec == Init /\ [][Next]_vars
=============================================================================
