---------------------------- MODULE CreatePayment ---------------------------
(***************************************************************************)
(* POST /api/v1/payments: PaymentsService.create under the Redis lock      *)
(* idempotency:{key}, in one PostgreSQL transaction, up to the HTTP status *)
(* the exception handlers give its outcome.                                *)
(*                                                                         *)
(* A request takes one step per awaited call.  A payment is identified by  *)
(* the request whose INSERT creates it.  A body stands for everything      *)
(* _payload_matches compares; bodies it does not tell apart are one value. *)
(* The transactions run READ COMMITTED: they see committed rows only, and  *)
(* an INSERT waits for an uncommitted one with the same key.               *)
(***************************************************************************)
EXTENDS RedisLocks, Naturals

CONSTANTS
  Requests,
  Keys,          \* Idempotency-Key header values
  Bodies,
  NoPayment,     \* no payment, no key, no body
  MaxFaults      \* bound: number of faults in a behaviour

ASSUME CreateConstants ==
  /\ LockKeys = Keys
  /\ Holders = Requests
  /\ NoPayment \notin Requests \cup Keys \cup Bodies
  /\ MaxFaults \in Nat

VARIABLES
  rows,     \* payments_idempotency_key_uq: the committed payment of each key
  events,   \* the committed outbox events of each payment
  req,      \* each request's progress and result
  faults    \* faults so far

vars == <<lock, rows, events, req, faults>>

NoRow == [payment |-> NoPayment, body |-> NoPayment]

Open == {"select", "insert", "event", "commit"}    \* inside the transaction

Request == [pc      : Open \cup {"new", "lock", "unlock", "done", "dead"},
            key     : Keys \cup {NoPayment},
            body    : Bodies \cup {NoPayment},
            code    : {0, 202, 409, 500},
            payment : Requests \cup {NoPayment}]

NewRequest == [pc |-> "new", key |-> NoPayment, body |-> NoPayment,
               code |-> 0, payment |-> NoPayment]

TypeOK ==
  /\ LockTypeOK
  /\ rows \in [Keys -> [payment : Requests \cup {NoPayment}, body : Bodies \cup {NoPayment}]]
  /\ events \in [Requests -> Nat]
  /\ req \in [Requests -> Request]
  /\ faults \in 0..MaxFaults

Init ==
  /\ LockInit
  /\ rows = [k \in Keys |-> NoRow]
  /\ events = [r \in Requests |-> 0]
  /\ req = [r \in Requests |-> NewRequest]
  /\ faults = 0

-----------------------------------------------------------------------------
At(r, pc) == req[r].pc = pc
Goto(r, pc) == req' = [req EXCEPT ![r].pc = pc]

(* The transaction ends without a COMMIT of its own rows and the lock's    *)
(* context manager is entered with a result or an exception.               *)
Leave(r, code, payment) ==
  req' = [req EXCEPT ![r] = [@ EXCEPT !.pc = "unlock", !.code = code, !.payment = payment]]

FailUnavailable(r) ==        \* mutant: a status the API does not document
  req' = [req EXCEPT ![r] = [@ EXCEPT !.pc = "done", !.code = 503, !.payment = NoPayment]]

(* app/api/exceptions.py: anything unexpected is a 500.                    *)
Fail(r) ==
  req' = [req EXCEPT ![r] = [@ EXCEPT !.pc = "done", !.code = 500, !.payment = NoPayment]]

PayloadMatchesAny(row, body) == TRUE       \* mutant: the key alone decides
PayloadMatches(row, body) == row.body = body

(* The rows an INSERT has to wait for.                                     *)
Uncommitted(k) == {r \in Requests : req[r].pc \in {"event", "commit"} /\ req[r].key = k}

-----------------------------------------------------------------------------
Arrive(r, k, b) ==
  /\ At(r, "new")
  /\ req' = [req EXCEPT ![r].pc = "lock", ![r].key = k, ![r].body = b]
  /\ UNCHANGED <<lock, rows, events, faults>>

AcquireLock(r) ==
  /\ At(r, "lock")
  /\ Acquire(req[r].key, r)
  /\ Goto(r, "select")
  /\ UNCHANGED <<rows, events, faults>>

LockTimeout(r) ==
  /\ At(r, "lock")
  /\ lock[req[r].key] # Free
  /\ Fail(r)
  /\ UNCHANGED <<lock, rows, events, faults>>

(* search_first(idempotency_key = ...), and the two early exits.           *)
Select(r) ==
  LET row == rows[req[r].key] IN
  /\ At(r, "select")
  /\ CASE row = NoRow                       -> Goto(r, "insert")
       [] row # NoRow /\ PayloadMatches(row, req[r].body)
                                            -> Leave(r, 202, row.payment)
       [] OTHER                             -> Leave(r, 409, NoPayment)
  /\ UNCHANGED <<lock, rows, events, faults>>

InsertUnchecked(r) ==        \* mutant: payments_idempotency_key_uq is missing
  /\ At(r, "insert")
  /\ Goto(r, "event")
  /\ UNCHANGED <<lock, rows, events, faults>>

(* payments_repo.insert: a duplicate key is an EntityAlreadyExistsError,   *)
(* which the API answers with 409.                                         *)
InsertPayment(r) ==
  /\ At(r, "insert")
  /\ Uncommitted(req[r].key) = {}
  /\ IF rows[req[r].key] = NoRow THEN Goto(r, "event") ELSE Leave(r, 409, NoPayment)
  /\ UNCHANGED <<lock, rows, events, faults>>

InsertEventAlone(r) ==       \* mutant: outbox_repo on a connection of its own
  /\ At(r, "event")
  /\ Goto(r, "commit")
  /\ events' = [events EXCEPT ![r] = @ + 1]
  /\ UNCHANGED <<lock, rows, faults>>

InsertEvent(r) ==
  /\ At(r, "event")
  /\ Goto(r, "commit")
  /\ UNCHANGED <<lock, rows, events, faults>>

(* Both rows become visible, before the lock is released.                  *)
Committed(r) ==
  /\ rows' = [rows EXCEPT ![req[r].key] = [payment |-> r, body |-> req[r].body]]
  /\ events' = [events EXCEPT ![r] = @ + 1]

Commit(r) ==
  /\ At(r, "commit")
  /\ Committed(r)
  /\ Leave(r, 202, r)
  /\ UNCHANGED <<lock, faults>>

(* A lock that is no longer ours turns any result into LockNotOwnedError.  *)
ReleaseLock(r) ==
  /\ At(r, "unlock")
  /\ lock' = Released(req[r].key, r)
  /\ IF Holds(req[r].key, r) THEN Goto(r, "done") ELSE Fail(r)
  /\ UNCHANGED <<rows, events, faults>>

LockTtl(k) == Expire(k) /\ UNCHANGED <<rows, events, req, faults>>

-----------------------------------------------------------------------------
Fault == faults < MaxFaults /\ faults' = faults + 1

(* A Redis call raises; it may have been applied.                          *)
AcquireFails(r) ==
  LET k == req[r].key IN
  /\ At(r, "lock")
  /\ Fault
  /\ lock' \in {lock, IF lock[k] = Free THEN [lock EXCEPT ![k] = Orphan] ELSE lock}
  /\ Fail(r)
  /\ UNCHANGED <<rows, events>>

ReleaseFails(r) ==
  LET k == req[r].key IN
  /\ At(r, "unlock")
  /\ Fault
  /\ lock' \in {Released(k, r), IF Holds(k, r) THEN [lock EXCEPT ![k] = Orphan] ELSE lock}
  /\ Fail(r)
  /\ UNCHANGED <<rows, events>>

(* A statement raises, and the transaction is rolled back.                 *)
StatementFails(r) ==
  /\ req[r].pc \in Open \ {"commit"}
  /\ Fault
  /\ Leave(r, 500, NoPayment)
  /\ UNCHANGED <<lock, rows, events>>

(* COMMIT raises; it may have been applied.                                *)
CommitFails(r) ==
  /\ At(r, "commit")
  /\ Fault
  /\ Committed(r) \/ UNCHANGED <<rows, events>>
  /\ Leave(r, 500, NoPayment)
  /\ UNCHANGED lock

(* The API process dies: open requests get no answer, open transactions    *)
(* are rolled back, locks are left to their TTL.                           *)
Crash ==
  /\ Fault
  /\ req' = [r \in Requests |->
               IF req[r].pc \in {"new", "done"} THEN req[r] ELSE [req[r] EXCEPT !.pc = "dead"]]
  /\ lock' = Abandoned(Requests)
  /\ UNCHANGED <<rows, events>>

-----------------------------------------------------------------------------
Next ==
  \/ \E r \in Requests, k \in Keys, b \in Bodies : Arrive(r, k, b)
  \/ \E r \in Requests :
       \/ AcquireLock(r) \/ LockTimeout(r) \/ Select(r) \/ InsertPayment(r)
       \/ InsertEvent(r) \/ Commit(r) \/ ReleaseLock(r)
       \/ AcquireFails(r) \/ ReleaseFails(r) \/ StatementFails(r) \/ CommitFails(r)
  \/ \E k \in Keys : LockTtl(k)
  \/ Crash

Spec == Init /\ [][Next]_vars

-----------------------------------------------------------------------------
Answered(r) == req[r].pc = "done"

(* What a request was asked and answered; nothing until it was answered.   *)
Answer(r) ==
  IF Answered(r)
    THEN [key |-> req[r].key, body |-> req[r].body, code |-> req[r].code, payment |-> req[r].payment]
    ELSE [key |-> NoPayment, body |-> NoPayment, code |-> 0, payment |-> NoPayment]

Answers == [r \in Requests |-> Answer(r)]

Promise == INSTANCE IdempotentStore WITH book <- rows, answers <- Answers

(* While no request outlasts the lock's TTL, the endpoint implements the   *)
(* idempotent store: in particular a 409 is given only to a different body.*)
ImplementsIdempotentStore == Promise!Spec

(* Even when locks expire under their holders, a client told 202 can rely  *)
(* on the payment it was given: it is the one the key is bound to, with    *)
(* the client's own body, so all clients told 202 for a key agree.         *)
AcceptedIsDurable ==
  \A r \in Requests :
    Answered(r) /\ req[r].code = 202 =>
      rows[req[r].key] = [payment |-> req[r].payment, body |-> req[r].body]

(* The payment and its outbox event are written together or not at all: a  *)
(* committed payment has one event, and no event is for anything else.     *)
OneEventPerPayment ==
  \A r \in Requests :
    events[r] = IF \E k \in Keys : rows[k].payment = r THEN 1 ELSE 0

-----------------------------------------------------------------------------
(* README.md: a repeat with the same key and an identical payload returns  *)
(* the existing payment, and 409 is for a different payload.               *)
ConflictMeansDifferentBody ==
  \A r \in Requests :
    Answered(r) /\ req[r].code = 409 => rows[req[r].key].body # req[r].body
=============================================================================
