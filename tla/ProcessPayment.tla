--------------------------- MODULE ProcessPayment ---------------------------
(***************************************************************************)
(* The payments consumer: ProcessPaymentHandler.execute inside the         *)
(* RetryMiddleware inside FastStream's acknowledgement, run by any number  *)
(* of concurrent tasks of one process, against the payments table, the     *)
(* Redis lock payment:{id}:process, the gateway, the webhook receivers and *)
(* the broker.                                                             *)
(*                                                                         *)
(* A task takes one step per awaited call.  The environment publishes      *)
(* outbox events for existing payments, possibly more than once, and       *)
(* causes at most MaxFaults faults: the process dies, the AMQP connection  *)
(* drops, or one call to Redis, PostgreSQL or RabbitMQ raises, whether or  *)
(* not the server applied it.  HTTP failures are not faults: they are what *)
(* the retries exist for, and are drawn freely from HttpCodes.             *)
(***************************************************************************)
EXTENDS Broker, RedisLocks, HttpClient, FiniteSets

CONSTANTS
  WithWebhook,   \* the payments created with a webhook_url
  Unknown,       \* ids in messages for which the table has no row
  HttpCodes,     \* what a webhook POST may end with (see HttpClient)
  MaxRetries,    \* settings.payment_max_retries
  MaxPublish,    \* bound: how often the outbox publishes one payment's event
  MaxFaults,     \* bound: number of faults in a behaviour
  MaxPosts       \* bound: the history variable posts counts up to here

ASSUME ConsumerConstants ==
  /\ LockKeys = Payments
  /\ Holders = Workers
  /\ WithWebhook \subseteq Payments
  /\ Unknown \subseteq Payments
  /\ HttpCodes \subseteq Nat
  /\ MaxRetries \in Nat
  /\ MaxPublish \in Nat
  /\ MaxFaults \in Nat
  /\ MaxPosts \in Nat
  /\ IsFiniteSet(Workers)

(* Enough for AttemptsAccounted to see one request too many.               *)
ASSUME PostsAreSeen == MaxPublish > 0 => MaxPosts > MaxRetries * MaxPublish

VARIABLES
  payments,      \* the payments table: status, and webhook_delivered_at is set
  task,          \* the state of each consumer task
  published,     \* how often the outbox has published each payment's event
  faults,        \* faults so far
  charges,       \* history: successful gateway charges of each payment
  lost,          \* history: charges whose outcome no row will ever record
  posts,         \* history: webhook requests sent for each payment
  reported,      \* history: the statuses its webhook receiver has been sent
  overtaken      \* history: how often each payment's lock expired under a task

history == <<charges, lost, posts, reported, overtaken>>
vars == <<msgs, lock, payments, task, published, faults, history>>

Statuses == {"absent", "pending", "succeeded", "failed"}
Row == [status : Statuses, delivered : BOOLEAN]
NoRow == [status |-> "absent", delivered |-> FALSE]

HttpErrors == {"HttpRetryableError", "HttpPermanentError"}
Exceptions == HttpErrors \cup
  {"InvalidURL", "LockError", "LockNotOwnedError", "RedisError",
   "DatabaseError", "BrokerError"}

Critical == {"load", "charge", "record", "webhook", "stamp", "release"}

Task == [pc      : Critical \cup {"idle", "acquire", "middleware", "settle", "down"},
         msg     : MsgIds \cup {None},
         payment : Payments \cup {None},
         retries : Nat,
         row     : Row,
         ok      : BOOLEAN,
         exc     : Exceptions \cup {"none", "suppressed"}]

Idle == [pc |-> "idle", msg |-> None, payment |-> None, retries |-> 0,
         row |-> NoRow, ok |-> FALSE, exc |-> "none"]

TypeOK ==
  /\ BrokerTypeOK
  /\ LockTypeOK
  /\ payments \in [Payments -> Row]
  /\ task \in [Workers -> Task]
  /\ published \in [Payments -> Nat]
  /\ faults \in Nat
  /\ charges \in [Payments -> Nat]
  /\ lost \in [Payments -> Nat]
  /\ posts \in [Payments -> Nat]
  /\ reported \in [Payments -> SUBSET Statuses]
  /\ overtaken \in [Payments -> Nat]

Init ==
  /\ BrokerInit
  /\ LockInit
  /\ payments = [p \in Payments |->
       IF p \in Unknown THEN NoRow ELSE [status |-> "pending", delivered |-> FALSE]]
  /\ task = [w \in Workers |-> Idle]
  /\ published = [p \in Payments |-> 0]
  /\ faults = 0
  /\ charges = [p \in Payments |-> 0]
  /\ lost = [p \in Payments |-> 0]
  /\ posts = [p \in Payments |-> 0]
  /\ reported = [p \in Payments |-> {}]
  /\ overtaken = [p \in Payments |-> 0]

-----------------------------------------------------------------------------
NeedsWebhookAgain(p, row) ==     \* mutant: does not look at webhook_delivered_at
  p \in WithWebhook /\ row.status \in {"succeeded", "failed"}

(* ProcessPaymentHandler._needs_webhook.                                   *)
NeedsWebhook(p, row) ==
  /\ p \in WithWebhook
  /\ ~row.delivered
  /\ row.status \in {"succeeded", "failed"}

(* PaymentsService.mark_succeeded, mark_failed: an UPDATE by id that does  *)
(* not look at the status it replaces.                                     *)
RecordedUnknownStatus(row, ok) ==   \* mutant: a status outside the enum
  [row EXCEPT !.status = IF ok THEN "processed" ELSE "failed"]

Recorded(row, ok) == [row EXCEPT !.status = IF ok THEN "succeeded" ELSE "failed"]

(* PaymentsService.mark_webhook_delivered.                                 *)
Stamped(row) == [row EXCEPT !.delivered = TRUE]

(* RetryMiddleware: isinstance(exc, RETRYABLE), and the attempt limit.     *)
Retryable(exc) == exc \in HttpErrors

NextCountStuck(retries) == retries             \* mutant: the header is copied as is
NextCount(retries) == retries + 1

ExhaustedLate(retries) == retries >= MaxRetries   \* mutant: compares the old count
Exhausted(retries) == NextCount(retries) >= MaxRetries

(* Charges made by a task that has not yet recorded the outcome.           *)
Unrecorded(p) == {w \in Workers : /\ task[w].pc = "record"
                                  /\ task[w].ok
                                  /\ task[w].payment = p}

At(w, pc) == task[w].pc = pc
Goto(w, pc) == task' = [task EXCEPT ![w].pc = pc]
Raise(w, exc) == task' = [task EXCEPT ![w].pc = "release", ![w].exc = exc]

(* Where ProcessPaymentHandler.execute goes with the row it has.           *)
AfterRow(p, row) == IF NeedsWebhook(p, row) THEN "webhook" ELSE "release"

AfterLoadCharging(p, row) ==       \* mutant: only declined payments are settled
  IF row.status = "failed" THEN AfterRow(p, row) ELSE "charge"

AfterLoadRetrying(p, row) ==       \* mutant: charges a declined payment again
  IF row.status \in {"pending", "failed"} THEN "charge" ELSE AfterRow(p, row)

AfterLoad(p, row) ==
  IF row.status = "pending" THEN "charge" ELSE AfterRow(p, row)

-----------------------------------------------------------------------------
(* The outbox publisher's broker.publish: normally once per payment, again *)
(* whenever its own transaction is rolled back.                            *)
PublishPayment(p) ==
  /\ published[p] < MaxPublish
  /\ published' = [published EXCEPT ![p] = @ + 1]
  /\ \E m \in MsgIds : Publish(m, p, 0, "new")
  /\ UNCHANGED <<lock, payments, task, faults, history>>

(* A delivery starts a task: broker.subscriber has no prefetch limit.      *)
Receive(m, w) ==
  /\ At(w, "idle")
  /\ Deliver(m, w)
  /\ task' = [task EXCEPT ![w] = [Idle EXCEPT !.pc = "acquire", !.msg = m,
                !.payment = msgs[m].payment, !.retries = msgs[m].retries]]
  /\ UNCHANGED <<lock, payments, published, faults, history>>

(* async with self.locks.acquire(f"payment:{payment_id}:process", 120)     *)
AcquireLock(w) ==
  /\ At(w, "acquire")
  /\ Acquire(task[w].payment, w)
  /\ Goto(w, "load")
  /\ UNCHANGED <<msgs, payments, published, faults, history>>

(* blocking_timeout elapses while someone else has the lock.               *)
LockTimeout(w) ==
  /\ At(w, "acquire")
  /\ lock[task[w].payment] # Free
  /\ task' = [task EXCEPT ![w].pc = "middleware", ![w].exc = "LockError"]
  /\ UNCHANGED <<msgs, lock, payments, published, faults, history>>

(* payments_repo.get_by_id, and the branch on what it returns.             *)
Load(w) ==
  LET p == task[w].payment
      row == payments[p] IN
  /\ At(w, "load")
  /\ task' = [task EXCEPT ![w].row = row, ![w].pc = AfterLoad(p, row)]
  /\ UNCHANGED <<msgs, lock, payments, published, faults, history>>

(* gateway.charge(): succeeds or is declined, and never raises.            *)
Charge(w) ==
  /\ At(w, "charge")
  /\ \E ok \in BOOLEAN :
       /\ task' = [task EXCEPT ![w].pc = "record", ![w].ok = ok]
       /\ charges' = [charges EXCEPT ![task[w].payment] = IF ok THEN @ + 1 ELSE @]
  /\ UNCHANGED <<msgs, lock, payments, published, faults, lost, posts, reported, overtaken>>

RecordOutcomeStale(w) ==           \* mutant: the task keeps the row it loaded
  LET p == task[w].payment
      row == Recorded(payments[p], task[w].ok) IN
  /\ At(w, "record")
  /\ payments' = [payments EXCEPT ![p] = row]
  /\ task' = [task EXCEPT ![w].pc = AfterRow(p, row), ![w].ok = FALSE]
  /\ UNCHANGED <<msgs, lock, published, faults, history>>

(* mark_succeeded or mark_failed; the task goes on with the returned row.  *)
RecordOutcome(w) ==
  LET p == task[w].payment
      row == Recorded(payments[p], task[w].ok) IN
  /\ At(w, "record")
  /\ payments' = [payments EXCEPT ![p] = row]
  /\ task' = [task EXCEPT ![w].pc = AfterRow(p, row), ![w].row = row, ![w].ok = FALSE]
  /\ UNCHANGED <<msgs, lock, published, faults, history>>

(* webhook_service.send: the body carries the task's own row.              *)
PostWebhook(w) ==
  LET p == task[w].payment IN
  /\ At(w, "webhook")
  /\ posts' = [posts EXCEPT ![p] = IF @ < MaxPosts THEN @ + 1 ELSE @]
  /\ \E code \in HttpCodes :
       /\ IF Post(code) = "none" THEN Goto(w, "stamp") ELSE Raise(w, Post(code))
       /\ \E arrived \in MayHaveArrived(code) :
            reported' = IF arrived
                          THEN [reported EXCEPT ![p] = @ \cup {task[w].row.status}]
                          ELSE reported
  /\ UNCHANGED <<msgs, lock, payments, published, faults, charges, lost, overtaken>>

(* payments_service.mark_webhook_delivered                                 *)
StampDelivered(w) ==
  /\ At(w, "stamp")
  /\ payments' = [payments EXCEPT ![task[w].payment] = Stamped(@)]
  /\ Goto(w, "release")
  /\ UNCHANGED <<msgs, lock, published, faults, history>>

ReleaseLockQuiet(w) ==             \* mutant: a lock that is gone is no error
  LET p == task[w].payment IN
  /\ At(w, "release")
  /\ lock' = Released(p, w)
  /\ task' = [task EXCEPT ![w].pc = "middleware", ![w].row = NoRow,
                ![w].exc = IF Holds(p, w) THEN @ ELSE "none"]
  /\ UNCHANGED <<msgs, payments, published, faults, history>>

(* Leaving the lock's context manager.  If the token is gone, release()    *)
(* raises, and its exception replaces the one the body raised.             *)
ReleaseLock(w) ==
  LET p == task[w].payment IN
  /\ At(w, "release")
  /\ lock' = Released(p, w)
  /\ task' = [task EXCEPT ![w].pc = "middleware", ![w].row = NoRow,
                ![w].exc = IF Holds(p, w) THEN @ ELSE "LockNotOwnedError"]
  /\ UNCHANGED <<msgs, payments, published, faults, history>>

(* RetryMiddleware.after_processed returns False.                          *)
PassThrough(w) ==
  /\ At(w, "middleware")
  /\ Retryable(task[w].exc) => Exhausted(task[w].retries)
  /\ Goto(w, "settle")
  /\ UNCHANGED <<msgs, lock, payments, published, faults, history>>

(* RetryMiddleware.after_processed republishes to payments.new.retry, with *)
(* x-retry-count one higher, and returns True, which swallows the error.   *)
Republish(w) ==
  /\ At(w, "middleware")
  /\ Retryable(task[w].exc)
  /\ ~Exhausted(task[w].retries)
  /\ \E m \in MsgIds : Publish(m, task[w].payment, NextCount(task[w].retries), "retry")
  /\ task' = [task EXCEPT ![w].pc = "settle", ![w].exc = "suppressed"]
  /\ UNCHANGED <<lock, payments, published, faults, history>>

(* AckPolicy.REJECT_ON_ERROR: ack, or reject without requeue.              *)
Settle(w) ==
  /\ At(w, "settle")
  /\ msgs' = IF task[w].exc \in {"none", "suppressed"}
               THEN Acked(task[w].msg, w)
               ELSE Rejected(task[w].msg, w)
  /\ task' = [task EXCEPT ![w] = Idle]
  /\ UNCHANGED <<lock, payments, published, faults, history>>

TaskStep(w) ==
  \/ AcquireLock(w) \/ LockTimeout(w) \/ Load(w) \/ Charge(w)
  \/ RecordOutcome(w) \/ PostWebhook(w) \/ StampDelivered(w)
  \/ ReleaseLock(w) \/ PassThrough(w) \/ Republish(w) \/ Settle(w)

-----------------------------------------------------------------------------
(* The TTLs of Redis and RabbitMQ.  Nothing renews a lock: its TTL elapses *)
(* even if its task is still inside the handler's body.                    *)
LockTtl(p) ==
  /\ Expire(p)
  /\ overtaken' = [overtaken EXCEPT ![p] = IF lock[p] = Orphan THEN @ ELSE @ + 1]
  /\ UNCHANGED <<msgs, payments, task, published, faults, charges, lost, posts, reported>>

RetryTtl(m) ==
  /\ ExpireTtl(m)
  /\ UNCHANGED <<lock, payments, task, published, faults, history>>

-----------------------------------------------------------------------------
Fault == faults < MaxFaults /\ faults' = faults + 1

(* The SET of the lock raises; it may have been applied.                   *)
AcquireFails(w) ==
  LET p == task[w].payment IN
  /\ At(w, "acquire")
  /\ Fault
  /\ lock' \in {lock, IF lock[p] = Free THEN [lock EXCEPT ![p] = Orphan] ELSE lock}
  /\ task' = [task EXCEPT ![w].pc = "middleware", ![w].exc = "RedisError"]
  /\ UNCHANGED <<msgs, payments, published, history>>

(* The SELECT raises.                                                      *)
LoadFails(w) ==
  /\ At(w, "load")
  /\ Fault
  /\ Raise(w, "DatabaseError")
  /\ UNCHANGED <<msgs, lock, payments, published, history>>

(* The UPDATE after the charge raises; it may have been committed.  If not,*)
(* nothing remembers the charge.                                           *)
RecordFails(w) ==
  LET p == task[w].payment IN
  /\ At(w, "record")
  /\ Fault
  /\ \/ /\ payments' = [payments EXCEPT ![p] = Recorded(@, task[w].ok)]
        /\ UNCHANGED lost
     \/ /\ lost' = [lost EXCEPT ![p] = IF task[w].ok THEN @ + 1 ELSE @]
        /\ UNCHANGED payments
  /\ task' = [task EXCEPT ![w].pc = "release", ![w].ok = FALSE,
                ![w].exc = "DatabaseError"]
  /\ UNCHANGED <<msgs, lock, published, charges, posts, reported, overtaken>>

(* The UPDATE after the webhook raises; it may have been committed.        *)
StampFails(w) ==
  LET p == task[w].payment IN
  /\ At(w, "stamp")
  /\ Fault
  /\ payments' \in {payments, [payments EXCEPT ![p] = Stamped(@)]}
  /\ Raise(w, "DatabaseError")
  /\ UNCHANGED <<msgs, lock, published, history>>

(* The compare-and-delete raises; it may have been applied.  If not, the   *)
(* key keeps a token nobody will release.                                  *)
ReleaseFails(w) ==
  LET p == task[w].payment IN
  /\ At(w, "release")
  /\ Fault
  /\ lock' \in {Released(p, w), IF Holds(p, w) THEN [lock EXCEPT ![p] = Orphan] ELSE lock}
  /\ task' = [task EXCEPT ![w].pc = "middleware", ![w].row = NoRow,
                ![w].exc = "RedisError"]
  /\ UNCHANGED <<msgs, payments, published, history>>

(* The publish to the retry queue raises; the copy may have been stored.   *)
RepublishFails(w) ==
  /\ At(w, "middleware")
  /\ Retryable(task[w].exc)
  /\ ~Exhausted(task[w].retries)
  /\ Fault
  /\ \/ UNCHANGED msgs
     \/ \E m \in MsgIds : Publish(m, task[w].payment, NextCount(task[w].retries), "retry")
  /\ task' = [task EXCEPT ![w].pc = "settle", ![w].exc = "BrokerError"]
  /\ UNCHANGED <<lock, payments, published, history>>

(* The consumer process dies with all its tasks.                           *)
Crash ==
  /\ \E w \in Workers : ~At(w, "down")
  /\ Fault
  /\ task' = [w \in Workers |-> [Idle EXCEPT !.pc = "down"]]
  /\ lock' = Abandoned(Workers)
  /\ lost' = [p \in Payments |-> lost[p] + Cardinality(Unrecorded(p))]
  /\ RequeueUnacked
  /\ UNCHANGED <<payments, published, charges, posts, reported, overtaken>>

(* The operator starts it again; nothing in the repository does.           *)
Restart ==
  /\ \A w \in Workers : At(w, "down")
  /\ task' = [w \in Workers |-> Idle]
  /\ UNCHANGED <<msgs, lock, payments, published, faults, history>>

(* The AMQP connection drops and is re-established under running tasks.    *)
ConnectionLost ==
  /\ Fault
  /\ RequeueUnacked
  /\ UNCHANGED <<lock, payments, task, published, history>>

CallFails(w) ==
  \/ AcquireFails(w) \/ LoadFails(w) \/ RecordFails(w)
  \/ StampFails(w) \/ ReleaseFails(w) \/ RepublishFails(w)

-----------------------------------------------------------------------------
Next ==
  \/ \E p \in Payments : PublishPayment(p) \/ LockTtl(p)
  \/ \E m \in MsgIds : RetryTtl(m)
  \/ \E m \in MsgIds, w \in Workers : Receive(m, w)
  \/ \E w \in Workers : TaskStep(w) \/ CallFails(w)
  \/ Crash
  \/ Restart
  \/ ConnectionLost

Spec == Init /\ [][Next]_vars

(* Tasks run, queued messages are delivered while a task is free, TTLs     *)
(* elapse, and the operator restarts a dead consumer.  Nothing forces the  *)
(* environment to publish or to fail.                                      *)
Fairness ==
  /\ WF_vars(Restart)
  /\ \A w \in Workers : WF_vars(TaskStep(w))
  /\ WF_vars(\E m \in MsgIds, w \in Workers : Receive(m, w))
  /\ \A m \in MsgIds : WF_vars(RetryTtl(m))
  /\ \A p \in Payments : WF_vars(LockTtl(p))

FairSpec == Spec /\ Fairness

-----------------------------------------------------------------------------
(* Nothing is left to do for p: it has an outcome, and its receiver, if it *)
(* has one, has acknowledged it.                                           *)
Done(p) ==
  \/ payments[p].status = "absent"
  \/ /\ payments[p].status \in {"succeeded", "failed"}
     /\ p \in WithWebhook => payments[p].delivered

(* A stored message that will be delivered, or can be inspected in the DLQ.*)
(* An unacknowledged one whose task has already been told to forget it     *)
(* will not.                                                               *)
Carrying(m) ==
  \/ msgs[m].place \in Queues
  \/ /\ msgs[m].place = "unacked"
     /\ task[msgs[m].holder].exc # "suppressed"

(* A published payment is never forgotten: until there is nothing left to  *)
(* do for it, some message for it is on its way to a task or in the DLQ,   *)
(* whatever dies, drops or fails between republish, ack and reject.        *)
NoSilentLoss ==
  \A p \in Payments :
    published[p] > 0 /\ ~Done(p) =>
      \E m \in MsgIds : msgs[m].payment = p /\ Carrying(m)

(* No task has so far outlasted the TTL of p's lock.                       *)
InTime(p) == overtaken[p] = 0

(* The Redis lock keeps two deliveries for one payment, whether duplicate  *)
(* events, redeliveries under a running task or retries, out of the        *)
(* handler's body at the same time, until it expires under one of them.    *)
OneProcessorPerPayment ==
  \A v, w \in Workers :
    /\ task[v].pc \in Critical
    /\ task[w].pc \in Critical
    /\ task[v].payment = task[w].payment
    /\ InTime(task[v].payment)
    => v = w

(* Every successful charge is the one the row records, is about to be      *)
(* recorded, or was lost by a crash or a failed UPDATE between charge and  *)
(* mark_succeeded: money is taken twice only after such a loss (the comment*)
(* in execute names that case) or after the lock expired under a task, and *)
(* once for each time it did: however late a task is, it finds the outcome *)
(* of the one that overtook it, or is itself the one too many.             *)
ChargeAccounting ==
  \A p \in Payments :
    /\ InTime(p) =>
         charges[p] = lost[p] + Cardinality(Unrecorded(p))
                        + (IF payments[p].status = "succeeded" THEN 1 ELSE 0)
    /\ charges[p] <= 1 + lost[p] + overtaken[p]

(* While its lock holds, a receiver is told only the outcome the table     *)
(* records, and a payment marked delivered has had that outcome delivered. *)
WebhookTruthful ==
  \A p \in Payments : InTime(p) =>
    /\ reported[p] \subseteq {payments[p].status}
    /\ payments[p].delivered => reported[p] # {}

(* mark_succeeded and mark_failed overwrite whatever is there; the lock and*)
(* the status check keep them from overwriting an outcome.                 *)
StatusFinal ==
  [][\A p \in Payments :
       InTime(p) /\ payments[p].status # "pending" =>
         payments'[p].status = payments[p].status]_vars

(* Without faults an event costs at most MaxRetries webhook requests, even *)
(* if its lock expires under its tasks, and an event that was published    *)
(* once lands in the DLQ only after all of them, unless its lock expired   *)
(* (or the URL is unusable, which is not retried at all).                  *)
AttemptsAccounted ==
  faults = 0 =>
    /\ \A p \in Payments : posts[p] <= MaxRetries * published[p]
    /\ InvalidUrl \notin HttpCodes =>
         \A m \in MsgIds :
           LET p == msgs[m].payment IN
           msgs[m].place = "dlq" /\ InTime(p) /\ published[p] = 1 => posts[p] = MaxRetries

(* Retries end: once the environment stops publishing, the queues and the  *)
(* tasks run dry.                                                          *)
QueuesDrain ==
  <>[](\A m \in MsgIds : msgs[m].place \in {"nowhere", "dlq"})

-----------------------------------------------------------------------------
(* What makes the invariants above inductive (see ProcessPayment_proofs).  *)

Busy(w) == task[w].pc \notin {"idle", "down"}
Settled(p) == payments[p].status \in {"succeeded", "failed"}

(* A task knows what it works on; it has no exception before "release"     *)
(* except one that took it there; and it leaves the handler without one    *)
(* only when nothing is left to do.                                        *)
TaskOK(w) ==
  LET p == task[w].payment IN
  /\ Busy(w) => task[w].msg \in MsgIds /\ p \in Payments
  /\ task[w].pc \notin {"release", "middleware", "settle"} => task[w].exc = "none"
  /\ task[w].exc = "suppressed" => At(w, "settle")
  /\ task[w].pc \in {"charge", "record"} => payments[p].status # "absent"
  /\ task[w].pc \in {"webhook", "stamp"} => Settled(p)
  /\ task[w].pc \in {"release", "middleware", "settle"} /\ task[w].exc = "none" => Done(p)

TaskInv == \A w \in Workers : TaskOK(w)

(* The broker and the tasks agree on who works on what.                    *)
DeliveryInv ==
  \A m \in MsgIds :
    /\ msgs[m].place # "nowhere" => msgs[m].payment \in Payments
    /\ msgs[m].place = "unacked" =>
         /\ msgs[m].holder \in Workers
         /\ Busy(msgs[m].holder)
         /\ task[msgs[m].holder].msg = m
         /\ task[msgs[m].holder].payment = msgs[m].payment

(* Only an expired lock lets a task inside the handler's body be without   *)
(* its payment's lock.                                                     *)
Late(p) == {w \in Workers : /\ task[w].pc \in Critical
                            /\ task[w].payment = p
                            /\ lock[p] # w}

LockInv == \A p \in Payments : Cardinality(Late(p)) <= overtaken[p]

(* Under the lock, what a task has read stays true.                        *)
ReadOK(w) ==
  LET p == task[w].payment IN
  /\ task[w].pc \in {"charge", "record"} => payments[p].status = "pending"
  /\ task[w].pc \in {"webhook", "stamp"} => task[w].row.status = payments[p].status
  /\ At(w, "stamp") => reported[p] # {}

ReportedOK(p) ==
  /\ reported[p] \subseteq {payments[p].status}
  /\ payments[p].delivered => reported[p] # {}
  /\ payments[p].status = "pending" => reported[p] = {}

OutcomeInv ==
  /\ \A w \in Workers : task[w].pc \in Critical /\ InTime(task[w].payment) => ReadOK(w)
  /\ \A p \in Payments : InTime(p) => ReportedOK(p)

(* Until an outcome is recorded, nothing is charged that is not about to be*)
(* recorded or lost; from then on, only tasks that have loaded the row     *)
(* still charge.                                                           *)
Charging(p) == {w \in Workers : At(w, "charge") /\ task[w].payment = p}

ChargeInv ==
  \A p \in Payments :
    IF Settled(p)
      THEN charges[p] + Cardinality(Charging(p)) <= 1 + lost[p] + overtaken[p]
      ELSE charges[p] = lost[p] + Cardinality(Unrecorded(p))
=============================================================================
