---------------------------- MODULE PaymentSystem ---------------------------
(***************************************************************************)
(* The three services together: the API of CreatePayment, the outbox       *)
(* publishers of OutboxPublisher and the consumer of ProcessPayment, over  *)
(* one PostgreSQL and one RabbitMQ.                                        *)
(*                                                                         *)
(* What joins them: COMMIT of create makes the payment row visible to the  *)
(* consumer and its event row visible to the publishers; an accepted       *)
(* publish is a message in payments.new.  Everything else is the           *)
(* components' own.  A payment is identified by the request that creates   *)
(* it, here and in its event and messages.  The consumer is extended, not  *)
(* instantiated: its variables and constants are the system's, with        *)
(* published as the publishers' sent, and with outbox publishers in the    *)
(* place of PublishPayment.                                                *)
(***************************************************************************)
EXTENDS ProcessPayment

CONSTANTS
  Keys, Bodies,                               \* see CreatePayment
  Publishers, BatchSize, MaxPublishRetries,   \* see OutboxPublisher
  ApiMayStall       \* a request may outlast the TTL of its idempotency lock

(* The payments table is empty at first, and MaxFaults bounds the faults of*)
(* all services together.                                                  *)
ASSUME SystemConstants ==
  /\ Unknown = Payments
  /\ None \notin Keys \cup Bodies
  /\ Free \notin Payments
  /\ Orphan \notin Payments
  /\ ApiMayStall \in BOOLEAN
  /\ BatchSize \in Nat \ {0}
  /\ MaxPublishRetries \in Nat

VARIABLES
  apiLock, rows, events, req,     \* see CreatePayment
  outbox, proc, refused           \* see OutboxPublisher

apiVars == <<apiLock, rows, events, req>>
outboxVars == <<outbox, proc, refused>>
consumerVars == <<msgs, lock, payments, task, history>>
systemVars == <<apiVars, outboxVars, consumerVars, published, faults>>

Api == INSTANCE CreatePayment WITH
  Requests <- Payments, NoPayment <- None, LockKeys <- Keys, Holders <- Payments,
  HoldersMayStall <- ApiMayStall, lock <- apiLock

Outbox == INSTANCE OutboxPublisher WITH
  Events <- Payments, NoEvent <- None, sent <- published

SystemInit == Api!Init /\ Outbox!Init /\ Init

-----------------------------------------------------------------------------
(* payments, as the key's row in rows and as the consumer's row, is one    *)
(* table; so is the outbox, as events and as outbox.                       *)
Committed(r) == \E k \in Keys : rows[k].payment = r

ApiStep ==
  /\ Api!Next
  /\ payments' = [r \in Payments |->
       IF Committed(r)' /\ ~Committed(r)
         THEN [status |-> "pending", delivered |-> FALSE] ELSE payments[r]]
  /\ outbox' = [r \in Payments |->
       IF events'[r] > events[r]
         THEN [status |-> "pending", retries |-> 0, due |-> TRUE] ELSE outbox[r]]
  /\ UNCHANGED <<proc, published, refused, msgs, lock, task, history>>

ForwardUnrouted(e) == UNCHANGED msgs     \* mutant: no queue is bound to the exchange

(* The broker stores what it has accepted.                                 *)
Forward(e) == \E m \in MsgIds : Publish(m, e, 0, "new")

Published ==
  /\ IF published' = published
       THEN UNCHANGED msgs
       ELSE \E e \in Payments : published'[e] > published[e] /\ Forward(e)
  /\ UNCHANGED <<apiVars, lock, payments, task, history>>

PublisherStep ==
  \/ \E e \in Payments : Outbox!BackoffElapses(e) /\ Published
  \/ \E w \in Publishers :
       /\ \/ Outbox!Step(w) \/ Outbox!Restart(w) \/ Outbox!PublishFails(w)
          \/ Outbox!UpdateFails(w) \/ Outbox!CommitFails(w) \/ Outbox!Crash(w)
       /\ Published

Consumed == UNCHANGED <<apiVars, outbox, proc, refused>>

ConsumerStep ==
  /\ \/ \E p \in Payments : LockTtl(p)
     \/ \E m \in MsgIds : RetryTtl(m)
     \/ \E m \in MsgIds, w \in Workers : Receive(m, w)
     \/ \E w \in Workers : TaskStep(w) \/ CallFails(w)
     \/ Crash
     \/ Restart
     \/ ConnectionLost
  /\ Consumed

SystemNext == ApiStep \/ PublisherStep \/ ConsumerStep

SystemSpec == SystemInit /\ [][SystemNext]_systemVars

(* Publishers and tasks run, time passes, queued messages are delivered,   *)
(* and the operator restarts a publisher or a consumer that has ended.     *)
(* Nothing makes clients ask, or the API answer.                           *)
SystemFairness ==
  /\ \A w \in Publishers : WF_systemVars((Outbox!Step(w) \/ Outbox!Restart(w)) /\ Published)
  /\ \A e \in Payments : WF_systemVars(Outbox!BackoffElapses(e) /\ Published)
  /\ \A w \in Workers : WF_systemVars(TaskStep(w) /\ Consumed)
  /\ WF_systemVars((\E m \in MsgIds, w \in Workers : Receive(m, w)) /\ Consumed)
  /\ \A m \in MsgIds : WF_systemVars(RetryTtl(m) /\ Consumed)
  /\ \A p \in Payments : WF_systemVars(LockTtl(p) /\ Consumed)
  /\ WF_systemVars(Restart /\ Consumed)

FairSystemSpec == SystemSpec /\ SystemFairness

-----------------------------------------------------------------------------
Exists(r) == payments[r].status # "absent"
Accepted(r) == Api!Answered(r) /\ req[r].code = 202

(* A committed payment is never stranded between the services: as long as  *)
(* something is left to do for it, its event will still be published (or   *)
(* has been given up on as failed) or a message for it is on its way or in *)
(* the DLQ, whatever is rolled back, lost or restarted on the way.         *)
NothingStranded ==
  \A r \in Payments :
    Exists(r) /\ ~Done(r) =>
      \/ outbox[r].status \in {"pending", "failed"}
      \/ \E m \in MsgIds : msgs[m].payment = r /\ Carrying(m)

(* Nothing is published, charged or reported for a request that created no *)
(* payment, and a client told 202 finds the payment it was given when it   *)
(* asks for it, however soon.                                              *)
OnlyCommittedPayments ==
  \A r \in Payments :
    /\ ~Exists(r) => /\ published[r] = 0 /\ charges[r] = 0 /\ reported[r] = {}
                     /\ \A m \in MsgIds : msgs[m].payment # r
    /\ Accepted(r) => Exists(req[r].payment)

(* A client that repeats a request with the same key, because an answer was*)
(* lost or said 500, has it charged once: for one payment, and once more   *)
(* only for a charge that was lost before it was recorded, or for each time*)
(* the payment's lock expired under a task.                                *)
OneChargePerKey ==
  \A r, s \in Payments :
    charges[r] > 0 /\ charges[s] > 0 /\ req[r].key = req[s].key =>
      r = s /\ charges[r] <= 1 + lost[r] + overtaken[r]

(* Whatever the client was told, a committed payment is eventually done, or*)
(* its event is where somebody can find it: in the DLQ, or in the outbox,  *)
(* given up after MAX_PUBLISH_RETRIES refused publishes.  Nothing stays    *)
(* under way for ever.                                                     *)
CommittedIsSettled ==
  \A r \in Payments :
    Exists(r) ~>
      \/ Done(r)
      \/ \E m \in MsgIds : msgs[m].payment = r /\ msgs[m].place = "dlq"
      \/ outbox[r].status = "failed"
=============================================================================
