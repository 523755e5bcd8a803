------------------------------- MODULE Broker -------------------------------
(***************************************************************************)
(* RabbitMQ as app/infra/broker declares it: a topic exchange with three   *)
(* durable queues whose routing keys are their names,                      *)
(*                                                                         *)
(*     new   = payments.new         dead-letters to dlq                    *)
(*     retry = payments.new.retry   dead-letters to new (per-message TTL)  *)
(*     dlq   = payments.new.dlq     has no consumer and no dead-lettering  *)
(*                                                                         *)
(* A message is an identifier with the payment it triggers, the value of   *)
(* its x-retry-count header and the place it is in.  All messages are      *)
(* published persistent, so a broker restart only returns unacknowledged   *)
(* messages to their queue (RequeueUnacked).  The order of a queue is left *)
(* out: the consumer has no prefetch limit and runs its handlers           *)
(* concurrently, so no property here may depend on it.                     *)
(***************************************************************************)
EXTENDS Naturals

CONSTANTS
  Payments,     \* the payment ids the messages refer to
  MsgIds,       \* identities of the message copies the broker ever stores
  Workers,      \* the consumer's concurrently running handler tasks
  None          \* no payment, no message, no worker

VARIABLE msgs

ASSUME NoneIsFresh == None \notin Payments \cup MsgIds \cup Workers

Queues == {"new", "retry", "dlq"}

Message == [payment : Payments \cup {None},
            retries : Nat,
            place   : Queues \cup {"unacked", "nowhere"},
            holder  : Workers \cup {None}]

(* A message the broker does not store: not yet published, or acknowledged *)
(* and therefore deleted.                                                  *)
NoMessage == [payment |-> None, retries |-> 0, place |-> "nowhere", holder |-> None]

BrokerTypeOK == msgs \in [MsgIds -> Message]

BrokerInit == msgs = [m \in MsgIds |-> NoMessage]

DeadLetterToLossy == [new |-> "dlq", retry |-> "nowhere"]   \* mutant: no DLX

(* x-dead-letter-exchange / x-dead-letter-routing-key of each queue that   *)
(* can lose a message.                                                     *)
DeadLetterTo == [new |-> "dlq", retry |-> "new"]

(***************************************************************************)
(* The operators below give the new value of msgs.                         *)
(***************************************************************************)
Stored(m, p, n, q) ==
  [msgs EXCEPT ![m] = [payment |-> p, retries |-> n, place |-> q, holder |-> None]]

Moved(m, place) == [msgs EXCEPT ![m].place = place, ![m].holder = None]

(* basic.ack and basic.reject carry the delivery tag of one channel: after *)
(* the channel is gone they reach nobody, the message having been requeued.*)
Owned(m, w) == msgs[m].place = "unacked" /\ msgs[m].holder = w

Acked(m, w)    == IF Owned(m, w) THEN [msgs EXCEPT ![m] = NoMessage] ELSE msgs
Rejected(m, w) == IF Owned(m, w) THEN Moved(m, DeadLetterTo.new) ELSE msgs

-----------------------------------------------------------------------------
(* broker.publish(..., routing_key = q, persist = True)                    *)
Publish(m, p, n, q) ==
  /\ msgs[m] = NoMessage
  /\ msgs' = Stored(m, p, n, q)

(* basic.deliver from payments.new to a subscriber task.                   *)
Deliver(m, w) ==
  /\ msgs[m].place = "new"
  /\ msgs' = [msgs EXCEPT ![m].place = "unacked", ![m].holder = w]

(* The per-message TTL of a message in payments.new.retry runs out.        *)
ExpireTtl(m) ==
  /\ msgs[m].place = "retry"
  /\ msgs' = Moved(m, DeadLetterTo.retry)

(* The consumer's channel closes: everything unacknowledged goes back.     *)
RequeueUnacked ==
  msgs' = [m \in MsgIds |->
             IF msgs[m].place = "unacked"
               THEN [msgs[m] EXCEPT !.place = "new", !.holder = None]
               ELSE msgs[m]]
=============================================================================
