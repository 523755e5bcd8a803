------------------------------ MODULE Topology ------------------------------
(***************************************************************************)
(* How the exchange, the queues and the bindings come to exist while the   *)
(* service starts: declare_topology in each outbox publisher before its    *)
(* first publish, and in the consumer only after its subscription, which   *)
(* declares and binds payments.new by itself, is already consuming.        *)
(*                                                                         *)
(* What is declared is durable and outlives every process (but not, in     *)
(* Deployment, the broker's container).  A message whose                   *)
(* routing key no queue is bound to is dropped, both when it is published  *)
(* (the channel does not raise on returned messages) and when it is        *)
(* dead-lettered.  What the consumer does with a message is one step here; *)
(* ProcessPayment has the details.                                         *)
(***************************************************************************)
EXTENDS Naturals, Sequences

CONSTANTS
  Publishers,     \* the outbox-publisher processes
  Messages,       \* outbox events, and the message each becomes
  MaxCrashes      \* bound: processes that die or fail to start

ASSUME TopologyConstants == MaxCrashes \in Nat

VARIABLES
  exists,       \* what has been declared on the broker
  subscribed,   \* declarations of the consumer's subscriber so far
  hook,         \* declarations of the consumer's after_startup hook so far
  started,      \* declarations of each publisher so far
  place,        \* where each message is
  crashes       \* processes that have died so far

vars == <<exists, subscribed, hook, started, place, crashes>>

Exchange == <<"exchange", "payments">>
Queue(q) == <<"queue", q>>
Binding(q) == <<"binding", q>>

(* The declarations of declare_topology, in their order.                   *)
Declarations ==
  <<Exchange, Queue("new"), Queue("retry"), Queue("dlq"),
    Binding("new"), Binding("retry"), Binding("dlq")>>

(* Those of the consumer's subscriber.                                     *)
Subscription == <<Queue("new"), Exchange, Binding("new")>>

Everything == {Declarations[i] : i \in 1..7}

(* Where a message is while the broker has it.                             *)
InBroker == {"new", "retry", "dlq", "unacked"}

TypeOK ==
  /\ exists \subseteq Everything
  /\ subscribed \in 0..3
  /\ hook \in 0..7
  /\ started \in [Publishers -> 0..7]
  /\ place \in [Messages -> {"outbox", "done", "dropped", "gone"} \cup InBroker]
  /\ crashes \in 0..MaxCrashes

Init ==
  /\ exists = {}
  /\ subscribed = 0
  /\ hook = 0
  /\ started = [p \in Publishers |-> 0]
  /\ place = [m \in Messages |-> "outbox"]
  /\ crashes = 0

-----------------------------------------------------------------------------
(* A message with routing key q reaches the exchange.                      *)
Routed(q) == IF Binding(q) \in exists THEN q ELSE "dropped"

Consuming == subscribed = 3

PublishingConnected(p) == TRUE   \* mutant: run() publishes once connected
Publishing(p) == started[p] = 7

PublisherDeclares(p) ==
  /\ started[p] < 7
  /\ exists' = exists \cup {Declarations[started[p] + 1]}
  /\ started' = [started EXCEPT ![p] = @ + 1]
  /\ UNCHANGED <<subscribed, hook, place, crashes>>

(* broker.start(): the subscriber of payments.new.                         *)
ConsumerSubscribes ==
  /\ subscribed < 3
  /\ exists' = exists \cup {Subscription[subscribed + 1]}
  /\ subscribed' = subscribed + 1
  /\ UNCHANGED <<hook, started, place, crashes>>

(* app.after_startup(_declare_topology), with messages already flowing.    *)
ConsumerDeclares ==
  /\ Consuming
  /\ hook < 7
  /\ exists' = exists \cup {Declarations[hook + 1]}
  /\ hook' = hook + 1
  /\ UNCHANGED <<subscribed, started, place, crashes>>

-----------------------------------------------------------------------------
MoveTo(m, from, to) ==
  /\ place[m] = from
  /\ place' = [place EXCEPT ![m] = to]
  /\ UNCHANGED <<exists, subscribed, hook, started, crashes>>

PublishEvent(p, m) == Publishing(p) /\ MoveTo(m, "outbox", Routed("new"))

Receive(m) == Consuming /\ MoveTo(m, "new", "unacked")

(* Acknowledged; rejected, and dead-lettered; or republished for a retry   *)
(* and acknowledged.                                                       *)
Settle(m) ==
  /\ Consuming
  /\ \E to \in {"done", Routed("dlq"), Routed("retry")} : MoveTo(m, "unacked", to)

RetryTtl(m) == MoveTo(m, "retry", Routed("new"))

-----------------------------------------------------------------------------
Fault == crashes < MaxCrashes /\ crashes' = crashes + 1

(* A process dies, or a declaration raises, and it is started again.       *)
PublisherCrashes(p) ==
  /\ Fault
  /\ started' = [started EXCEPT ![p] = 0]
  /\ UNCHANGED <<exists, subscribed, hook, place>>

ConsumerCrashes ==
  /\ Fault
  /\ subscribed' = 0
  /\ hook' = 0
  /\ place' = [m \in Messages |-> IF place[m] = "unacked" THEN "new" ELSE place[m]]
  /\ UNCHANGED <<exists, started>>

Next ==
  \/ \E p \in Publishers :
       PublisherDeclares(p) \/ PublisherCrashes(p) \/ \E m \in Messages : PublishEvent(p, m)
  \/ ConsumerSubscribes \/ ConsumerDeclares \/ ConsumerCrashes
  \/ \E m \in Messages : Receive(m) \/ Settle(m) \/ RetryTtl(m)

Spec == Init /\ [][Next]_vars

-----------------------------------------------------------------------------
(* No message ever meets a missing binding, in whatever order the processes*)
(* start, die and start again, although the consumer takes messages before *)
(* it has declared where they are dead-lettered to.  What makes it true is *)
(* that the broker has no message before some publisher has declared       *)
(* everything.                                                             *)
NothingDropped == \A m \in Messages : place[m] # "dropped"

(* Why NothingDropped is inductive (see Deployment_proofs).                  *)
DeclaredInOrder ==
  \A p \in Publishers : \A i \in 1..started[p] : Declarations[i] \in exists

MessagesComeLast == (\E m \in Messages : place[m] \in InBroker) => Everything \subseteq exists
=============================================================================
