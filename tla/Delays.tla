-------------------------------- MODULE Delays ------------------------------
(***************************************************************************)
(* The delays of one event from its row in the outbox to the end of its    *)
(* webhook retries, on one clock: OutboxSchedule until the publisher's     *)
(* publish is accepted, RetryQueue from then on.                           *)
(***************************************************************************)
EXTENDS RetryQueue, FiniteSets

CONSTANTS BatchSize, PollInterval, MaxPublishRetries, ServerOffset   \* see OutboxSchedule

(* A server west of UTC would make new rows wait for its offset.           *)
ASSUME DelaysConstants ==
  /\ IsFiniteSet(Messages)
  /\ BatchSize \in Nat \ {0}
  /\ PollInterval \in Nat
  /\ MaxPublishRetries \in Nat \ {0}
  /\ ServerOffset \in Nat

(* Arithmetic the provers lack: powers of 5.                               *)
ASSUME BackoffGrows ==
  /\ Backoff(1) = 1
  /\ \A n \in 1..MaxPublishRetries : Backoff(n) \in Nat \ {0}
  /\ \A n \in 1..MaxPublishRetries - 1 : Backoff(n + 1) = 5 * Backoff(n)

VARIABLES wake, up, outbox, tried     \* see OutboxSchedule

outboxVars == <<wake, up, outbox, tried>>

Outbox == INSTANCE OutboxSchedule WITH Events <- Messages

DelaysInit == Init /\ Outbox!Init

-----------------------------------------------------------------------------
Accepted == {m \in Messages : place[m] = "outbox" /\ outbox'[m].status = "published"}

PublisherStep ==
  /\ \/ \E m \in Messages : Outbox!Insert(m)
     \/ Outbox!Sleep
     \/ Outbox!BrokerChanges
     \/ Outbox!ProcessBatch
  /\ Arrive(Accepted)

ConsumerStep ==
  /\ (\E m \in Messages : Republish(m) \/ Finish(m)) \/ Return
  /\ UNCHANGED outboxVars

DelaysTick == Tick /\ Outbox!Tick

DelaysNext == PublisherStep \/ ConsumerStep \/ DelaysTick

DelaysSpec == DelaysInit /\ [][DelaysNext]_<<vars, outboxVars>>

-----------------------------------------------------------------------------
(* No broker outage shorter than the sum of the backoffs loses an event.   *)
FailureNeedsLongOutage == Outbox!FailureNeedsLongOutage

(* A due event is tried within a poll interval.                            *)
TriedOnTime == Outbox!TriedOnTime
=============================================================================
