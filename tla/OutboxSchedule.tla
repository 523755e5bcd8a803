---------------------------- MODULE OutboxSchedule --------------------------
(***************************************************************************)
(* When outbox events are tried: available_at, the poll interval, the      *)
(* backoff after a refused publish and the limit on them, for one publisher*)
(* and a broker that comes and goes.  OutboxPublisher has the transactions;*)
(* here a batch takes no time and is committed.                            *)
(*                                                                         *)
(* Time is counted in whole seconds of UTC, and the publisher is prompt:   *)
(* time does not pass while it has something to do.  A new row's           *)
(* available_at is (now() at time zone 'utc'), a time without time zone    *)
(* that the column reads in the server's zone: it comes out ServerOffset   *)
(* too early, which the image postgres:16-alpine keeps at zero.            *)
(***************************************************************************)
EXTENDS Backoff, FiniteSets

CONSTANTS
  Events,
  BatchSize,           \* settings.outbox_batch_size
  PollInterval,        \* settings.outbox_poll_interval_seconds
  MaxPublishRetries,   \* MAX_PUBLISH_RETRIES
  ServerOffset,        \* UTC offset of the database server, in seconds
  MaxTime              \* bound: length of a behaviour, in seconds

VARIABLES
  now,
  wake,       \* when the publisher looks at the outbox again
  up,         \* whether the broker accepts messages
  outbox,     \* the rows
  tried       \* history: of each event, the creation and the first and last refusal

vars == <<now, wake, up, outbox, tried>>

Row == [status : {"absent", "pending", "published", "failed"},
        retries : 0..MaxPublishRetries, available_at : Int]

TypeOK ==
  /\ now \in 0..MaxTime
  /\ wake \in now..now + PollInterval
  /\ up \in BOOLEAN
  /\ outbox \in [Events -> Row]
  /\ tried \in [Events -> [created : Nat, first : Nat, last : Nat]]

Init ==
  /\ now = 0
  /\ wake = 0
  /\ up \in BOOLEAN
  /\ outbox = [e \in Events |-> [status |-> "absent", retries |-> 0, available_at |-> 0]]
  /\ tried = [e \in Events |-> [created |-> 0, first |-> 0, last |-> 0]]

-----------------------------------------------------------------------------
AvailableWest == now + 2 * PollInterval   \* mutant: a server west of UTC
AvailableByDefault == now - ServerOffset

Insert(e) ==
  /\ outbox[e].status = "absent"
  /\ outbox' = [outbox EXCEPT ![e].status = "pending", ![e].available_at = AvailableByDefault]
  /\ tried' = [tried EXCEPT ![e].created = now]
  /\ UNCHANGED <<now, wake, up>>

Due(e) == outbox[e].status = "pending" /\ outbox[e].available_at <= now

(* ORDER BY available_at LIMIT BatchSize.                                  *)
Batches ==
  LET D == {e \in Events : Due(e)} IN
  {B \in SUBSET D :
     /\ Cardinality(B) = IF Cardinality(D) < BatchSize THEN Cardinality(D) ELSE BatchSize
     /\ \A e \in B, f \in D \ B : outbox[e].available_at <= outbox[f].available_at}

RefusedAtOnce(row) ==    \* mutant: backoff of the count before, without its first entry
  [status |-> IF row.retries + 1 >= MaxPublishRetries THEN "failed" ELSE "pending",
   retries |-> row.retries + 1,
   available_at |-> now + Backoff(row.retries)]

(* mark_failed with the values _publish_one computes.                      *)
Refused(row) ==
  [status |-> IF row.retries + 1 >= MaxPublishRetries THEN "failed" ELSE "pending",
   retries |-> row.retries + 1,
   available_at |-> now + Backoff(row.retries + 1)]

(* _process_batch with events: run() goes on without sleeping.             *)
ProcessBatch ==
  /\ now = wake
  /\ \E B \in Batches \ {{}} :
       /\ outbox' = [e \in Events |->
            CASE e \notin B -> outbox[e]
              [] e \in B /\ up -> [outbox[e] EXCEPT !.status = "published"]
              [] OTHER -> Refused(outbox[e])]
       /\ tried' = [e \in Events |->
            IF e \in B /\ ~up
              THEN [tried[e] EXCEPT !.first = IF outbox[e].retries = 0 THEN now ELSE @,
                                    !.last = now]
              ELSE tried[e]]
  /\ UNCHANGED <<now, wake, up>>

(* _process_batch without events, and _sleep.                              *)
Sleep ==
  /\ now = wake
  /\ Batches = {{}}
  /\ wake' = now + PollInterval
  /\ UNCHANGED <<now, up, outbox, tried>>

BrokerChanges == up' = ~up /\ UNCHANGED <<now, wake, outbox, tried>>

Tick ==
  /\ now < wake
  /\ now < MaxTime
  /\ now' = now + 1
  /\ UNCHANGED <<wake, up, outbox, tried>>

Next == (\E e \in Events : Insert(e)) \/ ProcessBatch \/ Sleep \/ BrokerChanges \/ Tick

Spec == Init /\ [][Next]_vars

-----------------------------------------------------------------------------
(* The seconds a broker may be away without an event being given up: the   *)
(* sum 1 + 5 + 25 + ... of the backoffs of all refusals but the last.      *)
OutageSurvived == (Backoff(MaxPublishRetries) - 1) \div 4

(* An event is given up only when publishes of it were refused over at     *)
(* least the sum of the backoffs, 156 s with the limit of 5: no shorter    *)
(* outage loses a payment, however often the publisher polls.              *)
FailureNeedsLongOutage ==
  \A e \in Events :
    outbox[e].status = "failed" => tried[e].last - tried[e].first >= OutageSurvived

(* A pending event is tried within a poll interval of when it should be: at*)
(* once when it is new, after its backoff when it was refused.             *)
TriedOnTime ==
  \A e \in Events :
    outbox[e].status = "pending" =>
      now <= PollInterval + IF outbox[e].retries = 0
                              THEN tried[e].created
                              ELSE tried[e].last + Backoff(outbox[e].retries)
=============================================================================
