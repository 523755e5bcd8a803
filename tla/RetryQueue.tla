------------------------------ MODULE RetryQueue ----------------------------
(***************************************************************************)
(* The time messages spend in payments.new.retry.  RetryMiddleware stores a*)
(* failed message there with a TTL of exponential_backoff_seconds(attempt);*)
(* RabbitMQ keeps the queue in order of arrival and dead-letters an expired*)
(* message to payments.new only once it is at the head.                    *)
(*                                                                         *)
(* Time is counted in whole seconds.  The broker is prompt: time does not  *)
(* pass while the head of the queue is expired.  How long a message is     *)
(* processed in between is arbitrary, and every attempt may fail.          *)
(***************************************************************************)
EXTENDS Backoff, Sequences

CONSTANTS
  Messages,
  MaxRetries,    \* settings.payment_max_retries
  Longest,       \* a bound of the delays the middleware asks for
  MaxTime        \* bound: length of a behaviour, in seconds

ASSUME RetryConstants ==
  /\ MaxRetries \in Nat
  /\ MaxTime \in Nat
  /\ Longest \in Nat
  /\ \A n \in 1..MaxRetries - 1 : Backoff(n) \in 0..Longest

VARIABLES
  now,
  queue,     \* payments.new.retry
  retries,   \* x-retry-count of each message
  place      \* where each message is

vars == <<now, queue, retries, place>>

(* stored: when the copy was published; expires: when its TTL ends.        *)
Entry == [msg : Messages, stored : Nat, expires : Nat]

TypeOK ==
  /\ now \in 0..MaxTime
  /\ queue \in Seq(Entry)
  /\ retries \in [Messages -> Nat]
  /\ place \in [Messages -> {"outbox", "new", "retry", "finished"}]

Init ==
  /\ now = 0
  /\ queue = <<>>
  /\ retries = [m \in Messages |-> 0]
  /\ place = [m \in Messages |-> "outbox"]

-----------------------------------------------------------------------------
(* The outbox publishes the messages in M to payments.new.                 *)
Arrive(M) ==
  /\ \A m \in M : place[m] = "outbox"
  /\ place' = [m \in Messages |-> IF m \in M THEN "new" ELSE place[m]]
  /\ UNCHANGED <<now, queue, retries>>

ExhaustedLate(m) == retries[m] >= MaxRetries      \* mutant: the old count is compared
Exhausted(m) == retries[m] + 1 >= MaxRetries

ExpirationMilliseconds(m) == 0       \* mutant: seconds passed as milliseconds
Expiration(m) == Backoff(retries[m] + 1)

(* The webhook fails with a retryable error and the message is republished.*)
Republish(m) ==
  /\ place[m] = "new"
  /\ ~Exhausted(m)
  /\ queue' = Append(queue, [msg |-> m, stored |-> now, expires |-> now + Expiration(m)])
  /\ retries' = [retries EXCEPT ![m] = @ + 1]
  /\ place' = [place EXCEPT ![m] = "retry"]
  /\ UNCHANGED now

(* Delivered, or given up.                                                 *)
Finish(m) ==
  /\ place[m] = "new"
  /\ place' = [place EXCEPT ![m] = "finished"]
  /\ UNCHANGED <<now, queue, retries>>

HeadExpired == queue # <<>> /\ queue[1].expires <= now

(* The head is dead-lettered to payments.new.                              *)
Return ==
  /\ HeadExpired
  /\ place' = [place EXCEPT ![queue[1].msg] = "new"]
  /\ queue' = Tail(queue)
  /\ UNCHANGED <<now, retries>>

Tick ==
  /\ now < MaxTime
  /\ ~HeadExpired
  /\ now' = now + 1
  /\ UNCHANGED <<queue, retries, place>>

Next ==
  \/ \E m \in Messages : Arrive({m}) \/ Republish(m) \/ Finish(m)
  \/ Return \/ Tick

Spec == Init /\ [][Next]_vars

-----------------------------------------------------------------------------
(* However many messages wait, and in whatever order, none waits longer    *)
(* than the longest delay the middleware ever asks for: the messages in    *)
(* front of it may have longer delays, but they have been there longer.    *)
DelayBounded == \A i \in 1..Len(queue) : now <= queue[i].stored + Longest

(* A message is not tried again before its own backoff has passed, for any *)
(* mix of attempts in the queue.                                           *)
NotBeforeBackoff ==
  [][\A m \in Messages :
       place[m] = "retry" /\ place'[m] = "new" =>
         \E i \in 1..Len(queue) :
           queue[i].msg = m /\ now - queue[i].stored >= Backoff(retries[m])]_vars

-----------------------------------------------------------------------------
(* README.md: when its TTL expires, RabbitMQ returns the message to        *)
(* payments.new.                                                           *)
ReturnedOnExpiry == \A i \in 1..Len(queue) : now <= queue[i].expires

-----------------------------------------------------------------------------
(* Why DelayBounded holds (see Delays_proofs): the queue is in order of    *)
(* publication, and no delay exceeds Longest.                              *)
InOrder ==
  /\ \A i, j \in 1..Len(queue) : i <= j => queue[i].stored <= queue[j].stored
  /\ \A i \in 1..Len(queue) :
       /\ queue[i].stored <= now
       /\ queue[i].expires <= queue[i].stored + Longest
=============================================================================
