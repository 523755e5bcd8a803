----------------------------- MODULE Delays_proofs ---------------------------
(***************************************************************************)
(* Proofs about the delays of an event, in the outbox and in the retry     *)
(* queue, for any number of events, retries and seconds.                   *)
(*                                                                         *)
(* DelayBounded is inductive together with InOrder: time passes only while *)
(* the head is not expired, and every entry was stored after the head,     *)
(* whose TTL is at most Longest.  NotBeforeBackoff rests on Waiting: the   *)
(* queue has one entry for each message in it, with the TTL of the         *)
(* message's attempt.  The outbox rests on Scheduled: available_at, the    *)
(* refusals remembered and the number of retries of a row agree; and on    *)
(* Watched: the publisher's next look is within a poll interval of when a  *)
(* pending row is due.                                                     *)
(***************************************************************************)
EXTENDS Delays, FiniteSetTheorems, TLAPS

Inv == TypeOK /\ InOrder /\ DelayBounded

(* The times of every entry are numbers.                                   *)
LEMMA EntryTimes ==
  ASSUME queue \in Seq(Entry)
  PROVE  \A i \in 1..Len(queue) : queue[i].stored \in Nat /\ queue[i].expires \in Nat
<1>1. \A i \in 1..Len(queue) : queue[i] \in Entry
  OBVIOUS
<1> QED
  BY <1>1 DEF Entry

(* The invariant holds initially.                                          *)
LEMMA InitInv == Init => Inv
<1> SUFFICES ASSUME Init PROVE Inv
  OBVIOUS
<1>1. TypeOK
  <2>1. now \in 0..MaxTime
    BY RetryConstants DEF Init
  <2>2. queue \in Seq(Entry)
    BY DEF Init
  <2>3. retries \in [Messages -> Nat] /\ place \in [Messages -> {"outbox", "new", "retry", "finished"}]
    BY DEF Init
  <2> QED
    BY <2>1, <2>2, <2>3 DEF TypeOK
<1>2. Len(queue) = 0
  BY DEF Init
<1> QED
  BY <1>1, <1>2 DEF Inv, InOrder, DelayBounded

(* A message joins at the end, with a delay the middleware asks for.       *)
LEMMA RepublishInv ==
  ASSUME Inv, NEW m \in Messages, Republish(m)
  PROVE  Inv'
<1> DEFINE e == [msg |-> m, stored |-> now, expires |-> now + Expiration(m)]
<1>1. now \in Nat /\ queue \in Seq(Entry) /\ retries[m] \in Nat /\ MaxRetries \in Nat
  BY RetryConstants DEF Inv, TypeOK
<1>2. Expiration(m) \in 0..Longest
  <2>1. retries[m] + 1 \in 1..MaxRetries - 1
    BY <1>1 DEF Republish, Exhausted
  <2> QED
    BY <2>1, RetryConstants DEF Expiration
<1>3. Longest \in Nat
  BY RetryConstants
<1>4. e \in Entry
  BY <1>1, <1>2, <1>3 DEF Entry
<1>5. queue' = Append(queue, e) /\ now' = now
  BY DEF Republish
<1>6. /\ Len(queue') = Len(queue) + 1
      /\ \A i \in 1..Len(queue) : queue'[i] = queue[i]
      /\ queue'[Len(queue) + 1] = e
  BY <1>1, <1>4, <1>5
<1>7. \A i \in 1..Len(queue) : queue[i].stored \in Nat
  BY <1>1, EntryTimes
<1>8. TypeOK'
  <2>1. queue' \in Seq(Entry)
    BY <1>1, <1>4, <1>5
  <2>2. retries' \in [Messages -> Nat] /\ place' \in [Messages -> {"outbox", "new", "retry", "finished"}]
    BY <1>1 DEF Republish, Inv, TypeOK
  <2> QED
    BY <2>1, <2>2, <1>5 DEF Inv, TypeOK
<1>9. InOrder'
  <2>1. ASSUME NEW i \in 1..Len(queue'), NEW j \in 1..Len(queue'), i <= j
        PROVE  queue'[i].stored <= queue'[j].stored
    <3>1. CASE j <= Len(queue)
      BY <3>1, <2>1, <1>6 DEF Inv, InOrder
    <3>2. CASE j = Len(queue) + 1 /\ i <= Len(queue)
      BY <3>2, <1>6 DEF Inv, InOrder
    <3>3. CASE j = Len(queue) + 1 /\ i = Len(queue) + 1
      BY <3>3, <1>6, <1>1
    <3> QED
      BY <2>1, <1>6, <3>1, <3>2, <3>3
  <2>2. ASSUME NEW i \in 1..Len(queue')
        PROVE  queue'[i].stored <= now' /\ queue'[i].expires <= queue'[i].stored + Longest
    <3>1. CASE i <= Len(queue)
      BY <3>1, <1>5, <1>6 DEF Inv, InOrder
    <3>2. CASE i = Len(queue) + 1
      BY <3>2, <1>1, <1>2, <1>3, <1>5, <1>6
    <3> QED
      BY <1>6, <3>1, <3>2
  <2> QED
    BY <2>1, <2>2 DEF InOrder
<1>10. DelayBounded'
  <2> SUFFICES ASSUME NEW i \in 1..Len(queue')
               PROVE  now' <= queue'[i].stored + Longest
    BY DEF DelayBounded
  <2>1. CASE i <= Len(queue)
    BY <2>1, <1>5, <1>6 DEF Inv, DelayBounded
  <2>2. CASE i = Len(queue) + 1
    BY <2>2, <1>1, <1>3, <1>5, <1>6
  <2> QED
    BY <1>6, <2>1, <2>2
<1> QED
  BY <1>8, <1>9, <1>10 DEF Inv

(* The head leaves: the others keep their order and their times.           *)
LEMMA ReturnInv ==
  ASSUME Inv, Return
  PROVE  Inv'
<1>1. queue \in Seq(Entry) /\ queue # <<>> /\ queue' = Tail(queue) /\ now' = now
  BY DEF Inv, TypeOK, Return, HeadExpired
<1>2. /\ Len(queue') = Len(queue) - 1 /\ Len(queue) \in Nat
      /\ \A i \in 1..Len(queue') : queue'[i] = queue[i + 1]
      /\ queue' \in Seq(Entry)
  BY <1>1
<1>3. \A i \in 1..Len(queue') : i + 1 \in 1..Len(queue)
  BY <1>2
<1>4. queue[1].msg \in Messages
  <2>1. queue[1] \in Entry
    BY <1>1
  <2> QED
    BY <2>1 DEF Entry
<1>5. place' \in [Messages -> {"outbox", "new", "retry", "finished"}]
  BY <1>4 DEF Return, Inv, TypeOK
<1>6. TypeOK'
  BY <1>1, <1>2, <1>5 DEF Return, Inv, TypeOK
<1>7. InOrder'
  <2>1. ASSUME NEW i \in 1..Len(queue'), NEW j \in 1..Len(queue'), i <= j
        PROVE  queue'[i].stored <= queue'[j].stored
    BY <2>1, <1>2, <1>3 DEF Inv, InOrder
  <2>2. ASSUME NEW i \in 1..Len(queue')
        PROVE  queue'[i].stored <= now' /\ queue'[i].expires <= queue'[i].stored + Longest
    BY <1>1, <1>2, <1>3 DEF Inv, InOrder
  <2> QED
    BY <2>1, <2>2 DEF InOrder
<1>8. DelayBounded'
  BY <1>1, <1>2, <1>3 DEF Inv, DelayBounded
<1> QED
  BY <1>6, <1>7, <1>8 DEF Inv

(* A second passes, with nothing overdue at the head.                      *)
LEMMA TickInv ==
  ASSUME Inv, Tick
  PROVE  Inv'
<1>1. now \in Nat /\ now' = now + 1 /\ now' \in 0..MaxTime /\ queue' = queue
  BY RetryConstants DEF Tick, Inv, TypeOK
<1>2. Longest \in Nat
  BY RetryConstants
<1>3. \A i \in 1..Len(queue) : queue[i].stored \in Nat /\ queue[i].expires \in Nat
  BY EntryTimes DEF Inv, TypeOK
<1>4. TypeOK'
  BY <1>1 DEF Tick, Inv, TypeOK
<1>5. InOrder'
  BY <1>1, <1>3 DEF Inv, InOrder
<1>6. DelayBounded'
  <2> SUFFICES ASSUME NEW i \in 1..Len(queue)
               PROVE  now + 1 <= queue[i].stored + Longest
    BY <1>1 DEF DelayBounded
  <2>1. queue # <<>> /\ 1 \in 1..Len(queue) /\ 1 <= i
    BY DEF Inv, TypeOK
  <2>2. now < queue[1].expires
    BY <2>1, <1>1, <1>3 DEF Tick, HeadExpired
  <2>3. queue[1].expires <= queue[1].stored + Longest
    BY <2>1 DEF Inv, InOrder
  <2>4. queue[1].stored <= queue[i].stored
    BY <2>1 DEF Inv, InOrder
  <2> QED
    BY <2>1, <2>2, <2>3, <2>4, <1>1, <1>2, <1>3
<1> QED
  BY <1>4, <1>5, <1>6 DEF Inv

(* Arrivals do not touch the queue.                                        *)
LEMMA ArriveInv ==
  ASSUME Inv, UNCHANGED <<now, queue, retries>>,
         place' \in [Messages -> {"outbox", "new", "retry", "finished"}]
  PROVE  Inv'
BY DEF Inv, TypeOK, InOrder, DelayBounded

(* Every step preserves the invariant.                                     *)
LEMMA NextInv == Inv /\ [Next]_vars => Inv'
<1> SUFFICES ASSUME Inv, [Next]_vars PROVE Inv'
  OBVIOUS
<1>1. ASSUME NEW m \in Messages, Republish(m) PROVE Inv'
  BY <1>1, RepublishInv
<1>2. ASSUME NEW m \in Messages, Finish(m) PROVE Inv'
  BY <1>2 DEF Finish, Inv, TypeOK, InOrder, DelayBounded
<1>6. ASSUME NEW m \in Messages, Arrive({m}) PROVE Inv'
  BY <1>6, ArriveInv DEF Arrive, Inv, TypeOK
<1>3. CASE Return
  BY <1>3, ReturnInv
<1>4. CASE Tick
  BY <1>4, TickInv
<1>5. CASE UNCHANGED vars
  BY <1>5 DEF vars, Inv, TypeOK, InOrder, DelayBounded
<1> QED
  BY <1>1, <1>2, <1>3, <1>4, <1>5, <1>6 DEF Next

(* Type correctness.                                                       *)
THEOREM TypeCorrect == Spec => []TypeOK
<1>1. Inv => TypeOK
  BY DEF Inv
<1> QED
  BY InitInv, NextInv, <1>1, PTL DEF Spec

(* The wait of every message is bounded by the longest delay, although     *)
(* expired messages wait behind unexpired ones.                            *)
THEOREM WaitBounded == Spec => []DelayBounded
<1>1. Inv => DelayBounded
  BY DEF Inv
<1> QED
  BY InitInv, NextInv, <1>1, PTL DEF Spec

-----------------------------------------------------------------------------
(* The queue has one entry for each message waiting in it, whose TTL is    *)
(* the backoff of the attempt that failed.                                 *)
Waiting ==
  /\ \A i \in 1..Len(queue) :
       /\ place[queue[i].msg] = "retry"
       /\ retries[queue[i].msg] \in 1..MaxRetries - 1
       /\ queue[i].expires = queue[i].stored + Backoff(retries[queue[i].msg])
  /\ \A i, j \in 1..Len(queue) : queue[i].msg = queue[j].msg => i = j

(* The row of an event and its refusals.                                   *)
Scheduled(e) ==
  LET row == outbox[e]
      t == tried[e] IN
  /\ row.status \in {"absent", "pending", "published", "failed"}
  /\ row.retries \in 0..MaxPublishRetries
  /\ row.available_at \in Int
  /\ t.created \in Nat /\ t.first \in Nat /\ t.last \in Nat
  /\ row.status = "absent" => row.retries = 0
  /\ row.status = "failed" => row.retries = MaxPublishRetries
  /\ row.status = "pending" => row.retries < MaxPublishRetries
  /\ row.retries > 0 =>
       /\ t.last <= now
       /\ 4 * (t.last - t.first) + 1 >= Backoff(row.retries)

(* When it should be tried next: at once, or after its backoff.            *)
DueAt(e) ==
  IF outbox[e].retries = 0 THEN tried[e].created
                           ELSE tried[e].last + Backoff(outbox[e].retries)

(* The publisher looks again within a poll interval of that.               *)
Watched(e) ==
  outbox[e].status = "pending" =>
    /\ DueAt(e) \in Nat
    /\ outbox[e].available_at <= DueAt(e)
    /\ outbox[e].retries > 0 => outbox[e].available_at = DueAt(e)
    /\ wake <= DueAt(e) + PollInterval

ScheduleInv ==
  /\ now \in 0..MaxTime
  /\ wake \in Nat /\ now <= wake /\ wake <= now + PollInterval
  /\ up \in BOOLEAN
  /\ outbox \in [Messages -> Outbox!Row]
  /\ tried \in [Messages -> [created : Nat, first : Nat, last : Nat]]
  /\ \A e \in Messages : Scheduled(e) /\ Watched(e)

DelaysInv == Inv /\ Waiting /\ ScheduleInv

(* The entries of the queue are entries.                                   *)
LEMMA EntryRefs ==
  ASSUME queue \in Seq(Entry)
  PROVE  \A i \in 1..Len(queue) : queue[i].msg \in Messages
<1>1. \A i \in 1..Len(queue) : queue[i] \in Entry
  OBVIOUS
<1> QED
  BY <1>1 DEF Entry

(* A message that joins the queue was not in it.                           *)
LEMMA RepublishWaiting ==
  ASSUME Inv, Waiting, NEW m \in Messages, Republish(m)
  PROVE  Waiting'
<1> DEFINE e == [msg |-> m, stored |-> now, expires |-> now + Expiration(m)]
<1>1. /\ queue \in Seq(Entry) /\ queue' = Append(queue, e)
      /\ retries \in [Messages -> Nat] /\ place[m] = "new"
      /\ retries' = [retries EXCEPT ![m] = @ + 1]
      /\ place' = [place EXCEPT ![m] = "retry"]
      /\ place \in [Messages -> {"outbox", "new", "retry", "finished"}]
  BY DEF Republish, Inv, TypeOK
<1>2. e.msg = m /\ e.stored = now /\ e.expires = now + Backoff(retries[m] + 1)
  BY DEF Expiration
<1>0. retries[m] + 1 \in 1..MaxRetries - 1
  BY <1>1, RetryConstants DEF Republish, Exhausted
<1> HIDE DEF e
<1>3. /\ Len(queue') = Len(queue) + 1 /\ Len(queue) \in Nat
      /\ \A i \in 1..Len(queue) : queue'[i] = queue[i]
      /\ queue'[Len(queue) + 1] = e
  BY <1>1
<1>4. \A i \in 1..Len(queue) : queue[i].msg \in Messages /\ queue[i].msg # m
  BY <1>1, EntryRefs DEF Waiting
<1>5. ASSUME NEW i \in 1..Len(queue')
      PROVE  /\ place'[queue'[i].msg] = "retry"
             /\ retries'[queue'[i].msg] \in 1..MaxRetries - 1
             /\ queue'[i].expires = queue'[i].stored + Backoff(retries'[queue'[i].msg])
  <2>1. CASE i \in 1..Len(queue)
    BY <1>1, <1>3, <1>4, <2>1 DEF Waiting
  <2>2. CASE i = Len(queue) + 1
    BY <1>0, <1>1, <1>2, <1>3, <2>2
  <2> QED
    BY <1>3, <2>1, <2>2
<1>6. ASSUME NEW i \in 1..Len(queue'), NEW j \in 1..Len(queue'), queue'[i].msg = queue'[j].msg
      PROVE  i = j
  <2>1. CASE i \in 1..Len(queue) /\ j \in 1..Len(queue)
    BY <1>3, <1>6, <2>1 DEF Waiting
  <2>2. CASE i = Len(queue) + 1 \/ j = Len(queue) + 1
    BY <1>2, <1>3, <1>4, <1>6, <2>2
  <2> QED
    BY <1>3, <2>1, <2>2
<1> QED
  BY <1>5, <1>6 DEF Waiting

(* The head leaves alone.                                                  *)
LEMMA ReturnWaiting ==
  ASSUME Inv, Waiting, Return
  PROVE  Waiting'
<1>1. /\ queue \in Seq(Entry) /\ queue # <<>> /\ queue' = Tail(queue)
      /\ retries' = retries /\ place' = [place EXCEPT ![queue[1].msg] = "new"]
      /\ place \in [Messages -> {"outbox", "new", "retry", "finished"}]
  BY DEF Return, HeadExpired, Inv, TypeOK
<1>2. /\ Len(queue') = Len(queue) - 1 /\ Len(queue) \in Nat
      /\ \A i \in 1..Len(queue') : queue'[i] = queue[i + 1]
  BY <1>1
<1>3. \A i \in 1..Len(queue') : i + 1 \in 1..Len(queue) /\ i + 1 # 1 /\ 1 \in 1..Len(queue)
  BY <1>2
<1>4. ASSUME NEW i \in 1..Len(queue')
      PROVE  /\ place'[queue'[i].msg] = "retry"
             /\ retries'[queue'[i].msg] \in 1..MaxRetries - 1
             /\ queue'[i].expires = queue'[i].stored + Backoff(retries'[queue'[i].msg])
  <2>1. queue[i + 1].msg # queue[1].msg /\ queue[i + 1].msg \in Messages
    BY <1>1, <1>3, EntryRefs DEF Waiting
  <2> QED
    BY <1>1, <1>2, <1>3, <2>1 DEF Waiting
<1>5. ASSUME NEW i \in 1..Len(queue'), NEW j \in 1..Len(queue'), queue'[i].msg = queue'[j].msg
      PROVE  i = j
  <2>1. i + 1 \in 1..Len(queue) /\ j + 1 \in 1..Len(queue)
    BY <1>3
  <2>2. queue[i + 1].msg = queue[j + 1].msg
    BY <1>2, <1>5
  <2>3. i + 1 = j + 1
    BY <2>1, <2>2 DEF Waiting
  <2> QED
    BY <2>3
<1> QED
  BY <1>4, <1>5 DEF Waiting

(* Steps that neither add to the queue nor touch what is in it.            *)
LEMMA OtherWaiting ==
  ASSUME Inv, Waiting, UNCHANGED <<queue, retries>>,
         \A m \in Messages : place[m] = "retry" => place'[m] = "retry"
  PROVE  Waiting'
<1>1. \A i \in 1..Len(queue) : queue[i].msg \in Messages
  BY EntryRefs DEF Inv, TypeOK
<1> QED
  BY <1>1 DEF Waiting

(* Only an expired head goes back to payments.new, and it has waited for   *)
(* the backoff of its attempt.                                             *)
LEMMA ReturnPatient ==
  ASSUME Inv, Waiting, Return, NEW m \in Messages, place[m] = "retry", place'[m] = "new"
  PROVE  \E i \in 1..Len(queue) :
           queue[i].msg = m /\ now - queue[i].stored >= Backoff(retries[m])
<1>1. queue \in Seq(Entry) /\ queue # <<>> /\ queue[1].expires <= now /\ now \in Nat
  BY DEF Inv, TypeOK, Return, HeadExpired
<1>2. 1 \in 1..Len(queue)
  BY <1>1
<1>3. queue[1].msg = m
  BY DEF Return, Inv, TypeOK
<1>4. queue[1].expires = queue[1].stored + Backoff(retries[m])
  BY <1>2, <1>3 DEF Waiting
<1>5. queue[1].stored \in Nat /\ queue[1].expires \in Nat
  BY <1>1, <1>2, EntryTimes
<1>6. Backoff(retries[m]) \in Nat
  BY <1>2, <1>3, RetryConstants DEF Waiting
<1> QED
  BY <1>1, <1>2, <1>3, <1>4, <1>5, <1>6

-----------------------------------------------------------------------------
(* What ScheduleInv says of one event, in numbers.                         *)
LEMMA Schedule ==
  ASSUME ScheduleInv, NEW e \in Messages
  PROVE  /\ now \in Nat /\ wake \in Nat /\ now <= wake /\ wake <= now + PollInterval
         /\ outbox[e] \in Outbox!Row /\ tried[e] \in [created : Nat, first : Nat, last : Nat]
         /\ outbox[e].retries \in Nat /\ outbox[e].available_at \in Int
         /\ tried[e].created \in Nat /\ tried[e].first \in Nat /\ tried[e].last \in Nat
         /\ Scheduled(e) /\ Watched(e)
         /\ PollInterval \in Nat /\ MaxPublishRetries \in Nat \ {0}
BY RetryConstants, DelaysConstants DEF ScheduleInv, Outbox!Row

(* Rows that no step touches stay scheduled, and watched while wake stays. *)
LEMMA Unmoved ==
  ASSUME ScheduleInv, NEW e \in Messages,
         outbox'[e] = outbox[e], tried'[e] = tried[e], now' \in Nat, now <= now'
  PROVE  /\ Scheduled(e)'
         /\ wake' = wake => Watched(e)'
<1>1. /\ now \in Nat /\ Scheduled(e) /\ Watched(e) /\ tried[e].last \in Nat
  BY Schedule
<1>2. DueAt(e)' = DueAt(e)
  BY DEF DueAt
<1> QED
  BY <1>1, <1>2 DEF Scheduled, Watched

(* A new row is due at once, whatever the server's offset.                 *)
LEMMA InsertScheduled ==
  ASSUME ScheduleInv, NEW e \in Messages, Outbox!Insert(e)
  PROVE  ScheduleInv'
<1> DEFINE row == [outbox[e] EXCEPT !.status = "pending", !.available_at = now - ServerOffset]
           t == [tried[e] EXCEPT !.created = now]
<1>1. /\ outbox[e].status = "absent"
      /\ outbox' = [outbox EXCEPT ![e] = row] /\ tried' = [tried EXCEPT ![e] = t]
      /\ UNCHANGED <<now, wake, up>>
  BY DEF Outbox!Insert, Outbox!AvailableByDefault
<1>2. /\ now \in Nat /\ wake \in Nat /\ wake <= now + PollInterval
      /\ outbox[e] \in Outbox!Row /\ outbox[e].retries = 0
      /\ tried[e] \in [created : Nat, first : Nat, last : Nat]
      /\ ServerOffset \in Nat /\ PollInterval \in Nat /\ MaxPublishRetries \in Nat \ {0}
  BY <1>1, Schedule, DelaysConstants DEF Scheduled
<1>3. /\ row \in Outbox!Row /\ row.status = "pending" /\ row.retries = 0
      /\ row.available_at = now - ServerOffset
  <2> DEFINE y == now - ServerOffset
  <2>1. y \in Int
    BY <1>2
  <2>2. outbox[e] \in [status : {"absent", "pending", "published", "failed"},
                      retries : 0..MaxPublishRetries, available_at : Int]
    BY <1>2 DEF Outbox!Row
  <2>3. row = [outbox[e] EXCEPT !.status = "pending", !.available_at = y]
    OBVIOUS
  <2> HIDE DEF y, row
  <2>4. row = [status |-> "pending", retries |-> 0, available_at |-> y]
    BY <1>2, <2>2, <2>3
  <2>5. row \in Outbox!Row
    BY <1>2, <2>1, <2>4 DEF Outbox!Row
  <2>6. row.available_at = now - ServerOffset
    BY <2>4 DEF y
  <2> QED
    BY <2>4, <2>5, <2>6
<1>4. t \in [created : Nat, first : Nat, last : Nat] /\ t.created = now
  BY <1>2
<1> HIDE DEF row, t
<1>5. /\ outbox' \in [Messages -> Outbox!Row] /\ outbox'[e] = row
      /\ tried' \in [Messages -> [created : Nat, first : Nat, last : Nat]] /\ tried'[e] = t
      /\ \A f \in Messages \ {e} : outbox'[f] = outbox[f] /\ tried'[f] = tried[f]
  BY <1>1, <1>3, <1>4 DEF ScheduleInv
<1>6. Scheduled(e)'
  BY <1>2, <1>3, <1>4, <1>5 DEF Scheduled
<1>7. Watched(e)'
  BY <1>1, <1>2, <1>3, <1>4, <1>5 DEF Watched, DueAt
<1>8. \A f \in Messages \ {e} : Scheduled(f)' /\ Watched(f)'
  BY <1>1, <1>2, <1>5, Unmoved
<1> QED
  BY <1>1, <1>5, <1>6, <1>7, <1>8 DEF ScheduleInv

(* The publisher sleeps only when no row is due.                           *)
LEMMA SleepScheduled ==
  ASSUME ScheduleInv, Outbox!Sleep
  PROVE  ScheduleInv'
<1> DEFINE D == {e \in Messages : Outbox!Due(e)}
<1>1. /\ now = wake /\ wake' = now + PollInterval /\ Outbox!Batches = {{}}
      /\ UNCHANGED <<now, up, outbox, tried>>
  BY DEF Outbox!Sleep
<1>2. now \in Nat /\ PollInterval \in Nat /\ BatchSize \in Nat \ {0}
  BY RetryConstants, DelaysConstants DEF ScheduleInv
<1>3. D = {}
  <2>1. Cardinality({}) = IF Cardinality(D) < BatchSize THEN Cardinality(D) ELSE BatchSize
    <3>1. {} \in Outbox!Batches
      BY <1>1
    <3>0. \A S : Outbox!Cardinality(S) = Cardinality(S)
      BY Zenon DEF Cardinality, Outbox!Cardinality
    <3>2. \A B \in Outbox!Batches :
            Cardinality(B) = IF Cardinality(D) < BatchSize THEN Cardinality(D) ELSE BatchSize
      BY <3>0 DEF Outbox!Batches
    <3> HIDE DEF D
    <3> QED
      BY <3>1, <3>2
  <2>2. IsFiniteSet(D) /\ Cardinality(D) \in Nat
    BY DelaysConstants, FS_Subset, FS_CardinalityType
  <2>3. Cardinality(D) = 0
    BY <1>2, <2>1, <2>2, FS_EmptySet
  <2> QED
    BY <2>2, <2>3, FS_EmptySet
<1>4. ASSUME NEW e \in Messages PROVE Scheduled(e)' /\ Watched(e)'
  <2>1. Scheduled(e)'
    BY <1>1, <1>2, <1>4, Unmoved
  <2>2. ASSUME outbox[e].status = "pending" PROVE now <= DueAt(e)
    <3>1. outbox[e].available_at > now
      BY <1>3, <2>2, Schedule DEF Outbox!Due
    <3> QED
      BY <1>2, <2>2, <3>1, Schedule DEF Watched
  <2>3. DueAt(e)' = DueAt(e)
    BY <1>1 DEF DueAt
  <2>4. Watched(e)'
    BY <1>1, <1>2, <2>2, <2>3, Schedule DEF Watched
  <2> QED
    BY <2>1, <2>4
<1> QED
  BY <1>1, <1>2, <1>4 DEF ScheduleInv

(* A refused row: its retries, its refusals and its next try move on       *)
(* together, by one factor 5.                                              *)
LEMMA RefusedRow ==
  ASSUME ScheduleInv, now = wake, NEW e \in Messages, Outbox!Due(e),
         UNCHANGED <<now, wake>>,
         outbox'[e] = Outbox!Refused(outbox[e]),
         tried'[e] = [tried[e] EXCEPT !.first = IF outbox[e].retries = 0 THEN now ELSE @,
                                      !.last = now]
  PROVE  /\ outbox'[e] \in Outbox!Row
         /\ tried'[e] \in [created : Nat, first : Nat, last : Nat]
         /\ Scheduled(e)' /\ Watched(e)'
<1> DEFINE n == outbox[e].retries
           t == tried[e]
           x == IF n = 0 THEN now ELSE t.first
<1>1. /\ now \in Nat /\ outbox[e].status = "pending" /\ outbox[e].available_at <= now
      /\ n \in Nat /\ n < MaxPublishRetries /\ outbox[e].available_at \in Int
      /\ t \in [created : Nat, first : Nat, last : Nat]
      /\ t.created \in Nat /\ t.first \in Nat /\ t.last \in Nat
      /\ MaxPublishRetries \in Nat \ {0} /\ PollInterval \in Nat
      /\ Scheduled(e) /\ Watched(e)
  BY Schedule DEF Outbox!Due, Scheduled
<1>2. Backoff(n + 1) \in Nat \ {0}
  BY <1>1, BackoffGrows
<1>3. /\ outbox'[e].status = IF n + 1 >= MaxPublishRetries THEN "failed" ELSE "pending"
      /\ outbox'[e].retries = n + 1
      /\ outbox'[e].available_at = now + Backoff(n + 1)
      /\ outbox'[e] \in Outbox!Row
  <2> DEFINE s == IF n + 1 >= MaxPublishRetries THEN "failed" ELSE "pending"
  <2>1. outbox'[e] = [status |-> s, retries |-> n + 1, available_at |-> now + Backoff(n + 1)]
    BY DEF Outbox!Refused, Outbox!Backoff, Backoff
  <2>2. s \in {"absent", "pending", "published", "failed"}
    OBVIOUS
  <2>3. n + 1 \in 0..MaxPublishRetries /\ now + Backoff(n + 1) \in Int
    BY <1>1, <1>2
  <2>4. outbox'[e] \in Outbox!Row
    <3> HIDE DEF s, n
    <3> QED
      BY <2>1, <2>2, <2>3 DEF Outbox!Row
  <2> QED
    BY <2>1, <2>4
<1>4. x \in Nat
  BY <1>1
<1>5. tried'[e] = [created |-> t.created, first |-> x, last |-> now]
  <2>1. tried'[e] = [t EXCEPT !.first = x, !.last = now]
    OBVIOUS
  <2> HIDE DEF x
  <2> QED
    BY <1>1, <2>1
<1>6. /\ tried'[e].first = x /\ tried'[e].last = now /\ tried'[e].created = t.created
      /\ tried'[e] \in [created : Nat, first : Nat, last : Nat]
  BY <1>1, <1>4, <1>5
<1>7. 4 * (now - x) + 1 >= Backoff(n + 1)
  <2>1. CASE n = 0
    BY <1>1, <2>1, BackoffGrows
  <2>2. CASE n > 0
    <3>1. Backoff(n + 1) = 5 * Backoff(n) /\ Backoff(n) \in Nat
      BY <1>1, <2>2, BackoffGrows
    <3>2. t.last + Backoff(n) <= now
      BY <1>1, <2>2 DEF Watched, DueAt
    <3>3. 4 * (t.last - t.first) + 1 >= Backoff(n)
      BY <1>1, <2>2 DEF Scheduled
    <3> QED
      BY <1>1, <2>2, <3>1, <3>2, <3>3
  <2> QED
    BY <1>1, <2>1, <2>2
<1> HIDE DEF x
<1>8. Scheduled(e)'
  <2>1. outbox'[e].retries \in 0..MaxPublishRetries /\ outbox'[e].available_at \in Int
    BY <1>1, <1>2, <1>3
  <2>2. outbox'[e].status = "failed" => outbox'[e].retries = MaxPublishRetries
    BY <1>1, <1>3
  <2>3. outbox'[e].status = "pending" => outbox'[e].retries < MaxPublishRetries
    BY <1>1, <1>3
  <2> QED
    BY <1>1, <1>3, <1>4, <1>6, <1>7, <2>1, <2>2, <2>3 DEF Scheduled
<1>9. Watched(e)'
  <2>1. DueAt(e)' = now + Backoff(n + 1)
    BY <1>1, <1>3, <1>6 DEF DueAt
  <2> QED
    BY <1>1, <1>2, <1>3, <2>1 DEF Watched
<1> QED
  BY <1>3, <1>6, <1>8, <1>9

(* A batch moves the rows in it, and only those.                           *)
LEMMA BatchScheduled ==
  ASSUME ScheduleInv, Outbox!ProcessBatch
  PROVE  ScheduleInv'
<1>1. PICK B \in Outbox!Batches \ {{}} :
        /\ outbox' = [e \in Messages |->
             CASE e \notin B -> outbox[e]
               [] e \in B /\ up -> [outbox[e] EXCEPT !.status = "published"]
               [] OTHER -> Outbox!Refused(outbox[e])]
        /\ tried' = [e \in Messages |->
             IF e \in B /\ ~up
               THEN [tried[e] EXCEPT !.first = IF outbox[e].retries = 0 THEN now ELSE @,
                                     !.last = now]
               ELSE tried[e]]
  BY DEF Outbox!ProcessBatch
<1>2. now = wake /\ UNCHANGED <<now, wake, up>>
  BY DEF Outbox!ProcessBatch
<1>3. \A e \in B : Outbox!Due(e)
  BY DEF Outbox!Batches
<1>4. ASSUME NEW e \in Messages
      PROVE  /\ outbox'[e] \in Outbox!Row
             /\ tried'[e] \in [created : Nat, first : Nat, last : Nat]
             /\ Scheduled(e)' /\ Watched(e)'
  <2>1. CASE e \notin B
    <3>1. outbox'[e] = outbox[e] /\ tried'[e] = tried[e]
      BY <1>1, <2>1
    <3> QED
      BY <1>2, <3>1, Unmoved, Schedule
  <2>2. CASE e \in B /\ up
    <3>1. outbox'[e] = [outbox[e] EXCEPT !.status = "published"] /\ tried'[e] = tried[e]
      BY <1>1, <2>2
    <3>2. /\ outbox'[e] \in Outbox!Row /\ outbox'[e].status = "published"
          /\ outbox'[e].retries = outbox[e].retries
          /\ outbox'[e].available_at = outbox[e].available_at
      BY <3>1, Schedule DEF Outbox!Row
    <3> QED
      BY <1>2, <3>1, <3>2, Schedule DEF Scheduled, Watched
  <2>3. CASE e \in B /\ ~up
    <3>1. outbox'[e] = Outbox!Refused(outbox[e])
          /\ tried'[e] = [tried[e] EXCEPT !.first = IF outbox[e].retries = 0 THEN now ELSE @,
                                          !.last = now]
      BY <1>1, <2>3
    <3> QED
      BY <1>2, <1>3, <2>3, <3>1, RefusedRow
  <2> QED
    BY <2>1, <2>2, <2>3
<1>5. outbox' \in [Messages -> Outbox!Row]
      /\ tried' \in [Messages -> [created : Nat, first : Nat, last : Nat]]
  BY <1>1, <1>4
<1> QED
  BY <1>2, <1>4, <1>5 DEF ScheduleInv

(* Time passes only until the publisher looks again.                       *)
LEMMA TickScheduled ==
  ASSUME ScheduleInv, Outbox!Tick
  PROVE  ScheduleInv'
<1>1. /\ now < wake /\ now < MaxTime /\ now' = now + 1 /\ now \in Nat /\ wake \in Nat
      /\ UNCHANGED <<wake, up, outbox, tried>>
  BY RetryConstants DEF Outbox!Tick, ScheduleInv
<1>2. now' \in 0..MaxTime /\ now' <= wake' /\ now <= now' /\ now' \in Nat
  BY <1>1, RetryConstants
<1>3. \A e \in Messages : Scheduled(e)' /\ Watched(e)'
  BY <1>1, <1>2, Unmoved
<1>4. wake' <= now' + PollInterval /\ PollInterval \in Nat
  BY <1>1, DelaysConstants DEF ScheduleInv
<1> QED
  BY <1>1, <1>2, <1>3, <1>4 DEF ScheduleInv

(* Steps of the others, the broker's coming and going included.            *)
LEMMA StillScheduled ==
  ASSUME ScheduleInv, UNCHANGED <<now, wake, outbox, tried>>, up' \in BOOLEAN
  PROVE  ScheduleInv'
<1>1. now' \in Nat /\ now <= now'
  BY RetryConstants DEF ScheduleInv
<1>2. \A e \in Messages : Scheduled(e)' /\ Watched(e)'
  BY <1>1, Unmoved
<1> QED
  BY <1>2 DEF ScheduleInv

-----------------------------------------------------------------------------
(* Initially nothing is anywhere, and the publisher is about to look.      *)
LEMMA InitDelays == DelaysInit => DelaysInv
<1> SUFFICES ASSUME DelaysInit PROVE DelaysInv
  OBVIOUS
<1>1. Inv
  BY InitInv DEF DelaysInit
<1>2. Waiting
  <2>1. Len(queue) = 0
    BY DEF DelaysInit, Init
  <2> QED
    BY <2>1 DEF Waiting
<1>3. now = 0 /\ wake = 0 /\ up \in BOOLEAN
      /\ outbox = [e \in Messages |-> [status |-> "absent", retries |-> 0, available_at |-> 0]]
      /\ tried = [e \in Messages |-> [created |-> 0, first |-> 0, last |-> 0]]
  BY DEF DelaysInit, Outbox!Init
<1>4. MaxTime \in Nat /\ PollInterval \in Nat /\ MaxPublishRetries \in Nat \ {0}
  BY RetryConstants, DelaysConstants
<1>5. \A e \in Messages : outbox[e] \in Outbox!Row
                          /\ tried[e] \in [created : Nat, first : Nat, last : Nat]
  BY <1>3, <1>4 DEF Outbox!Row
<1>6. \A e \in Messages : Scheduled(e) /\ Watched(e)
  BY <1>3, <1>4 DEF Scheduled, Watched
<1>7. ScheduleInv
  BY <1>3, <1>4, <1>5, <1>6 DEF ScheduleInv
<1> QED
  BY <1>1, <1>2, <1>7 DEF DelaysInv

(* Every step of the publisher, of the consumer and of the clock preserves *)
(* the invariant.                                                          *)
LEMMA StepDelays == DelaysInv /\ [DelaysNext]_<<vars, outboxVars>> => DelaysInv'
<1> SUFFICES ASSUME DelaysInv, [DelaysNext]_<<vars, outboxVars>> PROVE DelaysInv'
  OBVIOUS
<1>1. Inv /\ Waiting /\ ScheduleInv
  BY DEF DelaysInv
<1>2. CASE PublisherStep
  <2>1. /\ UNCHANGED <<now, queue, retries>>
        /\ place' = [m \in Messages |-> IF m \in Accepted THEN "new" ELSE place[m]]
        /\ \A m \in Accepted : place[m] = "outbox"
    BY <1>2 DEF PublisherStep, Arrive
  <2>2. place' \in [Messages -> {"outbox", "new", "retry", "finished"}]
    BY <1>1, <2>1 DEF Inv, TypeOK
  <2>3. Inv'
    BY <1>1, <2>1, <2>2, ArriveInv
  <2>4. Waiting'
    BY <1>1, <2>1, OtherWaiting
  <2>5. ScheduleInv'
    <3>1. ASSUME NEW m \in Messages, Outbox!Insert(m) PROVE ScheduleInv'
      BY <1>1, <3>1, InsertScheduled
    <3>2. ASSUME Outbox!BrokerChanges PROVE ScheduleInv'
      <4>1. UNCHANGED <<now, wake, outbox, tried>> /\ up' \in BOOLEAN
        BY <3>2 DEF Outbox!BrokerChanges
      <4> QED
        BY <1>1, <4>1, StillScheduled
    <3> QED
      BY <1>1, <1>2, <3>1, <3>2, SleepScheduled, BatchScheduled DEF PublisherStep
  <2> QED
    BY <2>3, <2>4, <2>5 DEF DelaysInv
<1>3. CASE ConsumerStep
  <2>1. ASSUME NEW m \in Messages, Republish(m) PROVE Inv' /\ Waiting' /\ now' = now
    BY <1>1, <2>1, RepublishInv, RepublishWaiting DEF Republish
  <2>2. ASSUME NEW m \in Messages, Finish(m) PROVE Inv' /\ Waiting' /\ now' = now
    <3>1. /\ UNCHANGED <<now, queue, retries>>
          /\ place[m] = "new" /\ place' = [place EXCEPT ![m] = "finished"]
          /\ place \in [Messages -> {"outbox", "new", "retry", "finished"}]
      BY <1>1, <2>2 DEF Finish, Inv, TypeOK
    <3>2. place' \in [Messages -> {"outbox", "new", "retry", "finished"}]
      BY <3>1
    <3> QED
      BY <1>1, <3>1, <3>2, ArriveInv, OtherWaiting
  <2>3. ASSUME Return PROVE Inv' /\ Waiting' /\ now' = now
    BY <1>1, <2>3, ReturnInv, ReturnWaiting DEF Return
  <2>4. Inv' /\ Waiting' /\ now' = now
    BY <1>3, <2>1, <2>2, <2>3 DEF ConsumerStep
  <2>5. ScheduleInv'
    <3>1. UNCHANGED <<now, wake, outbox, tried>> /\ up' \in BOOLEAN
      BY <1>1, <1>3, <2>4 DEF ConsumerStep, outboxVars, ScheduleInv
    <3> QED
      BY <1>1, <3>1, StillScheduled
  <2> QED
    BY <2>4, <2>5 DEF DelaysInv
<1>4. CASE DelaysTick
  <2>1. Inv'
    BY <1>1, <1>4, TickInv DEF DelaysTick
  <2>2. Waiting'
    <3>1. UNCHANGED <<queue, retries, place>>
      BY <1>4 DEF DelaysTick, Tick
    <3> QED
      BY <1>1, <3>1, OtherWaiting
  <2>3. ScheduleInv'
    BY <1>1, <1>4, TickScheduled DEF DelaysTick
  <2> QED
    BY <2>1, <2>2, <2>3 DEF DelaysInv
<1>5. CASE UNCHANGED <<vars, outboxVars>>
  <2>1. UNCHANGED <<now, queue, retries, place, wake, up, outbox, tried>>
    BY <1>5 DEF vars, outboxVars
  <2>2. Inv'
    BY <1>1, <2>1 DEF Inv, TypeOK, InOrder, DelayBounded
  <2>3. Waiting'
    BY <1>1, <2>1, OtherWaiting
  <2>4. ScheduleInv'
    BY <1>1, <2>1, StillScheduled DEF ScheduleInv
  <2> QED
    BY <2>2, <2>3, <2>4 DEF DelaysInv
<1> QED
  BY <1>2, <1>3, <1>4, <1>5 DEF DelaysNext

(* The wait in the retry queue stays bounded when the messages come from   *)
(* the outbox, on the publisher's clock.                                   *)
THEOREM WaitBoundedFromOutbox == DelaysSpec => []DelayBounded
<1>1. DelaysInv => DelayBounded
  BY DEF DelaysInv, Inv
<1> QED
  BY InitDelays, StepDelays, <1>1, PTL DEF DelaysSpec

(* An event is given up by the outbox only after its publishes were refused*)
(* over the whole sum of the backoffs, for any limit, poll interval, batch *)
(* size and number of events.                                              *)
THEOREM OutagesSurvived == DelaysSpec => []FailureNeedsLongOutage
<1>1. DelaysInv => FailureNeedsLongOutage
  <2> SUFFICES ASSUME DelaysInv, NEW e \in Messages, outbox[e].status = "failed"
               PROVE  tried[e].last - tried[e].first >= Outbox!OutageSurvived
    BY DEF FailureNeedsLongOutage, Outbox!FailureNeedsLongOutage
  <2>1. /\ Scheduled(e) /\ MaxPublishRetries \in Nat \ {0}
        /\ tried[e].last \in Nat /\ tried[e].first \in Nat
    BY Schedule DEF DelaysInv
  <2>2. 4 * (tried[e].last - tried[e].first) + 1 >= Backoff(MaxPublishRetries)
    BY <2>1 DEF Scheduled
  <2>3. Backoff(MaxPublishRetries) \in Nat
    BY <2>1, BackoffGrows
  <2>4. Outbox!OutageSurvived = (Backoff(MaxPublishRetries) - 1) \div 4
    BY DEF Outbox!OutageSurvived, Outbox!Backoff, Backoff
  <2> QED
    BY <2>1, <2>2, <2>3, <2>4
<1> QED
  BY InitDelays, StepDelays, <1>1, PTL DEF DelaysSpec

(* Every pending event is tried within a poll interval of its creation, or *)
(* of the end of its backoff.                                              *)
THEOREM DueEventsTried == DelaysSpec => []TriedOnTime
<1>1. DelaysInv => TriedOnTime
  <2> SUFFICES ASSUME DelaysInv, NEW e \in Messages, outbox[e].status = "pending"
               PROVE  now <= PollInterval + IF outbox[e].retries = 0
                                              THEN tried[e].created
                                              ELSE tried[e].last + Backoff(outbox[e].retries)
    BY DEF TriedOnTime, Outbox!TriedOnTime, Outbox!Backoff, Backoff
  <2>1. now \in Nat /\ wake \in Nat /\ now <= wake /\ PollInterval \in Nat /\ Watched(e)
    BY Schedule DEF DelaysInv
  <2>2. DueAt(e) \in Nat /\ wake <= DueAt(e) + PollInterval
    BY <2>1 DEF Watched
  <2>3. now <= PollInterval + DueAt(e)
    BY <2>1, <2>2
  <2> QED
    BY <2>3 DEF DueAt
<1> QED
  BY InitDelays, StepDelays, <1>1, PTL DEF DelaysSpec

(* Whatever shares the retry queue with it, no message goes back to        *)
(* payments.new before the backoff of its own attempt is over.             *)
THEOREM RetriesArePatient == DelaysSpec => NotBeforeBackoff
<1>1. DelaysInv /\ [DelaysNext]_<<vars, outboxVars>> =>
        [\A m \in Messages :
           place[m] = "retry" /\ place'[m] = "new" =>
             \E i \in 1..Len(queue) :
               queue[i].msg = m /\ now - queue[i].stored >= Backoff(retries[m])]_vars
  <2> SUFFICES ASSUME DelaysInv, [DelaysNext]_<<vars, outboxVars>>,
                      NEW m \in Messages, place[m] = "retry", place'[m] = "new"
               PROVE  \E i \in 1..Len(queue) :
                        queue[i].msg = m /\ now - queue[i].stored >= Backoff(retries[m])
    OBVIOUS
  <2>1. CASE Return
    BY <2>1, ReturnPatient DEF DelaysInv
  <2>2. CASE PublisherStep
    BY <2>2 DEF PublisherStep, Arrive
  <2>3. ASSUME NEW k \in Messages, Republish(k) \/ Finish(k) PROVE FALSE
    BY <2>3 DEF Republish, Finish, DelaysInv, Inv, TypeOK
  <2>4. CASE DelaysTick \/ UNCHANGED <<vars, outboxVars>>
    BY <2>4 DEF DelaysTick, Tick, vars
  <2> QED
    BY <2>1, <2>2, <2>3, <2>4 DEF DelaysNext, ConsumerStep
<1> QED
  BY InitDelays, StepDelays, <1>1, PTL DEF DelaysSpec, NotBeforeBackoff
=============================================================================
