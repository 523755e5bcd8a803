----------------------- MODULE ProcessPayment_proofs ------------------------
(***************************************************************************)
(* Proofs about ProcessPayment, for any number of payments, messages and   *)
(* tasks, any retry limit and any number of faults.                        *)
(***************************************************************************)
EXTENDS ProcessPayment, FiniteSetTheorems, TLAPS

(* Every task that is doing something, and every stored message, is about  *)
(* a payment.  This makes type correctness inductive.                      *)
TaskRef ==
  \A w \in Workers : Busy(w) => task[w].msg \in MsgIds /\ task[w].payment \in Payments
MsgRef ==
  \A m \in MsgIds : msgs[m].place # "nowhere" => msgs[m].payment \in Payments

Typed == TypeOK /\ TaskRef /\ MsgRef

(* An idle task is a task.                                                 *)
LEMMA IdleType == Idle \in Task /\ [Idle EXCEPT !.pc = "down"] \in Task
  BY DEF Idle, Task, NoRow, Row, Statuses

(* HttpClient.post ends normally or with one of the exceptions listed.     *)
LEMMA PostType == \A code \in Nat : Post(code) \in Exceptions \cup {"none"}
  BY DEF Post, RaiseForStatus, Exceptions, HttpErrors, NetworkError, InvalidUrl,
         RETRYABLE_STATUSES

(* The operators of Broker store messages and nothing else.                *)
LEMMA MovedType ==
  ASSUME BrokerTypeOK, NEW m \in MsgIds, NEW q \in Queues
  PROVE  Moved(m, q) \in [MsgIds -> Message]
<1>1. msgs[m] \in Message
  BY DEF BrokerTypeOK
<1>2. [msgs[m] EXCEPT !.place = q, !.holder = None] \in Message
  BY <1>1 DEF Message
<1> QED
  BY <1>2 DEF BrokerTypeOK, Moved

(* A delivered message is still a message.                                 *)
LEMMA DeliverType ==
  ASSUME BrokerTypeOK, NEW m \in MsgIds, NEW w \in Workers, Deliver(m, w)
  PROVE  msgs' \in [MsgIds -> Message]
<1>1. msgs[m] \in Message
  BY DEF BrokerTypeOK
<1>2. [msgs[m] EXCEPT !.place = "unacked", !.holder = w] \in Message
  BY <1>1 DEF Message
<1> QED
  BY <1>2 DEF BrokerTypeOK, Deliver

(* So are the requeued ones.                                               *)
LEMMA RequeueType ==
  ASSUME BrokerTypeOK, RequeueUnacked
  PROVE  msgs' \in [MsgIds -> Message]
<1>1. \A m \in MsgIds : [msgs[m] EXCEPT !.place = "new", !.holder = None] \in Message
  BY DEF BrokerTypeOK, Message, Queues
<1> QED
  BY <1>1 DEF BrokerTypeOK, RequeueUnacked

(* The tasks with an unrecorded charge can be counted.                     *)
LEMMA UnrecordedType ==
  ASSUME NEW p \in Payments
  PROVE  IsFiniteSet(Unrecorded(p)) /\ Cardinality(Unrecorded(p)) \in Nat
  BY ConsumerConstants, FS_Subset, FS_CardinalityType DEF Unrecorded

(* The initial state is typed.                                             *)
LEMMA TypedInit == Init => Typed
  BY NoneIsFresh, LockValues, ConsumerConstants, IdleType
  DEF Init, Typed, TypeOK, TaskRef, MsgRef, BrokerInit, LockInit, BrokerTypeOK,
      LockTypeOK, Message, NoMessage, Queues, Idle, Row, NoRow, Statuses, Busy

(* Every step keeps the state typed.                                       *)
LEMMA TypedStep == Typed /\ [Next]_vars => Typed'
<1> SUFFICES ASSUME Typed, [Next]_vars PROVE Typed'
  OBVIOUS
<1> USE NoneIsFresh, LockValues, ConsumerConstants
<1>1. ASSUME NEW p \in Payments, PublishPayment(p) PROVE Typed'
  <2>1. msgs' \in [MsgIds -> Message]
    BY <1>1 DEF PublishPayment, Typed, TypeOK, BrokerTypeOK, Publish, Stored,
    Message, Queues
  <2>2. published' \in [Payments -> Nat]
    BY <1>1 DEF PublishPayment, Typed, TypeOK
  <2>3. MsgRef'
    BY <1>1 DEF PublishPayment, Typed, TypeOK, MsgRef, BrokerTypeOK, Publish,
    Stored, Message, Queues
  <2> QED
    BY <1>1, <2>1, <2>2, <2>3 DEF PublishPayment, Typed, TypeOK, BrokerTypeOK,
    LockTypeOK, TaskRef, MsgRef, Busy, history
<1>2. ASSUME NEW p \in Payments, LockTtl(p) PROVE Typed'
  <2>1. lock' \in [LockKeys -> Holders \cup {Free, Orphan}]
    BY <1>2 DEF LockTtl, Typed, TypeOK, LockTypeOK, Expire
  <2>2. overtaken' \in [Payments -> Nat]
    BY <1>2 DEF LockTtl, Typed, TypeOK
  <2> QED
    BY <1>2, <2>1, <2>2 DEF LockTtl, Typed, TypeOK, BrokerTypeOK, LockTypeOK,
    TaskRef, MsgRef, Busy
<1>3. ASSUME NEW m \in MsgIds, RetryTtl(m) PROVE Typed'
  <2>1. msgs' \in [MsgIds -> Message]
    BY <1>3, MovedType DEF RetryTtl, Typed, TypeOK, ExpireTtl,
    DeadLetterTo, Queues
  <2>2. MsgRef'
    BY <1>3 DEF RetryTtl, Typed, TypeOK, MsgRef, BrokerTypeOK, ExpireTtl,
    Moved, DeadLetterTo, Message, Queues
  <2> QED
    BY <1>3, <2>1, <2>2 DEF RetryTtl, Typed, TypeOK, BrokerTypeOK, LockTypeOK,
    TaskRef, MsgRef, Busy, history
<1>4. ASSUME NEW m \in MsgIds, NEW w \in Workers, Receive(m, w) PROVE Typed'
  <2>1. msgs' \in [MsgIds -> Message]
    BY <1>4, DeliverType DEF Receive, Typed, TypeOK
  <2>2. task' \in [Workers -> Task]
    BY <1>4, IdleType DEF Receive, Typed, TypeOK, Deliver, BrokerTypeOK,
    Message, Task, Idle
  <2>3. TaskRef'
    BY <1>4 DEF Receive, Typed, TypeOK, TaskRef, Busy, Deliver, BrokerTypeOK,
    Message, Task, Idle, MsgRef
  <2>4. MsgRef'
    BY <1>4 DEF Receive, Typed, TypeOK, MsgRef, BrokerTypeOK, Deliver, Message
  <2> QED
    BY <1>4, <2>1, <2>2, <2>3, <2>4 DEF Receive, Typed, TypeOK, BrokerTypeOK,
    LockTypeOK, TaskRef, MsgRef, Busy, history
<1>5. ASSUME NEW w \in Workers, AcquireLock(w) PROVE Typed'
  <2>1. /\ task[w] \in Task /\ Busy(w)
        /\ task[w].msg \in MsgIds /\ task[w].payment \in Payments
    BY <1>5 DEF AcquireLock, At, Typed, TypeOK, TaskRef, Busy
  <2>2. lock' \in [LockKeys -> Holders \cup {Free, Orphan}]
    BY <1>5, <2>1 DEF AcquireLock, At, Typed, TypeOK, LockTypeOK, Acquire
  <2>3. task' \in [Workers -> Task]
    BY <1>5, <2>1 DEF AcquireLock, At, Typed, TypeOK, Goto, Task, Critical
  <2>4. TaskRef'
    BY <1>5, <2>1 DEF AcquireLock, At, Typed, TypeOK, TaskRef, Busy, Goto,
    Task
  <2> QED
    BY <1>5, <2>2, <2>3, <2>4 DEF AcquireLock, At, Typed, TypeOK,
    BrokerTypeOK, LockTypeOK, TaskRef, MsgRef, Busy, history
<1>6. ASSUME NEW w \in Workers, LockTimeout(w) PROVE Typed'
  <2>1. /\ task[w] \in Task /\ Busy(w)
        /\ task[w].msg \in MsgIds /\ task[w].payment \in Payments
    BY <1>6 DEF LockTimeout, At, Typed, TypeOK, TaskRef, Busy
  <2>2. task' \in [Workers -> Task]
    BY <1>6, <2>1 DEF LockTimeout, At, Typed, TypeOK, Task, Exceptions
  <2>3. TaskRef'
    BY <1>6, <2>1 DEF LockTimeout, At, Typed, TypeOK, TaskRef, Busy, Task
  <2> QED
    BY <1>6, <2>2, <2>3 DEF LockTimeout, At, Typed, TypeOK, BrokerTypeOK,
    LockTypeOK, TaskRef, MsgRef, Busy, history
<1>7. ASSUME NEW w \in Workers, Load(w) PROVE Typed'
  <2>1. /\ task[w] \in Task /\ Busy(w)
        /\ task[w].msg \in MsgIds /\ task[w].payment \in Payments
    BY <1>7 DEF Load, At, Typed, TypeOK, TaskRef, Busy
  <2>2. task' \in [Workers -> Task]
    BY <1>7, <2>1 DEF Load, At, Typed, TypeOK, AfterLoad, AfterRow, Task,
    Critical
  <2>3. TaskRef'
    BY <1>7, <2>1 DEF Load, At, Typed, TypeOK, TaskRef, Busy, Task
  <2> QED
    BY <1>7, <2>2, <2>3 DEF Load, At, Typed, TypeOK, BrokerTypeOK, LockTypeOK,
    TaskRef, MsgRef, Busy, history
<1>8. ASSUME NEW w \in Workers, Charge(w) PROVE Typed'
  <2>1. /\ task[w] \in Task /\ Busy(w)
        /\ task[w].msg \in MsgIds /\ task[w].payment \in Payments
    BY <1>8 DEF Charge, At, Typed, TypeOK, TaskRef, Busy
  <2>2. task' \in [Workers -> Task]
    <3>1. PICK ok \in BOOLEAN : task' = [task EXCEPT ![w].pc = "record", ![w].ok = ok]
      BY <1>8 DEF Charge
    <3>2. [task[w] EXCEPT !.pc = "record", !.ok = ok] \in Task
      BY <2>1 DEF Task, Critical
    <3> QED
      BY <3>1, <3>2 DEF Typed, TypeOK
  <2>3. charges' \in [Payments -> Nat]
    BY <1>8, <2>1 DEF Charge, At, Typed, TypeOK
  <2>4. TaskRef'
    BY <1>8, <2>1 DEF Charge, At, Typed, TypeOK, TaskRef, Busy, Task
  <2> QED
    BY <1>8, <2>2, <2>3, <2>4 DEF Charge, At, Typed, TypeOK, BrokerTypeOK,
    LockTypeOK, TaskRef, MsgRef, Busy, history
<1>9. ASSUME NEW w \in Workers, RecordOutcome(w) PROVE Typed'
  <2>1. /\ task[w] \in Task /\ Busy(w)
        /\ task[w].msg \in MsgIds /\ task[w].payment \in Payments
    BY <1>9 DEF RecordOutcome, At, Typed, TypeOK, TaskRef, Busy
  <2>2. payments' \in [Payments -> Row]
    <3>1. payments \in [Payments -> Row]
      BY DEF Typed, TypeOK
    <3> QED
      BY <1>9, <2>1, <3>1 DEF RecordOutcome, Recorded, Row, Statuses
  <2>3. task' \in [Workers -> Task]
    <3> DEFINE row == Recorded(payments[task[w].payment], task[w].ok)
    <3>1. row \in Row
      BY <2>1 DEF Typed, TypeOK, Row, Statuses, Recorded
    <3>2. [task[w] EXCEPT !.pc = AfterRow(task[w].payment, row), !.row = row,
                          !.ok = FALSE] \in Task
      BY <2>1, <3>1 DEF Task, Critical, AfterRow
    <3> QED
      BY <3>2, <1>9 DEF Typed, TypeOK, RecordOutcome
  <2>4. TaskRef'
    BY <1>9, <2>1 DEF RecordOutcome, At, Typed, TypeOK, TaskRef, Busy, Task
  <2> QED
    BY <1>9, <2>2, <2>3, <2>4 DEF RecordOutcome, At, Typed, TypeOK,
    BrokerTypeOK, LockTypeOK, TaskRef, MsgRef, Busy, history
<1>10. ASSUME NEW w \in Workers, PostWebhook(w) PROVE Typed'
  <2>1. /\ task[w] \in Task /\ Busy(w)
        /\ task[w].msg \in MsgIds /\ task[w].payment \in Payments
    BY <1>10 DEF PostWebhook, At, Typed, TypeOK, TaskRef, Busy
  <2>2. task' \in [Workers -> Task]
    BY <1>10, <2>1, PostType DEF PostWebhook, At, Typed, TypeOK, Goto, Raise,
    Task, Critical
  <2>3. posts' \in [Payments -> Nat]
    BY <1>10, <2>1 DEF PostWebhook, At, Typed, TypeOK
  <2>4. reported' \in [Payments -> SUBSET Statuses]
    BY <1>10, <2>1 DEF PostWebhook, At, Typed, TypeOK, Task, Row
  <2>5. TaskRef'
    BY <1>10, <2>1 DEF PostWebhook, At, Typed, TypeOK, TaskRef, Busy, Goto,
    Raise, Task
  <2> QED
    BY <1>10, <2>2, <2>3, <2>4, <2>5 DEF PostWebhook, At, Typed, TypeOK,
    BrokerTypeOK, LockTypeOK, TaskRef, MsgRef, Busy, history
<1>11. ASSUME NEW w \in Workers, StampDelivered(w) PROVE Typed'
  <2>1. /\ task[w] \in Task /\ Busy(w)
        /\ task[w].msg \in MsgIds /\ task[w].payment \in Payments
    BY <1>11 DEF StampDelivered, At, Typed, TypeOK, TaskRef, Busy
  <2>2. payments' \in [Payments -> Row]
    BY <1>11, <2>1 DEF StampDelivered, At, Typed, TypeOK, Stamped, Row
  <2>3. task' \in [Workers -> Task]
    BY <1>11, <2>1 DEF StampDelivered, At, Typed, TypeOK, Goto, Task, Critical
  <2>4. TaskRef'
    BY <1>11, <2>1 DEF StampDelivered, At, Typed, TypeOK, TaskRef, Busy, Goto,
    Task
  <2> QED
    BY <1>11, <2>2, <2>3, <2>4 DEF StampDelivered, At, Typed, TypeOK,
    BrokerTypeOK, LockTypeOK, TaskRef, MsgRef, Busy, history
<1>12. ASSUME NEW w \in Workers, ReleaseLock(w) PROVE Typed'
  <2>1. /\ task[w] \in Task /\ Busy(w)
        /\ task[w].msg \in MsgIds /\ task[w].payment \in Payments
    BY <1>12 DEF ReleaseLock, At, Typed, TypeOK, TaskRef, Busy
  <2>2. lock' \in [LockKeys -> Holders \cup {Free, Orphan}]
    BY <1>12, <2>1 DEF ReleaseLock, At, Typed, TypeOK, LockTypeOK, Released
  <2>3. task' \in [Workers -> Task]
    BY <1>12, <2>1 DEF ReleaseLock, At, Typed, TypeOK, Task, NoRow, Row,
    Statuses, Exceptions
  <2>4. TaskRef'
    BY <1>12, <2>1 DEF ReleaseLock, At, Typed, TypeOK, TaskRef, Busy, Task
  <2> QED
    BY <1>12, <2>2, <2>3, <2>4 DEF ReleaseLock, At, Typed, TypeOK,
    BrokerTypeOK, LockTypeOK, TaskRef, MsgRef, Busy, history
<1>13. ASSUME NEW w \in Workers, PassThrough(w) PROVE Typed'
  <2>1. /\ task[w] \in Task /\ Busy(w)
        /\ task[w].msg \in MsgIds /\ task[w].payment \in Payments
    BY <1>13 DEF PassThrough, At, Typed, TypeOK, TaskRef, Busy
  <2>2. task' \in [Workers -> Task]
    BY <1>13, <2>1 DEF PassThrough, At, Typed, TypeOK, Goto, Task
  <2>3. TaskRef'
    BY <1>13, <2>1 DEF PassThrough, At, Typed, TypeOK, TaskRef, Busy, Goto,
    Task
  <2> QED
    BY <1>13, <2>2, <2>3 DEF PassThrough, At, Typed, TypeOK, BrokerTypeOK,
    LockTypeOK, TaskRef, MsgRef, Busy, history
<1>14. ASSUME NEW w \in Workers, Republish(w) PROVE Typed'
  <2>1. /\ task[w] \in Task /\ Busy(w)
        /\ task[w].msg \in MsgIds /\ task[w].payment \in Payments
    BY <1>14 DEF Republish, At, Typed, TypeOK, TaskRef, Busy
  <2>2. msgs' \in [MsgIds -> Message]
    BY <1>14, <2>1 DEF Republish, At, Typed, TypeOK, BrokerTypeOK, Publish,
    Stored, NextCount, Message, Queues, Task
  <2>3. task' \in [Workers -> Task]
    BY <1>14, <2>1 DEF Republish, At, Typed, TypeOK, Task
  <2>4. TaskRef'
    BY <1>14, <2>1 DEF Republish, At, Typed, TypeOK, TaskRef, Busy, Task
  <2>5. MsgRef'
    BY <1>14, <2>1 DEF Republish, At, Typed, TypeOK, MsgRef, BrokerTypeOK,
    Publish, Stored, NextCount, Message, Queues, Task
  <2> QED
    BY <1>14, <2>2, <2>3, <2>4, <2>5 DEF Republish, At, Typed, TypeOK,
    BrokerTypeOK, LockTypeOK, TaskRef, MsgRef, Busy, history
<1>15. ASSUME NEW w \in Workers, Settle(w) PROVE Typed'
  <2>1. /\ task[w] \in Task /\ Busy(w)
        /\ task[w].msg \in MsgIds /\ task[w].payment \in Payments
    BY <1>15 DEF Settle, At, Typed, TypeOK, TaskRef, Busy
  <2>2. msgs' \in [MsgIds -> Message]
    BY <1>15, <2>1 DEF Settle, At, Typed, TypeOK, BrokerTypeOK, Acked,
    Rejected, Owned, Moved, DeadLetterTo, Message, NoMessage, Queues
  <2>3. task' \in [Workers -> Task]
    BY <1>15, <2>1, IdleType DEF Settle, At, Typed, TypeOK
  <2>4. TaskRef'
    BY <1>15, <2>1 DEF Settle, At, Typed, TypeOK, TaskRef, Busy, Idle
  <2>5. MsgRef'
    BY <1>15, <2>1 DEF Settle, At, Typed, TypeOK, MsgRef, BrokerTypeOK, Acked,
    Rejected, Owned, Moved, DeadLetterTo, Message, NoMessage, Queues
  <2> QED
    BY <1>15, <2>2, <2>3, <2>4, <2>5 DEF Settle, At, Typed, TypeOK,
    BrokerTypeOK, LockTypeOK, TaskRef, MsgRef, Busy, history
<1>16. ASSUME NEW w \in Workers, AcquireFails(w) PROVE Typed'
  <2>1. /\ task[w] \in Task /\ Busy(w)
        /\ task[w].msg \in MsgIds /\ task[w].payment \in Payments
    BY <1>16 DEF AcquireFails, At, Fault, Typed, TypeOK, TaskRef, Busy
  <2>2. lock' \in [LockKeys -> Holders \cup {Free, Orphan}]
    BY <1>16, <2>1 DEF AcquireFails, At, Fault, Typed, TypeOK, LockTypeOK
  <2>3. task' \in [Workers -> Task]
    BY <1>16, <2>1 DEF AcquireFails, At, Fault, Typed, TypeOK, Task,
    Exceptions
  <2>4. faults' \in Nat
    BY <1>16, <2>1 DEF AcquireFails, At, Fault, Typed, TypeOK
  <2>5. TaskRef'
    BY <1>16, <2>1 DEF AcquireFails, At, Fault, Typed, TypeOK, TaskRef, Busy,
    Task
  <2> QED
    BY <1>16, <2>2, <2>3, <2>4, <2>5 DEF AcquireFails, At, Fault, Typed,
    TypeOK, BrokerTypeOK, LockTypeOK, TaskRef, MsgRef, Busy, history
<1>17. ASSUME NEW w \in Workers, LoadFails(w) PROVE Typed'
  <2>1. /\ task[w] \in Task /\ Busy(w)
        /\ task[w].msg \in MsgIds /\ task[w].payment \in Payments
    BY <1>17 DEF LoadFails, At, Fault, Typed, TypeOK, TaskRef, Busy
  <2>2. task' \in [Workers -> Task]
    BY <1>17, <2>1 DEF LoadFails, At, Fault, Typed, TypeOK, Raise, Task,
    Critical, Exceptions
  <2>3. faults' \in Nat
    BY <1>17, <2>1 DEF LoadFails, At, Fault, Typed, TypeOK
  <2>4. TaskRef'
    BY <1>17, <2>1 DEF LoadFails, At, Fault, Typed, TypeOK, TaskRef, Busy,
    Raise, Task
  <2> QED
    BY <1>17, <2>2, <2>3, <2>4 DEF LoadFails, At, Fault, Typed, TypeOK,
    BrokerTypeOK, LockTypeOK, TaskRef, MsgRef, Busy, history
<1>18. ASSUME NEW w \in Workers, RecordFails(w) PROVE Typed'
  <2>1. /\ task[w] \in Task /\ Busy(w)
        /\ task[w].msg \in MsgIds /\ task[w].payment \in Payments
    BY <1>18 DEF RecordFails, At, Fault, Typed, TypeOK, TaskRef, Busy
  <2>2. payments' \in [Payments -> Row]
    BY <1>18, <2>1 DEF RecordFails, At, Fault, Typed, TypeOK, Recorded, Row,
    Statuses
  <2>3. task' \in [Workers -> Task]
    BY <1>18, <2>1 DEF RecordFails, At, Fault, Typed, TypeOK, Task, Critical,
    Exceptions
  <2>4. lost' \in [Payments -> Nat]
    BY <1>18, <2>1 DEF RecordFails, At, Fault, Typed, TypeOK
  <2>5. faults' \in Nat
    BY <1>18, <2>1 DEF RecordFails, At, Fault, Typed, TypeOK
  <2>6. TaskRef'
    BY <1>18, <2>1 DEF RecordFails, At, Fault, Typed, TypeOK, TaskRef, Busy,
    Task
  <2> QED
    BY <1>18, <2>2, <2>3, <2>4, <2>5, <2>6 DEF RecordFails, At, Fault, Typed,
    TypeOK, BrokerTypeOK, LockTypeOK, TaskRef, MsgRef, Busy, history
<1>19. ASSUME NEW w \in Workers, StampFails(w) PROVE Typed'
  <2>1. /\ task[w] \in Task /\ Busy(w)
        /\ task[w].msg \in MsgIds /\ task[w].payment \in Payments
    BY <1>19 DEF StampFails, At, Fault, Typed, TypeOK, TaskRef, Busy
  <2>2. payments' \in [Payments -> Row]
    <3>1. Stamped(payments[task[w].payment]) \in Row
      BY <2>1 DEF Typed, TypeOK, Row, Stamped
    <3> QED
      BY <3>1, <1>19 DEF Typed, TypeOK, StampFails
  <2>3. task' \in [Workers -> Task]
    BY <1>19, <2>1 DEF StampFails, At, Fault, Typed, TypeOK, Raise, Task,
    Critical, Exceptions
  <2>4. faults' \in Nat
    BY <1>19, <2>1 DEF StampFails, At, Fault, Typed, TypeOK
  <2>5. TaskRef'
    BY <1>19, <2>1 DEF StampFails, At, Fault, Typed, TypeOK, TaskRef, Busy,
    Raise, Task
  <2> QED
    BY <1>19, <2>2, <2>3, <2>4, <2>5 DEF StampFails, At, Fault, Typed, TypeOK,
    BrokerTypeOK, LockTypeOK, TaskRef, MsgRef, Busy, history
<1>20. ASSUME NEW w \in Workers, ReleaseFails(w) PROVE Typed'
  <2>1. /\ task[w] \in Task /\ Busy(w)
        /\ task[w].msg \in MsgIds /\ task[w].payment \in Payments
    BY <1>20 DEF ReleaseFails, At, Fault, Typed, TypeOK, TaskRef, Busy
  <2>2. lock' \in [LockKeys -> Holders \cup {Free, Orphan}]
    BY <1>20, <2>1 DEF ReleaseFails, At, Fault, Typed, TypeOK, LockTypeOK,
    Released
  <2>3. task' \in [Workers -> Task]
    BY <1>20, <2>1 DEF ReleaseFails, At, Fault, Typed, TypeOK, Task, NoRow,
    Row, Statuses, Exceptions
  <2>4. faults' \in Nat
    BY <1>20, <2>1 DEF ReleaseFails, At, Fault, Typed, TypeOK
  <2>5. TaskRef'
    BY <1>20, <2>1 DEF ReleaseFails, At, Fault, Typed, TypeOK, TaskRef, Busy,
    Task
  <2> QED
    BY <1>20, <2>2, <2>3, <2>4, <2>5 DEF ReleaseFails, At, Fault, Typed,
    TypeOK, BrokerTypeOK, LockTypeOK, TaskRef, MsgRef, Busy, history
<1>21. ASSUME NEW w \in Workers, RepublishFails(w) PROVE Typed'
  <2>1. /\ task[w] \in Task /\ Busy(w)
        /\ task[w].msg \in MsgIds /\ task[w].payment \in Payments
    BY <1>21 DEF RepublishFails, At, Fault, Typed, TypeOK, TaskRef, Busy
  <2>2. msgs' \in [MsgIds -> Message]
    BY <1>21, <2>1 DEF RepublishFails, At, Fault, Typed, TypeOK, BrokerTypeOK,
    Publish, Stored, NextCount, Message, Queues, Task
  <2>3. task' \in [Workers -> Task]
    BY <1>21, <2>1 DEF RepublishFails, At, Fault, Typed, TypeOK, Task,
    Exceptions
  <2>4. faults' \in Nat
    BY <1>21, <2>1 DEF RepublishFails, At, Fault, Typed, TypeOK
  <2>5. TaskRef'
    BY <1>21, <2>1 DEF RepublishFails, At, Fault, Typed, TypeOK, TaskRef,
    Busy, Task
  <2>6. MsgRef'
    BY <1>21, <2>1 DEF RepublishFails, At, Fault, Typed, TypeOK, MsgRef,
    BrokerTypeOK, Publish, Stored, NextCount, Message, Queues, Task
  <2> QED
    BY <1>21, <2>2, <2>3, <2>4, <2>5, <2>6 DEF RepublishFails, At, Fault,
    Typed, TypeOK, BrokerTypeOK, LockTypeOK, TaskRef, MsgRef, Busy, history
<1>22. ASSUME Crash PROVE Typed'
  <2>1. msgs' \in [MsgIds -> Message]
    BY <1>22, RequeueType DEF Crash, Typed, TypeOK
  <2>2. lock' \in [LockKeys -> Holders \cup {Free, Orphan}]
    BY <1>22 DEF Crash, Fault, Typed, TypeOK, LockTypeOK, Abandoned
  <2>3. task' \in [Workers -> Task]
    BY <1>22, IdleType DEF Crash, Fault, Typed, TypeOK, Idle, Task
  <2>4. lost' \in [Payments -> Nat]
    BY <1>22, UnrecordedType DEF Crash, Typed, TypeOK
  <2>5. faults' \in Nat
    BY <1>22 DEF Crash, Fault, Typed, TypeOK
  <2>6. TaskRef'
    BY <1>22 DEF Crash, Fault, Typed, TypeOK, TaskRef, Busy, Idle, Task
  <2>7. MsgRef'
    <3>1. BrokerTypeOK /\ MsgRef /\ RequeueUnacked
      BY <1>22 DEF Crash, Typed, TypeOK
    <3> QED
      BY <3>1 DEF MsgRef, BrokerTypeOK, RequeueUnacked, Message
  <2> QED
    BY <1>22, <2>1, <2>2, <2>3, <2>4, <2>5, <2>6, <2>7 DEF Crash, Fault,
    Typed, TypeOK, BrokerTypeOK, LockTypeOK, TaskRef, MsgRef, Busy, history
<1>23. ASSUME Restart PROVE Typed'
  <2>1. task' \in [Workers -> Task]
    BY <1>23, IdleType DEF Restart, Typed, TypeOK
  <2>2. TaskRef'
    BY <1>23 DEF Restart, Typed, TypeOK, TaskRef, Busy, Idle
  <2> QED
    BY <1>23, <2>1, <2>2 DEF Restart, Typed, TypeOK, BrokerTypeOK, LockTypeOK,
    TaskRef, MsgRef, Busy, history
<1>24. ASSUME ConnectionLost PROVE Typed'
  <2>1. msgs' \in [MsgIds -> Message]
    BY <1>24, RequeueType DEF ConnectionLost, Typed, TypeOK
  <2>2. faults' \in Nat
    BY <1>24 DEF ConnectionLost, Fault, Typed, TypeOK
  <2>3. MsgRef'
    <3>1. BrokerTypeOK /\ MsgRef /\ RequeueUnacked
      BY <1>24 DEF ConnectionLost, Typed, TypeOK
    <3> QED
      BY <3>1 DEF MsgRef, BrokerTypeOK, RequeueUnacked, Message
  <2> QED
    BY <1>24, <2>1, <2>2, <2>3 DEF ConnectionLost, Fault, Typed, TypeOK,
    BrokerTypeOK, LockTypeOK, TaskRef, MsgRef, Busy, history
<1>25. CASE UNCHANGED vars
  BY <1>25 DEF vars, history, Typed, TypeOK, BrokerTypeOK, LockTypeOK, TaskRef, MsgRef, Busy
<1> QED
  BY <1>1, <1>2, <1>3, <1>4, <1>5, <1>6, <1>7, <1>8, <1>9, <1>10, <1>11,
  <1>12, <1>13, <1>14, <1>15, <1>16, <1>17, <1>18, <1>19, <1>20, <1>21,
  <1>22, <1>23, <1>24, <1>25 DEF Next, TaskStep, CallFails

(* Type correctness, under every fault and however long a task takes.      *)
THEOREM TypeCorrect == Spec => []TypeOK
<1>1. Spec => []Typed
  BY TypedInit, TypedStep, PTL DEF Spec
<1>2. Typed => TypeOK
  BY DEF Typed
<1> QED
  BY <1>1, <1>2, PTL

-----------------------------------------------------------------------------
(* Mutual exclusion: a task in the handler's body has the payment's lock,  *)
(* until it expires.                                                       *)
LateKept ==
  \A p \in Payments : Late(p)' \subseteq Late(p) /\ overtaken'[p] = overtaken[p]

(* Only the TTL makes a task late: a lock is taken only when free.         *)
LEMMA LateStep ==
  ASSUME Typed, [Next]_vars, \A p \in Payments : ~LockTtl(p)
  PROVE  LateKept
<1> USE NoneIsFresh, LockValues, ConsumerConstants DEF history
<1>1. ASSUME NEW p \in Payments, PublishPayment(p) PROVE LateKept
  BY <1>1 DEF PublishPayment, LateKept, Late
<1>2. ASSUME NEW m \in MsgIds, RetryTtl(m) PROVE LateKept
  BY <1>2 DEF RetryTtl, LateKept, Late
<1>3. ASSUME NEW m \in MsgIds, NEW w \in Workers, Receive(m, w) PROVE LateKept
  BY <1>3 DEF Receive, Idle, LateKept, Late, Critical, Typed, TypeOK, LockTypeOK,
  TaskRef, Busy, Task
<1>4. ASSUME NEW w \in Workers, AcquireLock(w) PROVE LateKept
  BY <1>4 DEF AcquireLock, At, Acquire, Goto, LateKept, Late, Critical, Typed,
  TypeOK, LockTypeOK, TaskRef, Busy, Task
<1>5. ASSUME NEW w \in Workers, LockTimeout(w) PROVE LateKept
  BY <1>5 DEF LockTimeout, At, LateKept, Late, Critical, Typed, TypeOK, LockTypeOK,
  TaskRef, Busy, Task
<1>6. ASSUME NEW w \in Workers, Load(w) PROVE LateKept
  BY <1>6 DEF Load, At, AfterLoad, AfterRow, LateKept, Late, Critical, Typed,
  TypeOK, LockTypeOK, TaskRef, Busy, Task
<1>7. ASSUME NEW w \in Workers, Charge(w) PROVE LateKept
  BY <1>7 DEF Charge, At, LateKept, Late, Critical, Typed, TypeOK, LockTypeOK,
  TaskRef, Busy, Task
<1>8. ASSUME NEW w \in Workers, RecordOutcome(w) PROVE LateKept
  BY <1>8 DEF RecordOutcome, At, AfterRow, LateKept, Late, Critical, Typed, TypeOK,
  LockTypeOK, TaskRef, Busy, Task
<1>9. ASSUME NEW w \in Workers, PostWebhook(w) PROVE LateKept
  BY <1>9 DEF PostWebhook, At, Goto, Raise, LateKept, Late, Critical, Typed,
  TypeOK, LockTypeOK, TaskRef, Busy, Task
<1>10. ASSUME NEW w \in Workers, StampDelivered(w) PROVE LateKept
  BY <1>10 DEF StampDelivered, At, Goto, LateKept, Late, Critical, Typed, TypeOK,
  LockTypeOK, TaskRef, Busy, Task
<1>11. ASSUME NEW w \in Workers, ReleaseLock(w) PROVE LateKept
  BY <1>11 DEF ReleaseLock, At, Released, Holds, LateKept, Late, Critical, Typed,
  TypeOK, LockTypeOK, TaskRef, Busy, Task
<1>12. ASSUME NEW w \in Workers, PassThrough(w) PROVE LateKept
  BY <1>12 DEF PassThrough, At, Goto, LateKept, Late, Critical, Typed, TypeOK,
  LockTypeOK, TaskRef, Busy, Task
<1>13. ASSUME NEW w \in Workers, Republish(w) PROVE LateKept
  BY <1>13 DEF Republish, At, LateKept, Late, Critical, Typed, TypeOK, LockTypeOK,
  TaskRef, Busy, Task
<1>14. ASSUME NEW w \in Workers, Settle(w) PROVE LateKept
  BY <1>14 DEF Settle, At, Idle, LateKept, Late, Critical, Typed, TypeOK,
  LockTypeOK, TaskRef, Busy, Task
<1>15. ASSUME NEW w \in Workers, AcquireFails(w) PROVE LateKept
  BY <1>15 DEF AcquireFails, At, Fault, LateKept, Late, Critical, Typed, TypeOK,
  LockTypeOK, TaskRef, Busy, Task
<1>16. ASSUME NEW w \in Workers, LoadFails(w) PROVE LateKept
  BY <1>16 DEF LoadFails, At, Fault, Raise, LateKept, Late, Critical, Typed,
  TypeOK, LockTypeOK, TaskRef, Busy, Task
<1>17. ASSUME NEW w \in Workers, RecordFails(w) PROVE LateKept
  BY <1>17 DEF RecordFails, At, Fault, LateKept, Late, Critical, Typed, TypeOK,
  LockTypeOK, TaskRef, Busy, Task
<1>18. ASSUME NEW w \in Workers, StampFails(w) PROVE LateKept
  BY <1>18 DEF StampFails, At, Fault, Raise, LateKept, Late, Critical, Typed,
  TypeOK, LockTypeOK, TaskRef, Busy, Task
<1>19. ASSUME NEW w \in Workers, ReleaseFails(w) PROVE LateKept
  BY <1>19 DEF ReleaseFails, At, Fault, Released, Holds, LateKept, Late, Critical,
  Typed, TypeOK, LockTypeOK, TaskRef, Busy, Task
<1>20. ASSUME NEW w \in Workers, RepublishFails(w) PROVE LateKept
  BY <1>20 DEF RepublishFails, At, Fault, LateKept, Late, Critical, Typed, TypeOK,
  LockTypeOK, TaskRef, Busy, Task
<1>21. ASSUME Crash PROVE LateKept
  BY <1>21 DEF Crash, Fault, Idle, LateKept, Late, Critical, Typed, TypeOK,
  LockTypeOK, TaskRef, Busy, Task
<1>22. ASSUME Restart PROVE LateKept
  BY <1>22 DEF Restart, Idle, LateKept, Late, Critical, Typed, TypeOK, LockTypeOK,
  TaskRef, Busy, Task
<1>23. ASSUME ConnectionLost PROVE LateKept
  BY <1>23 DEF ConnectionLost, LateKept, Late
<1>24. CASE UNCHANGED vars
  BY <1>24 DEF vars, LateKept, Late
<1> QED
  BY <1>1, <1>2, <1>3, <1>4, <1>5, <1>6, <1>7, <1>8, <1>9, <1>10, <1>11,
  <1>12, <1>13, <1>14, <1>15, <1>16, <1>17, <1>18, <1>19, <1>20, <1>21,
  <1>22, <1>23, <1>24 DEF Next, TaskStep, CallFails

(* The tasks inside the body that do not have the lock can be counted.     *)
LEMMA LateType ==
  ASSUME NEW p \in Payments
  PROVE  IsFiniteSet(Late(p)) /\ Cardinality(Late(p)) \in Nat
  BY ConsumerConstants, FS_Subset, FS_CardinalityType DEF Late

(* One element more.                                                       *)
LEMMA OneMore ==
  ASSUME NEW S, NEW x, IsFiniteSet(S)
  PROVE  /\ IsFiniteSet(S \cup {x})
         /\ Cardinality(S) \in Nat /\ Cardinality(S \cup {x}) \in Nat
         /\ Cardinality(S \cup {x}) <= Cardinality(S) + 1
<1> DEFINE T == S \cup {x}
<1>1. IsFiniteSet(T) /\ Cardinality(S) \in Nat /\ Cardinality(T) \in Nat
  BY FS_AddElement, FS_CardinalityType
<1>2. Cardinality(T) = IF x \in S THEN Cardinality(S) ELSE Cardinality(S) + 1
  BY FS_AddElement
<1> QED
  BY <1>1, <1>2

(* Every step keeps LockInv: the TTL makes at most one task late, and is   *)
(* counted when it does.                                                   *)
LEMMA LockStep == Typed /\ LockInv /\ [Next]_vars => LockInv'
<1> SUFFICES ASSUME Typed, LockInv, [Next]_vars, NEW p \in Payments
             PROVE  Cardinality(Late(p)') <= overtaken'[p]
  BY DEF LockInv
<1>1. /\ Cardinality(Late(p)) <= overtaken[p] /\ overtaken \in [Payments -> Nat]
      /\ IsFiniteSet(Late(p)) /\ Cardinality(Late(p)) \in Nat
  BY LateType DEF LockInv, Typed, TypeOK
<1>2. ASSUME \A q \in Payments : ~LockTtl(q)
      PROVE  Cardinality(Late(p)') <= overtaken'[p]
  <2>1. Late(p)' \subseteq Late(p) /\ overtaken'[p] = overtaken[p]
    BY <1>2, LateStep DEF LateKept
  <2>2. Cardinality(Late(p)') \in Nat /\ Cardinality(Late(p)') <= Cardinality(Late(p))
    BY <1>1, <2>1, FS_Subset, FS_CardinalityType
  <2> QED
    BY <1>1, <2>1, <2>2
<1>3. ASSUME NEW q \in Payments, LockTtl(q)
      PROVE  Cardinality(Late(p)') <= overtaken'[p]
  <2>1. /\ task' = task /\ lock \in [Payments -> Workers \cup {Free, Orphan}]
        /\ lock' = [lock EXCEPT ![q] = Free]
        /\ overtaken'[p] = IF p = q /\ lock[q] # Orphan THEN overtaken[p] + 1 ELSE overtaken[p]
    BY <1>1, <1>3, ConsumerConstants DEF LockTtl, Expire, Typed, TypeOK, LockTypeOK
  <2>2. CASE p # q \/ lock[q] = Orphan
    <3>1. Late(p)' = Late(p)
      BY <2>1, <2>2, LockValues, ConsumerConstants DEF Late
    <3> QED
      BY <1>1, <2>1, <2>2, <3>1
  <2>3. CASE p = q /\ lock[q] # Orphan
    <3>1. Late(p)' \subseteq Late(p) \cup {lock[p]}
      BY <2>1, <2>3 DEF Late
    <3>2. /\ IsFiniteSet(Late(p) \cup {lock[p]})
          /\ Cardinality(Late(p) \cup {lock[p]}) \in Nat
          /\ Cardinality(Late(p) \cup {lock[p]}) <= Cardinality(Late(p)) + 1
      BY <1>1, OneMore
    <3>3. Cardinality(Late(p)') \in Nat
          /\ Cardinality(Late(p)') <= Cardinality(Late(p) \cup {lock[p]})
      BY <3>1, <3>2, FS_Subset, FS_CardinalityType
    <3> QED
      BY <1>1, <2>1, <2>3, <3>2, <3>3
  <2> QED
    BY <2>2, <2>3
<1> QED
  BY <1>2, <1>3

(* While the lock has held, a task in the body has it.                     *)
LEMMA HasLock ==
  ASSUME LockInv, NEW w \in Workers, task[w].pc \in Critical,
         task[w].payment \in Payments, InTime(task[w].payment)
  PROVE  lock[task[w].payment] = w
<1> DEFINE p == task[w].payment
<1>1. Cardinality(Late(p)) = 0 /\ IsFiniteSet(Late(p))
  BY LateType DEF LockInv, InTime
<1>2. Late(p) = {}
  BY <1>1, FS_EmptySet
<1> QED
  BY <1>2 DEF Late

(* At first nobody is inside the body.                                     *)
LEMMA LockStart == Init => LockInv
<1> SUFFICES ASSUME Init, NEW p \in Payments PROVE Cardinality(Late(p)) <= overtaken[p]
  BY DEF LockInv
<1>1. Late(p) = {} /\ overtaken[p] = 0
  BY DEF Init, Idle, Late, Critical
<1> QED
  BY <1>1, FS_EmptySet

(* No two tasks are in the handler's body for one payment, until the lock  *)
(* expires under one of them.                                              *)
THEOREM MutualExclusion == Spec => []OneProcessorPerPayment
<1>1. Init => LockInv
  BY LockStart
<1>2. Typed /\ LockInv => OneProcessorPerPayment
  BY HasLock DEF OneProcessorPerPayment, Typed, TaskRef, Busy, Critical
<1> QED
  BY <1>1, <1>2, TypedInit, TypedStep, LockStep, PTL DEF Spec

-----------------------------------------------------------------------------
(* No payment is forgotten, with or without the lock.                      *)

(* What a step may do to the rows: they only make progress.                *)
RowsGrow ==
  \A p \in Payments :
    /\ payments[p].status # "absent" => payments'[p].status # "absent"
    /\ Settled(p) => Settled(p)'
    /\ Done(p) => Done(p)'

(* No action takes a row back.                                             *)
LEMMA RowsStep == Typed /\ TaskInv /\ [Next]_vars => RowsGrow
<1> SUFFICES ASSUME Typed, TaskInv, [Next]_vars PROVE RowsGrow
  OBVIOUS
<1>1. ASSUME NEW p \in Payments, PublishPayment(p) PROVE RowsGrow
  BY <1>1 DEF PublishPayment, RowsGrow, Done, Settled
<1>2. ASSUME NEW p \in Payments, LockTtl(p) PROVE RowsGrow
  BY <1>2 DEF LockTtl, RowsGrow, Done, Settled
<1>3. ASSUME NEW m \in MsgIds, RetryTtl(m) PROVE RowsGrow
  BY <1>3 DEF RetryTtl, RowsGrow, Done, Settled
<1>4. ASSUME NEW m \in MsgIds, NEW w \in Workers, Receive(m, w) PROVE RowsGrow
  BY <1>4 DEF Receive, RowsGrow, Done, Settled
<1>5. ASSUME NEW w \in Workers, AcquireLock(w) PROVE RowsGrow
  BY <1>5 DEF AcquireLock, RowsGrow, Done, Settled
<1>6. ASSUME NEW w \in Workers, LockTimeout(w) PROVE RowsGrow
  BY <1>6 DEF LockTimeout, RowsGrow, Done, Settled
<1>7. ASSUME NEW w \in Workers, Load(w) PROVE RowsGrow
  BY <1>7 DEF Load, RowsGrow, Done, Settled
<1>8. ASSUME NEW w \in Workers, Charge(w) PROVE RowsGrow
  BY <1>8 DEF Charge, RowsGrow, Done, Settled
<1>9. ASSUME NEW w \in Workers, RecordOutcome(w) PROVE RowsGrow
  BY <1>9 DEF RecordOutcome, At, Recorded, RowsGrow, Done, Settled, TaskInv,
  TaskOK, Typed, TypeOK, TaskRef, Busy, Row
<1>10. ASSUME NEW w \in Workers, PostWebhook(w) PROVE RowsGrow
  BY <1>10 DEF PostWebhook, RowsGrow, Done, Settled
<1>11. ASSUME NEW w \in Workers, StampDelivered(w) PROVE RowsGrow
  BY <1>11 DEF StampDelivered, At, Stamped, RowsGrow, Done, Settled,
  TaskInv, TaskOK, Typed, TypeOK, TaskRef, Busy, Row
<1>12. ASSUME NEW w \in Workers, ReleaseLock(w) PROVE RowsGrow
  BY <1>12 DEF ReleaseLock, RowsGrow, Done, Settled
<1>13. ASSUME NEW w \in Workers, PassThrough(w) PROVE RowsGrow
  BY <1>13 DEF PassThrough, RowsGrow, Done, Settled
<1>14. ASSUME NEW w \in Workers, Republish(w) PROVE RowsGrow
  BY <1>14 DEF Republish, RowsGrow, Done, Settled
<1>15. ASSUME NEW w \in Workers, Settle(w) PROVE RowsGrow
  BY <1>15 DEF Settle, RowsGrow, Done, Settled
<1>16. ASSUME NEW w \in Workers, AcquireFails(w) PROVE RowsGrow
  BY <1>16 DEF AcquireFails, RowsGrow, Done, Settled
<1>17. ASSUME NEW w \in Workers, LoadFails(w) PROVE RowsGrow
  BY <1>17 DEF LoadFails, RowsGrow, Done, Settled
<1>18. ASSUME NEW w \in Workers, RecordFails(w) PROVE RowsGrow
  BY <1>18 DEF RecordFails, At, Fault, Recorded, RowsGrow, Done, Settled,
  TaskInv, TaskOK, Typed, TypeOK, TaskRef, Busy, Row
<1>19. ASSUME NEW w \in Workers, StampFails(w) PROVE RowsGrow
  BY <1>19 DEF StampFails, At, Fault, Stamped, RowsGrow, Done, Settled,
  TaskInv, TaskOK, Typed, TypeOK, TaskRef, Busy, Row
<1>20. ASSUME NEW w \in Workers, ReleaseFails(w) PROVE RowsGrow
  BY <1>20 DEF ReleaseFails, RowsGrow, Done, Settled
<1>21. ASSUME NEW w \in Workers, RepublishFails(w) PROVE RowsGrow
  BY <1>21 DEF RepublishFails, RowsGrow, Done, Settled
<1>22. ASSUME Crash PROVE RowsGrow
  BY <1>22 DEF Crash, RowsGrow, Done, Settled
<1>23. ASSUME Restart PROVE RowsGrow
  BY <1>23 DEF Restart, RowsGrow, Done, Settled
<1>24. ASSUME ConnectionLost PROVE RowsGrow
  BY <1>24 DEF ConnectionLost, RowsGrow, Done, Settled
<1>25. CASE UNCHANGED vars
  BY <1>25 DEF vars, RowsGrow, Done, Settled
<1> QED
  BY <1>1, <1>2, <1>3, <1>4, <1>5, <1>6, <1>7, <1>8, <1>9, <1>10, <1>11,
  <1>12, <1>13, <1>14, <1>15, <1>16, <1>17, <1>18, <1>19, <1>20, <1>21,
  <1>22, <1>23, <1>24, <1>25 DEF Next, TaskStep, CallFails

(* What a task relies on survives the steps of the others.                 *)
LEMMA Bystander ==
  ASSUME Typed, TaskInv, RowsGrow, NEW w \in Workers, task'[w] = task[w]
  PROVE  TaskOK(w)'
  BY DEF Typed, TaskRef, TaskInv, TaskOK, RowsGrow, Busy, At

(* Every step keeps TaskInv: the branches of execute leave the body with   *)
(* no exception only when nothing is left to do.                           *)
LEMMA TaskInvStep == Typed /\ TaskInv /\ [Next]_vars => TaskInv'
<1> SUFFICES ASSUME Typed, TaskInv, [Next]_vars PROVE TaskInv'
  OBVIOUS
<1> USE NoneIsFresh
<1> RowsGrow
  BY RowsStep
<1>1. ASSUME NEW p \in Payments, PublishPayment(p) PROVE TaskInv'
  BY <1>1 DEF PublishPayment, RowsGrow, TaskInv, TaskOK, Typed,
  TaskRef, Busy, At, Done, Settled
<1>2. ASSUME NEW p \in Payments, LockTtl(p) PROVE TaskInv'
  BY <1>2 DEF LockTtl, RowsGrow, TaskInv, TaskOK, Typed, TaskRef,
  Busy, At, Done, Settled
<1>3. ASSUME NEW m \in MsgIds, RetryTtl(m) PROVE TaskInv'
  BY <1>3 DEF RetryTtl, RowsGrow, TaskInv, TaskOK, Typed, TaskRef,
  Busy, At, Done, Settled
<1>4. ASSUME NEW m \in MsgIds, NEW w \in Workers, Receive(m, w) PROVE TaskInv'
  BY <1>4 DEF Receive, Idle, RowsGrow, TaskInv, TaskOK, Typed,
  TypeOK, TaskRef, MsgRef, Busy, At, Critical, Task, Deliver
<1>5. ASSUME NEW w \in Workers, AcquireLock(w) PROVE TaskInv'
  BY <1>5 DEF AcquireLock, At, Goto, RowsGrow, TaskInv, TaskOK,
  Typed, TypeOK, TaskRef, MsgRef, Busy, Critical, Task
<1>6. ASSUME NEW w \in Workers, LockTimeout(w) PROVE TaskInv'
  BY <1>6 DEF LockTimeout, At, RowsGrow, TaskInv, TaskOK, Typed,
  TypeOK, TaskRef, MsgRef, Busy, Critical, Task
<1>7. ASSUME NEW w \in Workers, Load(w) PROVE TaskInv'
  <2>1. PICK p \in Payments : p = task[w].payment
    BY <1>7 DEF Load, At, Typed, TaskRef, Busy
  <2>2. PICK row \in Row : row = payments[p]
    BY DEF Typed, TypeOK
  <2>3. /\ AfterLoad(p, row) \in {"charge", "webhook", "release"}
        /\ AfterLoad(p, row) = "charge" => row.status = "pending"
        /\ AfterLoad(p, row) = "webhook" => Settled(p)
        /\ AfterLoad(p, row) = "release" => Done(p)
    BY <2>2 DEF AfterLoad, AfterRow, NeedsWebhook, Done, Settled, Row, Statuses
  <2>4. /\ payments' = payments /\ Busy(w) /\ task[w].exc = "none"
        /\ task' = [task EXCEPT ![w].row = row, ![w].pc = AfterLoad(p, row)]
    BY <1>7, <2>1, <2>2 DEF Load, At, Busy, TaskInv, TaskOK
  <2>5. /\ task'[w].pc = AfterLoad(p, row) /\ task'[w].payment = p
        /\ task'[w].msg = task[w].msg /\ task'[w].exc = "none"
        /\ \A v \in Workers \ {w} : task'[v] = task[v]
    BY <2>1, <2>4 DEF Typed, TypeOK, Task
  <2>6. /\ AfterLoad(p, row) = "charge" => payments'[p].status # "absent"
        /\ AfterLoad(p, row) = "webhook" => Settled(p)'
        /\ AfterLoad(p, row) = "release" => Done(p)'
    BY <2>2, <2>3, <2>4 DEF RowsGrow
  <2> QED
    <3>1. TaskOK(w)'
      BY <2>3, <2>4, <2>5, <2>6 DEF TaskOK, TaskInv, Busy, At
    <3> QED
      BY <2>5, <3>1, Bystander DEF TaskInv
<1>8. ASSUME NEW w \in Workers, Charge(w) PROVE TaskInv'
  BY <1>8 DEF Charge, At, RowsGrow, TaskInv, TaskOK, Typed,
  TypeOK, TaskRef, MsgRef, Busy, Critical, Task
<1>9. ASSUME NEW w \in Workers, RecordOutcome(w) PROVE TaskInv'
  <2>1. PICK p \in Payments : p = task[w].payment
    BY <1>9 DEF RecordOutcome, At, Typed, TaskRef, Busy
  <2>2. PICK row : row = Recorded(payments[p], task[w].ok)
    OBVIOUS
  <2>3. /\ payments'[p] = row /\ Busy(w) /\ task[w].exc = "none"
        /\ row.status \in {"succeeded", "failed"}
        /\ row.delivered = payments[p].delivered
    <3>1. payments[p] \in Row
      BY DEF Typed, TypeOK
    <3>2. task[w].exc = "none" /\ Busy(w)
      BY <1>9 DEF RecordOutcome, At, Busy, TaskInv, TaskOK
    <3>3. payments'[p] = row
      BY <1>9, <2>1, <2>2 DEF RecordOutcome, Typed, TypeOK
    <3> QED
      BY <2>2, <3>1, <3>2, <3>3 DEF Recorded, Row
  <2>4. /\ AfterRow(p, row) \in {"webhook", "release"}
        /\ Settled(p)'
        /\ AfterRow(p, row) = "release" => Done(p)'
    BY <2>3 DEF AfterRow, NeedsWebhook, Done, Settled
  <2>5. /\ task'[w].pc = AfterRow(p, row) /\ task'[w].payment = p
        /\ task'[w].msg = task[w].msg /\ task'[w].exc = task[w].exc
        /\ \A v \in Workers \ {w} : task'[v] = task[v]
    BY <1>9, <2>1, <2>2 DEF RecordOutcome, Typed, TypeOK, Task
  <2> QED
    <3>1. TaskOK(w)'
      BY <2>3, <2>4, <2>5 DEF TaskOK, TaskInv, Busy, At
    <3> QED
      BY <2>5, <3>1, Bystander DEF TaskInv
<1>10. ASSUME NEW w \in Workers, PostWebhook(w) PROVE TaskInv'
  <2>1. PICK code \in HttpCodes :
          IF Post(code) = "none" THEN Goto(w, "stamp") ELSE Raise(w, Post(code))
    BY <1>10 DEF PostWebhook
  <2>2. Post(code) # "suppressed"
    BY <2>1, PostType, ConsumerConstants DEF Exceptions, HttpErrors
  <2>3. payments' = payments /\ task[w].pc = "webhook"
    BY <1>10 DEF PostWebhook, At
  <2>4. CASE Post(code) = "none"
    BY <2>1, <2>3, <2>4 DEF Goto, RowsGrow, TaskInv, TaskOK, Typed, TypeOK, TaskRef, Busy, At,
       Critical, Task, Done, Settled
  <2>5. CASE Post(code) # "none"
    BY <2>1, <2>2, <2>3, <2>5 DEF Raise, RowsGrow, TaskInv, TaskOK, Typed, TypeOK, TaskRef, Busy,
       At, Critical, Task, Done, Settled
  <2> QED
    BY <2>4, <2>5
<1>11. ASSUME NEW w \in Workers, StampDelivered(w) PROVE TaskInv'
  BY <1>11 DEF StampDelivered, At, Goto, Stamped, Done, Settled,
  RowsGrow, TaskInv, TaskOK, Typed, TypeOK, TaskRef, MsgRef, Busy, Critical,
  Task
<1>12. ASSUME NEW w \in Workers, ReleaseLock(w) PROVE TaskInv'
  BY <1>12 DEF ReleaseLock, At, RowsGrow, TaskInv, TaskOK, Typed,
  TypeOK, TaskRef, MsgRef, Busy, Critical, Task
<1>13. ASSUME NEW w \in Workers, PassThrough(w) PROVE TaskInv'
  BY <1>13 DEF PassThrough, At, Goto, RowsGrow, TaskInv, TaskOK,
  Typed, TypeOK, TaskRef, MsgRef, Busy, Critical, Task
<1>14. ASSUME NEW w \in Workers, Republish(w) PROVE TaskInv'
  BY <1>14 DEF Republish, At, RowsGrow, TaskInv, TaskOK, Typed,
  TypeOK, TaskRef, MsgRef, Busy, Critical, Task
<1>15. ASSUME NEW w \in Workers, Settle(w) PROVE TaskInv'
  BY <1>15 DEF Settle, At, Idle, RowsGrow, TaskInv, TaskOK, Typed,
  TypeOK, TaskRef, MsgRef, Busy, Critical, Task
<1>16. ASSUME NEW w \in Workers, AcquireFails(w) PROVE TaskInv'
  BY <1>16 DEF AcquireFails, At, Fault, RowsGrow, TaskInv, TaskOK,
  Typed, TypeOK, TaskRef, MsgRef, Busy, Critical, Task
<1>17. ASSUME NEW w \in Workers, LoadFails(w) PROVE TaskInv'
  BY <1>17 DEF LoadFails, At, Fault, Raise, RowsGrow, TaskInv,
  TaskOK, Typed, TypeOK, TaskRef, MsgRef, Busy, Critical, Task
<1>18. ASSUME NEW w \in Workers, RecordFails(w) PROVE TaskInv'
  BY <1>18 DEF RecordFails, At, Fault, RowsGrow, TaskInv, TaskOK,
  Typed, TypeOK, TaskRef, MsgRef, Busy, Critical, Task
<1>19. ASSUME NEW w \in Workers, StampFails(w) PROVE TaskInv'
  BY <1>19 DEF StampFails, At, Fault, Raise, RowsGrow, TaskInv,
  TaskOK, Typed, TypeOK, TaskRef, MsgRef, Busy, Critical, Task
<1>20. ASSUME NEW w \in Workers, ReleaseFails(w) PROVE TaskInv'
  BY <1>20 DEF ReleaseFails, At, Fault, RowsGrow, TaskInv, TaskOK,
  Typed, TypeOK, TaskRef, MsgRef, Busy, Critical, Task
<1>21. ASSUME NEW w \in Workers, RepublishFails(w) PROVE TaskInv'
  BY <1>21 DEF RepublishFails, At, Fault, RowsGrow, TaskInv,
  TaskOK, Typed, TypeOK, TaskRef, MsgRef, Busy, Critical, Task
<1>22. ASSUME Crash PROVE TaskInv'
  BY <1>22 DEF Crash, Fault, Idle, RowsGrow, TaskInv, TaskOK,
  Typed, TypeOK, TaskRef, MsgRef, Busy, At, Critical, Task
<1>23. ASSUME Restart PROVE TaskInv'
  BY <1>23 DEF Restart, Idle, RowsGrow, TaskInv, TaskOK, Typed,
  TypeOK, TaskRef, MsgRef, Busy, At, Critical, Task
<1>24. ASSUME ConnectionLost PROVE TaskInv'
  BY <1>24 DEF ConnectionLost, RowsGrow, TaskInv, TaskOK, Typed,
  TaskRef, Busy, At, Done, Settled
<1>25. CASE UNCHANGED vars
  BY <1>25 DEF vars, TaskInv, TaskOK, Busy, At, Done, Settled
<1> QED
  BY <1>1, <1>2, <1>3, <1>4, <1>5, <1>6, <1>7, <1>8, <1>9, <1>10, <1>11,
  <1>12, <1>13, <1>14, <1>15, <1>16, <1>17, <1>18, <1>19, <1>20, <1>21,
  <1>22, <1>23, <1>24, <1>25 DEF Next, TaskStep, CallFails

(* What the broker's operators do, message by message.                     *)
LEMMA RequeueEffect ==
  ASSUME BrokerTypeOK, RequeueUnacked, NEW m \in MsgIds
  PROVE  /\ msgs'[m].payment = msgs[m].payment
         /\ msgs'[m].place = IF msgs[m].place = "unacked" THEN "new" ELSE msgs[m].place
  BY DEF BrokerTypeOK, Message, RequeueUnacked

(* A delivery changes one message's place and holder.                      *)
LEMMA DeliverEffect ==
  ASSUME BrokerTypeOK, NEW m \in MsgIds, NEW w \in Workers, Deliver(m, w)
  PROVE  /\ msgs[m].place = "new"
         /\ msgs'[m].payment = msgs[m].payment
         /\ msgs'[m].place = "unacked"
         /\ msgs'[m].holder = w
         /\ \A n \in MsgIds \ {m} : msgs'[n] = msgs[n]
  BY DEF BrokerTypeOK, Message, Deliver

(* A task settles its own message or none; an ack deletes it, a reject     *)
(* moves it to the DLQ.                                                    *)
LEMMA SettleEffect ==
  ASSUME BrokerTypeOK, NEW w \in Workers, Settle(w), task[w].msg \in MsgIds
  PROVE  LET m == task[w].msg IN
         /\ \A n \in MsgIds \ {m} : msgs'[n] = msgs[n]
         /\ ~Owned(m, w) => msgs'[m] = msgs[m]
         /\ Owned(m, w) /\ task[w].exc \in {"none", "suppressed"} => msgs'[m] = NoMessage
         /\ Owned(m, w) /\ task[w].exc \notin {"none", "suppressed"} =>
              msgs'[m].payment = msgs[m].payment /\ msgs'[m].place = "dlq"
  BY DEF BrokerTypeOK, Message, Settle, Acked, Rejected, Moved, DeadLetterTo

(* Every step keeps DeliveryInv: a delivery belongs to one running task.   *)
LEMMA DeliveryStep == Typed /\ DeliveryInv /\ [Next]_vars => DeliveryInv'
<1> SUFFICES ASSUME Typed, DeliveryInv, [Next]_vars PROVE DeliveryInv'
  OBVIOUS
<1> USE NoneIsFresh
<1>1. ASSUME NEW p \in Payments, PublishPayment(p) PROVE DeliveryInv'
  BY <1>1 DEF PublishPayment, Publish, Stored, NoMessage, DeliveryInv, Busy,
  Typed, TypeOK, BrokerTypeOK, TaskRef, MsgRef, Message, Task
<1>2. ASSUME NEW p \in Payments, LockTtl(p) PROVE DeliveryInv'
  BY <1>2 DEF LockTtl, DeliveryInv, Busy
<1>3. ASSUME NEW m \in MsgIds, RetryTtl(m) PROVE DeliveryInv'
  BY <1>3 DEF RetryTtl, ExpireTtl, Moved, DeadLetterTo, DeliveryInv, Busy,
  Typed, TypeOK, BrokerTypeOK, TaskRef, MsgRef, Message, Task
<1>4. ASSUME NEW m \in MsgIds, NEW w \in Workers, Receive(m, w) PROVE DeliveryInv'
  <2>1. /\ BrokerTypeOK /\ Deliver(m, w) /\ ~Busy(w)
        /\ task'[w].pc = "acquire" /\ task'[w].msg = m
        /\ task'[w].payment = msgs[m].payment
        /\ \A v \in Workers \ {w} : task'[v] = task[v]
    BY <1>4 DEF Receive, Idle, At, Busy, Typed, TypeOK
  <2> QED
    BY <2>1, DeliverEffect DEF DeliveryInv, Busy
<1>5. ASSUME NEW w \in Workers, AcquireLock(w) PROVE DeliveryInv'
  BY <1>5 DEF AcquireLock, At, Goto, DeliveryInv, Busy, Typed, TypeOK,
  BrokerTypeOK, TaskRef, MsgRef, Message, Task
<1>6. ASSUME NEW w \in Workers, LockTimeout(w) PROVE DeliveryInv'
  BY <1>6 DEF LockTimeout, At, DeliveryInv, Busy, Typed, TypeOK,
  BrokerTypeOK, TaskRef, MsgRef, Message, Task
<1>7. ASSUME NEW w \in Workers, Load(w) PROVE DeliveryInv'
  BY <1>7 DEF Load, At, AfterLoad, AfterRow, DeliveryInv, Busy, Typed,
  TypeOK, BrokerTypeOK, TaskRef, MsgRef, Message, Task
<1>8. ASSUME NEW w \in Workers, Charge(w) PROVE DeliveryInv'
  BY <1>8 DEF Charge, At, DeliveryInv, Busy, Typed, TypeOK, BrokerTypeOK,
  TaskRef, MsgRef, Message, Task
<1>9. ASSUME NEW w \in Workers, RecordOutcome(w) PROVE DeliveryInv'
  BY <1>9 DEF RecordOutcome, At, AfterRow, DeliveryInv, Busy, Typed, TypeOK,
  BrokerTypeOK, TaskRef, MsgRef, Message, Task
<1>10. ASSUME NEW w \in Workers, PostWebhook(w) PROVE DeliveryInv'
  BY <1>10 DEF PostWebhook, At, Goto, Raise, DeliveryInv, Busy, Typed,
  TypeOK, BrokerTypeOK, TaskRef, MsgRef, Message, Task
<1>11. ASSUME NEW w \in Workers, StampDelivered(w) PROVE DeliveryInv'
  BY <1>11 DEF StampDelivered, At, Goto, DeliveryInv, Busy, Typed, TypeOK,
  BrokerTypeOK, TaskRef, MsgRef, Message, Task
<1>12. ASSUME NEW w \in Workers, ReleaseLock(w) PROVE DeliveryInv'
  BY <1>12 DEF ReleaseLock, At, DeliveryInv, Busy, Typed, TypeOK,
  BrokerTypeOK, TaskRef, MsgRef, Message, Task
<1>13. ASSUME NEW w \in Workers, PassThrough(w) PROVE DeliveryInv'
  BY <1>13 DEF PassThrough, At, Goto, DeliveryInv, Busy, Typed, TypeOK,
  BrokerTypeOK, TaskRef, MsgRef, Message, Task
<1>14. ASSUME NEW w \in Workers, Republish(w) PROVE DeliveryInv'
  BY <1>14 DEF Republish, At, Publish, Stored, NoMessage, DeliveryInv, Busy,
  Typed, TypeOK, BrokerTypeOK, TaskRef, MsgRef, Message, Task
<1>15. ASSUME NEW w \in Workers, Settle(w) PROVE DeliveryInv'
  <2>1. BrokerTypeOK /\ task[w].msg \in MsgIds
    BY <1>15 DEF Settle, At, Typed, TypeOK, TaskRef, Busy
  <2>2. \A v \in Workers \ {w} : task'[v] = task[v]
    BY <1>15 DEF Settle, Typed, TypeOK
  <2>3. \A m \in MsgIds : msgs'[m].place = "unacked" =>
          msgs'[m] = msgs[m] /\ msgs[m].holder # w
    BY <1>15, <2>1, SettleEffect DEF DeliveryInv, Owned, NoMessage
  <2>4. \A m \in MsgIds : msgs'[m].place # "nowhere" => msgs'[m].payment \in Payments
    BY <1>15, <2>1, SettleEffect DEF DeliveryInv, Owned, NoMessage
  <2> QED
    BY <2>2, <2>3, <2>4 DEF DeliveryInv, Busy
<1>16. ASSUME NEW w \in Workers, AcquireFails(w) PROVE DeliveryInv'
  BY <1>16 DEF AcquireFails, At, Fault, DeliveryInv, Busy, Typed, TypeOK,
  BrokerTypeOK, TaskRef, MsgRef, Message, Task
<1>17. ASSUME NEW w \in Workers, LoadFails(w) PROVE DeliveryInv'
  BY <1>17 DEF LoadFails, At, Fault, Raise, DeliveryInv, Busy, Typed,
  TypeOK, BrokerTypeOK, TaskRef, MsgRef, Message, Task
<1>18. ASSUME NEW w \in Workers, RecordFails(w) PROVE DeliveryInv'
  BY <1>18 DEF RecordFails, At, Fault, DeliveryInv, Busy, Typed, TypeOK,
  BrokerTypeOK, TaskRef, MsgRef, Message, Task
<1>19. ASSUME NEW w \in Workers, StampFails(w) PROVE DeliveryInv'
  BY <1>19 DEF StampFails, At, Fault, Raise, DeliveryInv, Busy, Typed,
  TypeOK, BrokerTypeOK, TaskRef, MsgRef, Message, Task
<1>20. ASSUME NEW w \in Workers, ReleaseFails(w) PROVE DeliveryInv'
  BY <1>20 DEF ReleaseFails, At, Fault, DeliveryInv, Busy, Typed, TypeOK,
  BrokerTypeOK, TaskRef, MsgRef, Message, Task
<1>21. ASSUME NEW w \in Workers, RepublishFails(w) PROVE DeliveryInv'
  BY <1>21 DEF RepublishFails, At, Fault, Publish, Stored, NoMessage,
  DeliveryInv, Busy, Typed, TypeOK, BrokerTypeOK, TaskRef, MsgRef, Message,
  Task
<1>22. ASSUME Crash PROVE DeliveryInv'
  BY <1>22, RequeueEffect DEF Crash, DeliveryInv, Typed, TypeOK
<1>23. ASSUME Restart PROVE DeliveryInv'
  BY <1>23 DEF Restart, At, DeliveryInv, Busy
<1>24. ASSUME ConnectionLost PROVE DeliveryInv'
  BY <1>24, RequeueEffect DEF ConnectionLost, DeliveryInv, Typed, TypeOK
<1>25. CASE UNCHANGED vars
  BY <1>25 DEF vars, DeliveryInv, Busy
<1> QED
  BY <1>1, <1>2, <1>3, <1>4, <1>5, <1>6, <1>7, <1>8, <1>9, <1>10, <1>11,
  <1>12, <1>13, <1>14, <1>15, <1>16, <1>17, <1>18, <1>19, <1>20, <1>21,
  <1>22, <1>23, <1>24, <1>25 DEF Next, TaskStep, CallFails

(* Every step keeps NoSilentLoss: a message goes only when its payment is  *)
(* done or its successor is in the retry queue.                            *)
LEMMA LossStep ==
  Typed /\ TaskInv /\ DeliveryInv /\ NoSilentLoss /\ [Next]_vars => NoSilentLoss'
<1> SUFFICES ASSUME Typed, TaskInv, DeliveryInv, NoSilentLoss, [Next]_vars
             PROVE  NoSilentLoss'
  OBVIOUS
<1> USE NoneIsFresh, ConsumerConstants
<1> RowsGrow
  BY RowsStep
<1>1. ASSUME NEW p \in Payments, PublishPayment(p) PROVE NoSilentLoss'
  BY <1>1 DEF PublishPayment, Publish, Stored, NoMessage, RowsGrow,
  NoSilentLoss, Carrying, Queues, DeliveryInv, TaskInv, TaskOK, Busy, At,
  Typed, TypeOK, BrokerTypeOK, TaskRef, MsgRef, Message, Task
<1>2. ASSUME NEW p \in Payments, LockTtl(p) PROVE NoSilentLoss'
  BY <1>2 DEF LockTtl, RowsGrow, NoSilentLoss, Carrying, Queues,
  DeliveryInv, TaskInv, TaskOK, Busy, At, Typed, TypeOK, BrokerTypeOK,
  TaskRef, MsgRef, Message, Task
<1>3. ASSUME NEW m \in MsgIds, RetryTtl(m) PROVE NoSilentLoss'
  BY <1>3 DEF RetryTtl, ExpireTtl, Moved, DeadLetterTo, RowsGrow,
  NoSilentLoss, Carrying, Queues, DeliveryInv, TaskInv, TaskOK, Busy, At,
  Typed, TypeOK, BrokerTypeOK, TaskRef, MsgRef, Message, Task
<1>4. ASSUME NEW m \in MsgIds, NEW w \in Workers, Receive(m, w) PROVE NoSilentLoss'
  BY <1>4 DEF Receive, Idle, Deliver, RowsGrow, NoSilentLoss, Carrying,
  Queues, DeliveryInv, TaskInv, TaskOK, Busy, At, Typed, TypeOK,
  BrokerTypeOK, TaskRef, MsgRef, Message, Task
<1>5. ASSUME NEW w \in Workers, AcquireLock(w) PROVE NoSilentLoss'
  BY <1>5 DEF AcquireLock, At, Goto, RowsGrow, NoSilentLoss, Carrying,
  Queues, DeliveryInv, TaskInv, TaskOK, Busy, Typed, TypeOK, BrokerTypeOK,
  TaskRef, MsgRef, Message, Task
<1>6. ASSUME NEW w \in Workers, LockTimeout(w) PROVE NoSilentLoss'
  BY <1>6 DEF LockTimeout, At, RowsGrow, NoSilentLoss, Carrying, Queues,
  DeliveryInv, TaskInv, TaskOK, Busy, Typed, TypeOK, BrokerTypeOK, TaskRef,
  MsgRef, Message, Task
<1>7. ASSUME NEW w \in Workers, Load(w) PROVE NoSilentLoss'
  BY <1>7 DEF Load, At, AfterLoad, AfterRow, RowsGrow, NoSilentLoss,
  Carrying, Queues, DeliveryInv, TaskInv, TaskOK, Busy, Typed, TypeOK,
  BrokerTypeOK, TaskRef, MsgRef, Message, Task
<1>8. ASSUME NEW w \in Workers, Charge(w) PROVE NoSilentLoss'
  BY <1>8 DEF Charge, At, RowsGrow, NoSilentLoss, Carrying, Queues,
  DeliveryInv, TaskInv, TaskOK, Busy, Typed, TypeOK, BrokerTypeOK, TaskRef,
  MsgRef, Message, Task
<1>9. ASSUME NEW w \in Workers, RecordOutcome(w) PROVE NoSilentLoss'
  BY <1>9 DEF RecordOutcome, At, AfterRow, RowsGrow, NoSilentLoss, Carrying,
  Queues, DeliveryInv, TaskInv, TaskOK, Busy, Typed, TypeOK, BrokerTypeOK,
  TaskRef, MsgRef, Message, Task
<1>10. ASSUME NEW w \in Workers, PostWebhook(w) PROVE NoSilentLoss'
  <2>1. PICK code \in HttpCodes :
          IF Post(code) = "none" THEN Goto(w, "stamp") ELSE Raise(w, Post(code))
    BY <1>10 DEF PostWebhook
  <2>2. Post(code) # "suppressed"
    BY <2>1, PostType DEF Exceptions, HttpErrors
  <2>3. \A v \in Workers : task'[v].exc = "suppressed" => task[v].exc = "suppressed"
    BY <2>1, <2>2 DEF Goto, Raise, Typed, TypeOK, Task
  <2> QED
    BY <1>10, <2>3 DEF PostWebhook, NoSilentLoss, Carrying, DeliveryInv, Done
<1>11. ASSUME NEW w \in Workers, StampDelivered(w) PROVE NoSilentLoss'
  BY <1>11 DEF StampDelivered, At, Goto, RowsGrow, NoSilentLoss, Carrying,
  Queues, DeliveryInv, TaskInv, TaskOK, Busy, Typed, TypeOK, BrokerTypeOK,
  TaskRef, MsgRef, Message, Task
<1>12. ASSUME NEW w \in Workers, ReleaseLock(w) PROVE NoSilentLoss'
  BY <1>12 DEF ReleaseLock, At, RowsGrow, NoSilentLoss, Carrying, Queues,
  DeliveryInv, TaskInv, TaskOK, Busy, Typed, TypeOK, BrokerTypeOK, TaskRef,
  MsgRef, Message, Task
<1>13. ASSUME NEW w \in Workers, PassThrough(w) PROVE NoSilentLoss'
  BY <1>13 DEF PassThrough, At, Goto, RowsGrow, NoSilentLoss, Carrying,
  Queues, DeliveryInv, TaskInv, TaskOK, Busy, Typed, TypeOK, BrokerTypeOK,
  TaskRef, MsgRef, Message, Task
<1>14. ASSUME NEW w \in Workers, Republish(w) PROVE NoSilentLoss'
  BY <1>14 DEF Republish, At, Publish, Stored, NoMessage, RowsGrow,
  NoSilentLoss, Carrying, Queues, DeliveryInv, TaskInv, TaskOK, Busy, Typed,
  TypeOK, BrokerTypeOK, TaskRef, MsgRef, Message, Task
<1>15. ASSUME NEW w \in Workers, Settle(w) PROVE NoSilentLoss'
  <2>1. /\ BrokerTypeOK /\ task[w].msg \in MsgIds
        /\ task[w].exc = "none" => Done(task[w].payment)
    BY <1>15 DEF Settle, At, Typed, TypeOK, TaskRef, Busy, TaskInv, TaskOK
  <2>2. \A v \in Workers : task'[v].exc = "suppressed" => task[v].exc = "suppressed"
    BY <1>15 DEF Settle, Idle, Typed, TypeOK
  <2>3. ASSUME NEW m \in MsgIds, Carrying(m), ~Done(msgs[m].payment)
        PROVE  Carrying(m)' /\ msgs'[m].payment = msgs[m].payment
    <3>1. CASE m # task[w].msg \/ ~Owned(m, w)
      BY <1>15, <2>1, <2>2, <2>3, <3>1, SettleEffect DEF Carrying, DeliveryInv
    <3>2. CASE m = task[w].msg /\ Owned(m, w)
      BY <1>15, <2>1, <2>3, <3>2, SettleEffect DEF Carrying, DeliveryInv, Owned, Queues
    <3> QED
      BY <3>1, <3>2
  <2> QED
    BY <1>15, <2>3 DEF Settle, NoSilentLoss, RowsGrow
<1>16. ASSUME NEW w \in Workers, AcquireFails(w) PROVE NoSilentLoss'
  BY <1>16 DEF AcquireFails, At, Fault, RowsGrow, NoSilentLoss, Carrying,
  Queues, DeliveryInv, TaskInv, TaskOK, Busy, Typed, TypeOK, BrokerTypeOK,
  TaskRef, MsgRef, Message, Task
<1>17. ASSUME NEW w \in Workers, LoadFails(w) PROVE NoSilentLoss'
  BY <1>17 DEF LoadFails, At, Fault, Raise, RowsGrow, NoSilentLoss,
  Carrying, Queues, DeliveryInv, TaskInv, TaskOK, Busy, Typed, TypeOK,
  BrokerTypeOK, TaskRef, MsgRef, Message, Task
<1>18. ASSUME NEW w \in Workers, RecordFails(w) PROVE NoSilentLoss'
  BY <1>18 DEF RecordFails, At, Fault, RowsGrow, NoSilentLoss, Carrying,
  Queues, DeliveryInv, TaskInv, TaskOK, Busy, Typed, TypeOK, BrokerTypeOK,
  TaskRef, MsgRef, Message, Task
<1>19. ASSUME NEW w \in Workers, StampFails(w) PROVE NoSilentLoss'
  BY <1>19 DEF StampFails, At, Fault, Raise, RowsGrow, NoSilentLoss,
  Carrying, Queues, DeliveryInv, TaskInv, TaskOK, Busy, Typed, TypeOK,
  BrokerTypeOK, TaskRef, MsgRef, Message, Task
<1>20. ASSUME NEW w \in Workers, ReleaseFails(w) PROVE NoSilentLoss'
  BY <1>20 DEF ReleaseFails, At, Fault, RowsGrow, NoSilentLoss, Carrying,
  Queues, DeliveryInv, TaskInv, TaskOK, Busy, Typed, TypeOK, BrokerTypeOK,
  TaskRef, MsgRef, Message, Task
<1>21. ASSUME NEW w \in Workers, RepublishFails(w) PROVE NoSilentLoss'
  BY <1>21 DEF RepublishFails, At, Fault, Publish, Stored, NoMessage,
  RowsGrow, NoSilentLoss, Carrying, Queues, DeliveryInv, TaskInv, TaskOK,
  Busy, Typed, TypeOK, BrokerTypeOK, TaskRef, MsgRef, Message, Task
<1>22. ASSUME Crash PROVE NoSilentLoss'
  <2>1. ASSUME NEW m \in MsgIds, Carrying(m)
        PROVE  Carrying(m)' /\ msgs'[m].payment = msgs[m].payment
    BY <1>22, <2>1, RequeueEffect DEF Crash, Carrying, Queues, Typed, TypeOK
  <2> QED
    BY <1>22, <2>1 DEF Crash, NoSilentLoss, RowsGrow
<1>23. ASSUME Restart PROVE NoSilentLoss'
  BY <1>23 DEF Restart, Idle, RowsGrow, NoSilentLoss, Carrying, Queues,
  DeliveryInv, TaskInv, TaskOK, Busy, At, Typed, TypeOK, BrokerTypeOK,
  TaskRef, MsgRef, Message, Task
<1>24. ASSUME ConnectionLost PROVE NoSilentLoss'
  <2>1. ASSUME NEW m \in MsgIds, Carrying(m)
        PROVE  Carrying(m)' /\ msgs'[m].payment = msgs[m].payment
    BY <1>24, <2>1, RequeueEffect DEF ConnectionLost, Carrying, Queues, Typed, TypeOK
  <2> QED
    BY <1>24, <2>1 DEF ConnectionLost, NoSilentLoss, RowsGrow
<1>25. CASE UNCHANGED vars
  BY <1>25 DEF vars, NoSilentLoss, Done, Carrying
<1> QED
  BY <1>1, <1>2, <1>3, <1>4, <1>5, <1>6, <1>7, <1>8, <1>9, <1>10, <1>11,
  <1>12, <1>13, <1>14, <1>15, <1>16, <1>17, <1>18, <1>19, <1>20, <1>21,
  <1>22, <1>23, <1>24, <1>25 DEF Next, TaskStep, CallFails

(* A published payment is done, or some message still carries it: whatever *)
(* fails, in every interleaving, and even when locks expire under tasks.   *)
THEOREM NothingForgotten == Spec => []NoSilentLoss
<1> DEFINE SafeInv == Typed /\ TaskInv /\ DeliveryInv /\ NoSilentLoss
<1>1. Init => SafeInv
  <2> SUFFICES ASSUME Init PROVE SafeInv
    OBVIOUS
  <2>1. TaskInv
    BY DEF Init, TaskInv, TaskOK, Idle, Busy, At
  <2>2. DeliveryInv /\ NoSilentLoss
    BY DEF Init, BrokerInit, NoMessage, DeliveryInv, NoSilentLoss
  <2> QED
    BY <2>1, <2>2, TypedInit
<1>2. SafeInv /\ [Next]_vars => SafeInv'
  BY TypedStep, TaskInvStep, DeliveryStep, LossStep
<1>3. SafeInv => NoSilentLoss
  OBVIOUS
<1> QED
  BY <1>1, <1>2, <1>3, PTL DEF Spec

-----------------------------------------------------------------------------
(***************************************************************************)
(* What the Redis lock buys: the outcome of a payment is final, webhooks   *)
(* report it truthfully, and every charge is accounted for, until the lock *)
(* expires under a task.                                                   *)
(***************************************************************************)
Reading == {"charge", "record", "webhook", "stamp"}

TimelyInv == Typed /\ TaskInv /\ LockInv /\ OutcomeInv

(* A step that neither touches what the handler's body is about nor moves  *)
(* a task into, out of or inside that part of the body.                    *)
Quiet ==
  /\ UNCHANGED <<payments, charges, lost, reported>>
  /\ \A p \in Payments : overtaken'[p] >= overtaken[p]
  /\ \A w \in Workers :
       task[w].pc \in Reading \/ task'[w].pc \in Reading => task'[w] = task[w]

Loud ==
  \/ \E w \in Workers :
       \/ Load(w) \/ Charge(w) \/ RecordOutcome(w) \/ PostWebhook(w)
       \/ StampDelivered(w) \/ RecordFails(w) \/ StampFails(w)
  \/ Crash

(* All but eight actions are quiet.                                        *)
LEMMA QuietOrLoud == Typed /\ [Next]_vars => Quiet \/ Loud
<1> SUFFICES ASSUME Typed, [Next]_vars, ~Loud PROVE Quiet
  OBVIOUS
<1> USE DEF Quiet, Reading, At, Goto, Raise, history, Idle
<1> task \in [Workers -> Task] /\ overtaken \in [Payments -> Nat]
  BY DEF Typed, TypeOK
<1> USE DEF Task
<1>1. ASSUME NEW p \in Payments, PublishPayment(p) \/ LockTtl(p) PROVE Quiet
  BY <1>1 DEF PublishPayment, LockTtl
<1>2. ASSUME NEW m \in MsgIds, RetryTtl(m) PROVE Quiet
  BY <1>2 DEF RetryTtl
<1>3. ASSUME NEW m \in MsgIds, NEW w \in Workers, Receive(m, w) PROVE Quiet
  BY <1>3 DEF Receive
<1>4. ASSUME NEW w \in Workers, AcquireLock(w) \/ LockTimeout(w) PROVE Quiet
  BY <1>4 DEF AcquireLock, LockTimeout
<1>5. ASSUME NEW w \in Workers, ReleaseLock(w) \/ ReleaseFails(w) PROVE Quiet
  BY <1>5 DEF ReleaseLock, ReleaseFails, Fault
<1>6. ASSUME NEW w \in Workers, PassThrough(w) PROVE Quiet
  BY <1>6 DEF PassThrough
<1>7. ASSUME NEW w \in Workers, Republish(w) \/ RepublishFails(w) PROVE Quiet
  BY <1>7 DEF Republish, RepublishFails, Fault
<1>8. ASSUME NEW w \in Workers, Settle(w) PROVE Quiet
  BY <1>8 DEF Settle
<1>9. ASSUME NEW w \in Workers, AcquireFails(w) \/ LoadFails(w) PROVE Quiet
  BY <1>9 DEF AcquireFails, LoadFails, Fault
<1>10. ASSUME Restart PROVE Quiet
  BY <1>10 DEF Restart
<1>11. ASSUME ConnectionLost \/ UNCHANGED vars PROVE Quiet
  BY <1>11 DEF ConnectionLost, vars
<1> QED
  BY <1>1, <1>2, <1>3, <1>4, <1>5, <1>6, <1>7, <1>8, <1>9, <1>10, <1>11
  DEF Next, TaskStep, CallFails, Loud

-----------------------------------------------------------------------------
(* A step of the task w inside the body: it changes nothing but w and the  *)
(* row and the reports of the payment p that w works on.                   *)
Local(w, p) ==
  /\ task[w].pc \in Critical
  /\ task[w].payment = p
  /\ \A v \in Workers \ {w} : task'[v] = task[v]
  /\ task'[w].payment = p
  /\ overtaken' = overtaken
  /\ \A q \in Payments \ {p} : payments'[q] = payments[q] /\ reported'[q] = reported[q]

(* The loud actions of a task are local.                                   *)
LEMMA LocalLoud ==
  ASSUME Typed, NEW w \in Workers, NEW p \in Payments, p = task[w].payment,
         \/ Load(w) \/ Charge(w) \/ RecordOutcome(w) \/ PostWebhook(w)
         \/ StampDelivered(w) \/ RecordFails(w) \/ StampFails(w)
  PROVE  Local(w, p)
<1> USE DEF At, Local, Task
<1>1. /\ task \in [Workers -> Task]
      /\ payments \in [Payments -> Row]
      /\ reported \in [Payments -> SUBSET Statuses]
  BY DEF Typed, TypeOK
<1>2. task[w].pc \in Critical
  BY DEF Load, Charge, RecordOutcome, PostWebhook, StampDelivered, RecordFails,
  StampFails, Critical
<1>3. CASE Load(w)
  BY <1>1, <1>2, <1>3 DEF Load, history
<1>4. CASE Charge(w)
  <2>1. PICK ok \in BOOLEAN : task' = [task EXCEPT ![w].pc = "record", ![w].ok = ok]
    BY <1>4 DEF Charge
  <2> QED
    BY <1>1, <1>2, <1>4, <2>1 DEF Charge
<1>5. CASE RecordOutcome(w)
  BY <1>1, <1>2, <1>5 DEF RecordOutcome, history
<1>6. CASE PostWebhook(w)
  BY <1>1, <1>2, <1>6 DEF PostWebhook, Goto, Raise
<1>7. CASE StampDelivered(w)
  BY <1>1, <1>2, <1>7 DEF StampDelivered, Goto, history
<1>8. CASE RecordFails(w)
  BY <1>1, <1>2, <1>8 DEF RecordFails
<1>9. CASE StampFails(w)
  BY <1>1, <1>2, <1>9 DEF StampFails, Raise, history
<1> QED
  BY <1>3, <1>4, <1>5, <1>6, <1>7, <1>8, <1>9

(* The lock makes it enough to look at that task and that payment.         *)
LEMMA LocalStep ==
  ASSUME TimelyInv, NEW w \in Workers, NEW p \in Payments, Local(w, p),
         InTime(p) => ReadOK(w)' /\ ReportedOK(p)'
  PROVE  OutcomeInv'
<1>1. ASSUME NEW v \in Workers, v # w, task'[v].pc \in Critical, InTime(task[v].payment)'
      PROVE  ReadOK(v)'
  <2>1. /\ task'[v] = task[v] /\ task[v].pc \in Critical
        /\ task[v].payment \in Payments /\ InTime(task[v].payment)
    BY <1>1 DEF Local, InTime, TimelyInv, Typed, TaskRef, Busy, Critical
  <2>2. ReadOK(v)
    BY <2>1 DEF TimelyInv, OutcomeInv
  <2>3. task[v].payment # p
    BY <1>1, <2>1, HasLock DEF Local, TimelyInv
  <2> QED
    BY <2>1, <2>2, <2>3 DEF Local, ReadOK, At
<1>2. ASSUME NEW q \in Payments, q # p, InTime(q)' PROVE ReportedOK(q)'
  BY <1>2 DEF Local, InTime, TimelyInv, OutcomeInv, ReportedOK
<1>3. ASSUME InTime(p)' PROVE ReadOK(w)' /\ ReportedOK(p)'
  BY <1>3 DEF Local, InTime
<1>4. ASSUME NEW v \in Workers, task'[v].pc \in Critical, InTime(task[v].payment)'
      PROVE  ReadOK(v)'
  BY <1>1, <1>3, <1>4 DEF Local
<1> QED
  BY <1>2, <1>3, <1>4 DEF OutcomeInv

(* A POST that ends well has reached the receiver.                         *)
LEMMA PostArrived ==
  \A code \in Nat : Post(code) = "none" => MayHaveArrived(code) = {TRUE}
  BY DEF Post, MayHaveArrived, NetworkError, InvalidUrl, RaiseForStatus

(* Every step keeps OutcomeInv.                                            *)
LEMMA OutcomeStep ==
  TimelyInv /\ [Next]_vars => OutcomeInv'
<1> SUFFICES ASSUME TimelyInv, [Next]_vars PROVE OutcomeInv'
  OBVIOUS
<1> USE DEF At
<1>0. /\ task \in [Workers -> Task]
      /\ payments \in [Payments -> Row]
      /\ reported \in [Payments -> SUBSET Statuses]
  BY DEF TimelyInv, Typed, TypeOK
<1>1. ASSUME Quiet PROVE OutcomeInv'
  <2>1. ASSUME NEW p \in Payments, InTime(p)' PROVE InTime(p)
    BY <1>1, <2>1 DEF Quiet, InTime, TimelyInv, Typed, TypeOK
  <2>2. ASSUME NEW w \in Workers, task'[w].pc \in Critical, InTime(task[w].payment)'
        PROVE  ReadOK(w)'
    <3>1. CASE task'[w].pc \in Reading
      <4>1. task'[w] = task[w] /\ task[w].pc \in Critical /\ task[w].payment \in Payments
        BY <1>1, <2>2, <3>1
        DEF Quiet, Reading, Critical, TimelyInv, Typed, TaskRef, Busy
      <4>2. ReadOK(w)
        BY <2>1, <2>2, <4>1 DEF TimelyInv, OutcomeInv
      <4> QED
        BY <1>1, <4>1, <4>2 DEF Quiet, ReadOK
    <3>2. CASE task'[w].pc \notin Reading
      BY <3>2 DEF ReadOK, Reading
    <3> QED
      BY <3>1, <3>2
  <2>3. ASSUME NEW p \in Payments, InTime(p)' PROVE ReportedOK(p)'
    BY <1>1, <2>1, <2>3 DEF Quiet, TimelyInv, OutcomeInv, ReportedOK
  <2> QED
    BY <2>2, <2>3 DEF OutcomeInv
<1>2. ASSUME Crash PROVE OutcomeInv'
  BY <1>2 DEF Crash, Idle, InTime, Critical, TimelyInv, OutcomeInv, ReadOK, ReportedOK
<1>3. ASSUME NEW w \in Workers,
             \/ Load(w) \/ Charge(w) \/ RecordOutcome(w) \/ PostWebhook(w)
             \/ StampDelivered(w) \/ RecordFails(w) \/ StampFails(w)
      PROVE  OutcomeInv'
  <2>1. task[w].pc \in Critical
    BY <1>3 DEF Load, Charge, RecordOutcome, PostWebhook, StampDelivered,
    RecordFails, StampFails, Critical
  <2>2. PICK p \in Payments : p = task[w].payment
    BY <2>1 DEF Critical, TimelyInv, Typed, TaskRef, Busy
  <2>4. Local(w, p)
    BY <1>3, <2>2, LocalLoud DEF TimelyInv
  <2>5. ASSUME InTime(p) PROVE ReadOK(w)' /\ ReportedOK(p)'
    <3>0. ReadOK(w) /\ ReportedOK(p) /\ TaskOK(w)
      BY <2>1, <2>2, <2>5 DEF TimelyInv, OutcomeInv, TaskInv
    <3>1. CASE Load(w)
      BY <1>0, <2>2, <3>0, <3>1 DEF Load, AfterLoad, AfterRow, NeedsWebhook,
      ReadOK, ReportedOK, history, Task
    <3>2. CASE Charge(w)
      BY <1>0, <2>2, <3>0, <3>2 DEF Charge, ReadOK, ReportedOK, Task
    <3>3. CASE RecordOutcome(w)
      BY <1>0, <2>2, <3>0, <3>3 DEF RecordOutcome, Recorded, AfterRow,
      NeedsWebhook, ReadOK, ReportedOK, history, Task, Row
    <3>4. CASE PostWebhook(w)
      <4>1. PICK code \in HttpCodes, arrived \in BOOLEAN :
              /\ arrived \in MayHaveArrived(code)
              /\ IF Post(code) = "none" THEN Goto(w, "stamp") ELSE Raise(w, Post(code))
              /\ reported' = IF arrived
                   THEN [reported EXCEPT ![p] = @ \cup {task[w].row.status}]
                   ELSE reported
        BY <2>2, <3>4 DEF PostWebhook, MayHaveArrived
      <4>2. /\ task[w].row.status = payments[p].status
            /\ payments[p].status \in {"succeeded", "failed"}
            /\ payments' = payments
        BY <2>2, <3>0, <3>4 DEF PostWebhook, ReadOK, TaskOK, Settled
      <4>3. /\ task'[w].pc \in {"stamp", "release"}
            /\ task'[w].pc = "stamp" => Post(code) = "none"
            /\ task'[w].payment = p /\ task'[w].row = task[w].row
        BY <1>0, <2>2, <4>1 DEF Goto, Raise, Task
      <4>4. Post(code) = "none" => arrived
        BY <4>1, PostArrived, ConsumerConstants
      <4>5. reported'[p] = IF arrived THEN reported[p] \cup {payments[p].status} ELSE reported[p]
        BY <1>0, <4>1, <4>2
      <4> QED
        BY <3>0, <4>2, <4>3, <4>4, <4>5 DEF ReadOK, ReportedOK
    <3>5. CASE StampDelivered(w)
      BY <1>0, <2>2, <3>0, <3>5 DEF StampDelivered, Goto, Stamped, ReadOK,
      ReportedOK, history, Task, Row
    <3>6. CASE RecordFails(w)
      BY <1>0, <2>2, <3>0, <3>6 DEF RecordFails, Recorded, ReadOK, ReportedOK,
      Task, Row
    <3>7. CASE StampFails(w)
      BY <1>0, <2>2, <3>0, <3>7 DEF StampFails, Raise, Stamped, ReadOK,
      ReportedOK, history, Task, Row
    <3> QED
      BY <1>3, <3>1, <3>2, <3>3, <3>4, <3>5, <3>6, <3>7
  <2> QED
    BY <2>4, <2>5, LocalStep
<1> QED
  BY <1>1, <1>2, <1>3, QuietOrLoud DEF TimelyInv, Loud

(* OutcomeInv together with what it rests on is an invariant.              *)
LEMMA Timely == Spec => []TimelyInv
<1>1. Init => TimelyInv
  <2> SUFFICES ASSUME Init PROVE TimelyInv
    OBVIOUS
  <2>1. TaskInv /\ LockInv
    BY LockStart DEF Init, TaskInv, TaskOK, Idle, Busy, At
  <2>2. OutcomeInv
    BY DEF Init, OutcomeInv, ReadOK, ReportedOK, Idle, At, NoRow
  <2> QED
    BY <2>1, <2>2, TypedInit DEF TimelyInv
<1>2. TimelyInv /\ [Next]_vars => TimelyInv'
  BY TypedStep, TaskInvStep, LockStep, OutcomeStep DEF TimelyInv
<1> QED
  BY <1>1, <1>2, PTL DEF Spec

(* Until the lock expires under a task, a receiver is told nothing but the *)
(* recorded outcome, and a payment marked delivered has had it delivered.  *)
THEOREM TruthfulWebhooks == Spec => []WebhookTruthful
<1>1. TimelyInv => WebhookTruthful
  BY DEF TimelyInv, OutcomeInv, ReportedOK, WebhookTruthful
<1> QED
  BY <1>1, Timely, PTL

-----------------------------------------------------------------------------
(* What a step does to the statuses.                                       *)
FinalNow ==
  \A p \in Payments :
    InTime(p) /\ payments[p].status # "pending" =>
      payments'[p].status = payments[p].status

(* Only RecordOutcome and RecordFails write a status, and under the lock   *)
(* they find the pending one that was loaded.                              *)
LEMMA FinalStep == TimelyInv /\ [Next]_vars => FinalNow
<1> SUFFICES ASSUME TimelyInv, [Next]_vars PROVE FinalNow
  OBVIOUS
<1> USE DEF FinalNow
<1>1. /\ payments \in [Payments -> Row]
      /\ \A w \in Workers : task[w].pc \in Critical /\ InTime(task[w].payment) => ReadOK(w)
  BY DEF TimelyInv, Typed, TypeOK, OutcomeInv
<1>2. ASSUME Quiet \/ Crash PROVE FinalNow
  BY <1>2 DEF Quiet, Crash
<1>3. ASSUME NEW w \in Workers, Load(w) \/ Charge(w) \/ PostWebhook(w) PROVE FinalNow
  BY <1>3 DEF Load, Charge, PostWebhook
<1>4. ASSUME NEW w \in Workers, RecordOutcome(w) \/ RecordFails(w) PROVE FinalNow
  BY <1>1, <1>4 DEF RecordOutcome, RecordFails, ReadOK, At, Critical
<1>5. ASSUME NEW w \in Workers, StampDelivered(w) \/ StampFails(w) PROVE FinalNow
  BY <1>1, <1>5 DEF StampDelivered, StampFails, Stamped, Row
<1> QED
  BY <1>2, <1>3, <1>4, <1>5, QuietOrLoud DEF TimelyInv, Loud

(* An outcome is not overwritten before the lock expires under a task.     *)
THEOREM OutcomesFinal == Spec => StatusFinal
<1>1. TimelyInv /\ [Next]_vars => [FinalNow]_vars
  BY FinalStep
<1> QED
  BY <1>1, Timely, PTL DEF Spec, StatusFinal, FinalNow

-----------------------------------------------------------------------------
(* What a task or a row contributes to the account of a payment.           *)
Unsaved(w) == IF At(w, "record") /\ task[w].ok THEN 1 ELSE 0
Booked(p) == IF payments[p].status = "succeeded" THEN 1 ELSE 0

Account ==
  \A p \in Payments :
    InTime(p) => charges[p] = lost[p] + Cardinality(Unrecorded(p)) + Booked(p)

(* The lock leaves room for one unrecorded charge per payment, before and  *)
(* after a step of the task that has it.                                   *)
LEMMA OneUnrecorded ==
  ASSUME TimelyInv, NEW w \in Workers, NEW p \in Payments, Local(w, p), InTime(p)
  PROVE  /\ Cardinality(Unrecorded(p)) = Unsaved(w)
         /\ Cardinality(Unrecorded(p)') = Unsaved(w)'
<1>1. \A v \in Workers \ {w} : task[v].pc = "record" => task[v].payment # p
  BY HasLock DEF TimelyInv, Local, Critical
<1>2. Unrecorded(p) = IF At(w, "record") /\ task[w].ok THEN {w} ELSE {}
  BY <1>1 DEF Unrecorded, Local, At
<1>3. Unrecorded(p)' = IF task'[w].pc = "record" /\ task'[w].ok THEN {w} ELSE {}
  BY <1>1 DEF Unrecorded, Local
<1> QED
  BY <1>2, <1>3, FS_EmptySet, FS_Singleton DEF Unsaved, At

(* So it is enough to balance the account of the payment worked on.        *)
LEMMA LocalAccount ==
  ASSUME TimelyInv, Account,
         NEW w \in Workers, NEW p \in Payments, Local(w, p),
         \A q \in Payments \ {p} : charges'[q] = charges[q] /\ lost'[q] = lost[q],
         InTime(p) /\ charges[p] = lost[p] + Unsaved(w) + Booked(p) =>
           charges'[p] = lost'[p] + Unsaved(w)' + Booked(p)'
  PROVE  Account'
<1> SUFFICES ASSUME NEW q \in Payments, InTime(q)'
             PROVE  charges'[q] = lost'[q] + Cardinality(Unrecorded(q)') + Booked(q)'
  BY DEF Account
<1>1. InTime(q)
  BY DEF Local, InTime
<1>2. CASE q # p
  <2>1. Unrecorded(q)' = Unrecorded(q)
    BY <1>2 DEF Unrecorded, Local
  <2> QED
    BY <1>1, <1>2, <2>1 DEF Local, Account, Booked
<1>3. CASE q = p
  BY <1>1, <1>3, OneUnrecorded DEF Account
<1> QED
  BY <1>2, <1>3

(* Every step keeps the accounts balanced.                                 *)
LEMMA AccountStep ==
  TimelyInv /\ Account /\ [Next]_vars => Account'
<1> SUFFICES ASSUME TimelyInv, Account, [Next]_vars PROVE Account'
  OBVIOUS
<1>0. /\ task \in [Workers -> Task]
      /\ payments \in [Payments -> Row]
      /\ charges \in [Payments -> Nat]
      /\ lost \in [Payments -> Nat]
      /\ overtaken \in [Payments -> Nat]
  BY DEF TimelyInv, Typed, TypeOK
<1>1. ASSUME Quiet PROVE Account'
  <2>1. \A p \in Payments : Unrecorded(p)' = Unrecorded(p) /\ (InTime(p)' => InTime(p))
    BY <1>0, <1>1 DEF Quiet, Reading, Unrecorded, InTime
  <2> QED
    BY <1>1, <2>1 DEF Quiet, Account, Booked
<1>2. ASSUME Crash PROVE Account'
  <2>1. \A p \in Payments : Unrecorded(p)' = {}
    BY <1>2 DEF Crash, Unrecorded, Idle
  <2>2. \A p \in Payments : Cardinality(Unrecorded(p)) \in Nat
    BY FS_Subset, FS_CardinalityType, ConsumerConstants DEF Unrecorded
  <2>3. ASSUME NEW p \in Payments
        PROVE  /\ charges'[p] = charges[p] /\ payments'[p] = payments[p]
               /\ lost'[p] = lost[p] + Cardinality(Unrecorded(p))
               /\ InTime(p)' => InTime(p)
    BY <1>2 DEF Crash, InTime
  <2>4. \A p \in Payments : Cardinality(Unrecorded(p)') = 0
    BY <2>1, FS_EmptySet
  <2> QED
    BY <1>0, <2>2, <2>3, <2>4 DEF Account, Booked
<1>3. ASSUME NEW w \in Workers,
             \/ Load(w) \/ Charge(w) \/ RecordOutcome(w) \/ PostWebhook(w)
             \/ StampDelivered(w) \/ RecordFails(w) \/ StampFails(w)
      PROVE  Account'
  <2>1. PICK p \in Payments : p = task[w].payment
    BY <1>3 DEF Load, Charge, RecordOutcome, PostWebhook, StampDelivered,
    RecordFails, StampFails, At, TimelyInv, Typed, TaskRef, Busy
  <2>2. Local(w, p)
    BY <1>3, <2>1, LocalLoud DEF TimelyInv
  <2>3. InTime(p) => ReadOK(w)
    BY <2>1, <2>2 DEF Local, TimelyInv, OutcomeInv
  <2>4. /\ \A q \in Payments \ {p} : charges'[q] = charges[q] /\ lost'[q] = lost[q]
        /\ InTime(p) /\ charges[p] = lost[p] + Unsaved(w) + Booked(p) =>
             charges'[p] = lost'[p] + Unsaved(w)' + Booked(p)'
    <3> USE <1>0, <2>1, <2>3 DEF Unsaved, Booked, At, Task
    <3>1. CASE Load(w)
      BY <3>1 DEF Load, AfterLoad, AfterRow, history
    <3>2. CASE Charge(w)
      BY <3>2 DEF Charge, ReadOK
    <3>3. CASE RecordOutcome(w)
      BY <3>3 DEF RecordOutcome, Recorded, ReadOK, AfterRow, history, Row
    <3>4. CASE PostWebhook(w)
      BY <3>4 DEF PostWebhook, Goto, Raise
    <3>5. CASE StampDelivered(w)
      BY <3>5 DEF StampDelivered, Goto, Stamped, history, Row
    <3>6. CASE RecordFails(w)
      BY <3>6 DEF RecordFails, Recorded, ReadOK, Row
    <3>7. CASE StampFails(w)
      BY <3>7 DEF StampFails, Raise, Stamped, history, Row
    <3> QED
      BY <1>3, <3>1, <3>2, <3>3, <3>4, <3>5, <3>6, <3>7
  <2> QED
    BY <2>2, <2>4, LocalAccount
<1> QED
  BY <1>1, <1>2, <1>3, QuietOrLoud DEF TimelyInv, Loud

-----------------------------------------------------------------------------
(***************************************************************************)
(* What is left when the lock expires: one charge for each time it does.   *)
(***************************************************************************)
(* Those that may charge, or record a charge, are at most one more than    *)
(* those that the lock has expired under.                                  *)
LEMMA Crowd ==
  ASSUME Typed, LockInv, NEW p \in Payments
  PROVE  /\ IsFiniteSet(Unrecorded(p)) /\ Cardinality(Unrecorded(p)) \in Nat
         /\ IsFiniteSet(Charging(p)) /\ Cardinality(Charging(p)) \in Nat
         /\ Cardinality(Unrecorded(p)) + Cardinality(Charging(p)) <= 1 + overtaken[p]
<1>1. /\ IsFiniteSet(Unrecorded(p)) /\ Cardinality(Unrecorded(p)) \in Nat
      /\ IsFiniteSet(Charging(p)) /\ Cardinality(Charging(p)) \in Nat
  BY UnrecordedType, FS_Subset, FS_CardinalityType, ConsumerConstants DEF Charging
<1>2. Unrecorded(p) \cap Charging(p) = {}
  BY DEF Unrecorded, Charging, At
<1>3. Cardinality(Unrecorded(p) \cup Charging(p)) =
        Cardinality(Unrecorded(p)) + Cardinality(Charging(p))
  <2>1. Cardinality(Unrecorded(p) \cap Charging(p)) = 0
    BY <1>2, FS_EmptySet
  <2>2. Cardinality(Unrecorded(p) \cup Charging(p)) =
          Cardinality(Unrecorded(p)) + Cardinality(Charging(p))
            - Cardinality(Unrecorded(p) \cap Charging(p))
    BY <1>1, FS_Union
  <2> QED
    BY <1>1, <2>1, <2>2
<1>4. Unrecorded(p) \cup Charging(p) \subseteq Late(p) \cup {lock[p]}
  BY DEF Unrecorded, Charging, Late, At, Critical
<1>5. /\ IsFiniteSet(Late(p) \cup {lock[p]})
      /\ Cardinality(Late(p) \cup {lock[p]}) \in Nat
      /\ Cardinality(Late(p) \cup {lock[p]}) <= Cardinality(Late(p)) + 1
      /\ Cardinality(Late(p)) \in Nat
  BY LateType, OneMore
<1>6. Cardinality(Unrecorded(p) \cup Charging(p)) <= Cardinality(Late(p) \cup {lock[p]})
  BY <1>4, <1>5, FS_Subset
<1>7. Cardinality(Late(p)) <= overtaken[p] /\ overtaken[p] \in Nat
  BY DEF LockInv, Typed, TypeOK
<1> QED
  BY <1>1, <1>3, <1>5, <1>6, <1>7

(* What ChargeInv says of one payment.                                     *)
ChargeOK(p) ==
  IF Settled(p)
    THEN charges[p] + Cardinality(Charging(p)) <= 1 + lost[p] + overtaken[p]
    ELSE charges[p] = lost[p] + Cardinality(Unrecorded(p))

(* The step of a task inside the body, for its own payment.                *)
LEMMA LocalCharge ==
  ASSUME Typed, LockInv, NEW w \in Workers, NEW p \in Payments, p = task[w].payment,
         ChargeOK(p),
         \/ Load(w) \/ Charge(w) \/ RecordOutcome(w) \/ PostWebhook(w)
         \/ StampDelivered(w) \/ RecordFails(w) \/ StampFails(w)
  PROVE  ChargeOK(p)'
<1>1. /\ task \in [Workers -> Task] /\ payments \in [Payments -> Row]
      /\ charges[p] \in Nat /\ lost[p] \in Nat /\ overtaken[p] \in Nat
      /\ charges \in [Payments -> Nat] /\ lost \in [Payments -> Nat]
  BY DEF Typed, TypeOK
<1>2. /\ \A v \in Workers \ {w} : task'[v] = task[v]
      /\ task'[w].payment = p /\ overtaken' = overtaken
  BY LocalLoud DEF Local
<1>3. /\ IsFiniteSet(Unrecorded(p)) /\ Cardinality(Unrecorded(p)) \in Nat
      /\ IsFiniteSet(Charging(p)) /\ Cardinality(Charging(p)) \in Nat
      /\ Cardinality(Unrecorded(p)) + Cardinality(Charging(p)) <= 1 + overtaken[p]
  BY Crowd
<1>4. ASSUME Cardinality(Charging(p)') <= Cardinality(Charging(p)), Cardinality(Charging(p)') \in Nat,
             charges' = charges, lost' = lost, Settled(p)'
      PROVE  ChargeOK(p)'
  BY <1>1, <1>2, <1>3, <1>4 DEF ChargeOK
<1>5. ASSUME w \in Charging(p), Charging(p)' = Charging(p) \ {w}
      PROVE  Cardinality(Charging(p)') = Cardinality(Charging(p)) - 1
  BY <1>3, <1>5, FS_RemoveElement
<1>6. CASE Load(w)
  <2>1. UNCHANGED <<payments, charges, lost>> /\ task'[w].pc = AfterLoad(p, payments[p])
        /\ task[w].pc = "load"
    BY <1>1, <1>6 DEF Load, At, Task, history
  <2>2. Unrecorded(p)' = Unrecorded(p)
    BY <1>2, <2>1 DEF Unrecorded, AfterLoad, AfterRow
  <2>3. Settled(p) => Charging(p)' = Charging(p)
    BY <1>2, <2>1 DEF Charging, At, AfterLoad, AfterRow, Settled
  <2> QED
    BY <1>2, <2>1, <2>2, <2>3 DEF ChargeOK, Settled
<1>7. CASE Charge(w)
  <2>1. PICK ok \in BOOLEAN :
          /\ task' = [task EXCEPT ![w].pc = "record", ![w].ok = ok]
          /\ charges'[p] = IF ok THEN charges[p] + 1 ELSE charges[p]
    BY <1>1, <1>7 DEF Charge
  <2>2. task[w].pc = "charge" /\ task'[w].pc = "record" /\ task'[w].ok = ok
        /\ UNCHANGED <<payments, lost>>
    BY <1>1, <1>7, <2>1 DEF Charge, At, Task
  <2>3. w \in Charging(p) /\ Charging(p)' = Charging(p) \ {w} /\ w \notin Unrecorded(p)
    BY <1>2, <2>2 DEF Charging, At, Unrecorded
  <2>4. Unrecorded(p)' = IF ok THEN Unrecorded(p) \cup {w} ELSE Unrecorded(p)
    BY <1>2, <2>2 DEF Unrecorded
  <2>5. ok => Cardinality(Unrecorded(p)') = Cardinality(Unrecorded(p)) + 1
    BY <1>3, <2>3, <2>4, FS_AddElement
  <2>6. Cardinality(Charging(p)') = Cardinality(Charging(p)) - 1
    BY <1>5, <2>3
  <2>7. Settled(p)' = Settled(p)
    BY <2>2 DEF Settled
  <2> QED
    BY <1>1, <1>2, <1>3, <2>1, <2>2, <2>4, <2>5, <2>6, <2>7 DEF ChargeOK
<1>8. CASE RecordOutcome(w)
  <2>1. task[w].pc = "record" /\ task'[w].pc \in {"webhook", "release"}
        /\ UNCHANGED <<charges, lost>>
    BY <1>1, <1>8 DEF RecordOutcome, At, AfterRow, Task, history
  <2>2. Settled(p)'
    BY <1>1, <1>8 DEF RecordOutcome, Recorded, Settled, Row
  <2>3. Charging(p)' = Charging(p)
    BY <1>2, <2>1 DEF Charging, At
  <2> QED
    BY <1>3, <1>4, <2>1, <2>2, <2>3
<1>9. CASE PostWebhook(w)
  <2>1. task[w].pc = "webhook" /\ task'[w].pc \in {"stamp", "release"}
        /\ UNCHANGED <<payments, charges, lost>>
    BY <1>1, <1>9 DEF PostWebhook, At, Goto, Raise, Task
  <2>2. Unrecorded(p)' = Unrecorded(p) /\ Charging(p)' = Charging(p)
    BY <1>2, <2>1 DEF Unrecorded, Charging, At
  <2> QED
    BY <1>2, <2>1, <2>2 DEF ChargeOK, Settled
<1>10. CASE StampDelivered(w) \/ StampFails(w)
  <2>1. task[w].pc = "stamp" /\ task'[w].pc = "release" /\ UNCHANGED <<charges, lost>>
        /\ payments'[p].status = payments[p].status
    BY <1>1, <1>10 DEF StampDelivered, StampFails, Stamped, At, Goto, Raise, Task, Row, history
  <2>2. Unrecorded(p)' = Unrecorded(p) /\ Charging(p)' = Charging(p)
    BY <1>2, <2>1 DEF Unrecorded, Charging, At
  <2> QED
    BY <1>2, <2>1, <2>2 DEF ChargeOK, Settled
<1>11. CASE RecordFails(w)
  <2>1. task[w].pc = "record" /\ task'[w].pc = "release" /\ UNCHANGED charges
    BY <1>1, <1>11 DEF RecordFails, At, Task
  <2>2. Charging(p)' = Charging(p)
    BY <1>2, <2>1 DEF Charging, At
  <2>3. CASE lost' = lost /\ payments' = [payments EXCEPT ![p] = Recorded(@, task[w].ok)]
    <3>1. Settled(p)'
      BY <1>1, <2>3 DEF Recorded, Settled, Row
    <3> QED
      BY <1>3, <1>4, <2>1, <2>2, <2>3, <3>1
  <2>4. CASE payments' = payments
             /\ lost' = [lost EXCEPT ![p] = IF task[w].ok THEN @ + 1 ELSE @]
    <3>1. lost'[p] = IF task[w].ok THEN lost[p] + 1 ELSE lost[p]
      BY <1>1, <2>4
    <3>2. Unrecorded(p)' = IF task[w].ok THEN Unrecorded(p) \ {w} ELSE Unrecorded(p)
      BY <1>2, <2>1 DEF Unrecorded
    <3>3. task[w].ok => w \in Unrecorded(p)
      BY <2>1 DEF Unrecorded
    <3>4. task[w].ok => Cardinality(Unrecorded(p)') = Cardinality(Unrecorded(p)) - 1
      BY <1>3, <3>2, <3>3, FS_RemoveElement
    <3>5. Settled(p)' = Settled(p)
      BY <2>4 DEF Settled
    <3> QED
      BY <1>1, <1>2, <1>3, <2>1, <2>2, <3>1, <3>2, <3>4, <3>5 DEF ChargeOK
  <2> QED
    BY <1>11, <2>3, <2>4 DEF RecordFails
<1> QED
  BY <1>6, <1>7, <1>8, <1>9, <1>10, <1>11

(* Every step keeps ChargeInv.                                             *)
LEMMA ChargeStep == Typed /\ LockInv /\ ChargeInv /\ [Next]_vars => ChargeInv'
<1> SUFFICES ASSUME Typed, LockInv, ChargeInv, [Next]_vars, NEW p \in Payments
             PROVE  ChargeOK(p)'
  BY DEF ChargeInv, ChargeOK
<1>1. /\ ChargeOK(p)
      /\ charges[p] \in Nat /\ lost[p] \in Nat /\ overtaken[p] \in Nat
      /\ overtaken \in [Payments -> Nat]
  BY DEF ChargeInv, ChargeOK, Typed, TypeOK
<1>2. /\ IsFiniteSet(Unrecorded(p)) /\ Cardinality(Unrecorded(p)) \in Nat
      /\ IsFiniteSet(Charging(p)) /\ Cardinality(Charging(p)) \in Nat
  BY Crowd
<1>3. CASE Quiet
  <2>1. Unrecorded(p)' = Unrecorded(p) /\ Charging(p)' = Charging(p)
    BY <1>3 DEF Quiet, Reading, Unrecorded, Charging, At
  <2>2. /\ charges'[p] = charges[p] /\ lost'[p] = lost[p] /\ Settled(p)' = Settled(p)
        /\ overtaken'[p] >= overtaken[p]
    BY <1>3 DEF Quiet, Settled
  <2>3. overtaken'[p] \in Nat
    BY TypedStep DEF Typed, TypeOK
  <2> QED
    BY <1>1, <1>2, <2>1, <2>2, <2>3 DEF ChargeOK
<1>4. CASE Crash
  <2>1. Unrecorded(p)' = {} /\ Charging(p)' = {}
    BY <1>4 DEF Crash, Idle, Unrecorded, Charging, At
  <2>2. Cardinality(Unrecorded(p)') = 0 /\ Cardinality(Charging(p)') = 0
    BY <2>1, FS_EmptySet
  <2>3. /\ charges'[p] = charges[p] /\ overtaken'[p] = overtaken[p]
        /\ lost'[p] = lost[p] + Cardinality(Unrecorded(p))
        /\ Settled(p)' = Settled(p)
    BY <1>4 DEF Crash, Settled
  <2> QED
    BY <1>1, <1>2, <2>2, <2>3 DEF ChargeOK
<1>5. ASSUME NEW w \in Workers,
             \/ Load(w) \/ Charge(w) \/ RecordOutcome(w) \/ PostWebhook(w)
             \/ StampDelivered(w) \/ RecordFails(w) \/ StampFails(w)
      PROVE  ChargeOK(p)'
  <2>1. PICK q \in Payments : q = task[w].payment
    BY <1>5 DEF Load, Charge, RecordOutcome, PostWebhook, StampDelivered,
    RecordFails, StampFails, At, Typed, TaskRef, Busy
  <2>2. CASE p = q
    BY <1>1, <1>5, <2>1, <2>2, LocalCharge
  <2>3. CASE p # q
    <3>1. Local(w, q)
      BY <1>5, <2>1, LocalLoud
    <3>2. Unrecorded(p)' = Unrecorded(p) /\ Charging(p)' = Charging(p)
      BY <2>3, <3>1 DEF Local, Unrecorded, Charging, At
    <3>3. /\ charges'[p] = charges[p] /\ lost'[p] = lost[p]
          /\ overtaken'[p] = overtaken[p] /\ Settled(p)' = Settled(p)
      <4>1. payments'[p] = payments[p] /\ overtaken' = overtaken
        BY <2>3, <3>1 DEF Local
      <4>2. charges \in [Payments -> Nat] /\ lost \in [Payments -> Nat]
        BY DEF Typed, TypeOK
      <4>3. charges'[p] = charges[p] /\ lost'[p] = lost[p]
        BY <1>5, <2>1, <2>3, <4>2 DEF Load, Charge, RecordOutcome, PostWebhook,
        StampDelivered, RecordFails, StampFails, history
      <4> QED
        BY <4>1, <4>3 DEF Settled
    <3> QED
      BY <1>1, <3>2, <3>3 DEF ChargeOK
  <2> QED
    BY <2>2, <2>3
<1> QED
  BY <1>3, <1>4, <1>5, QuietOrLoud DEF Loud

(* Nothing is charged at first.                                            *)
LEMMA ChargeStart == Init => Account /\ ChargeInv
<1> SUFFICES ASSUME Init PROVE Account /\ ChargeInv
  OBVIOUS
<1>1. \A p \in Payments : Unrecorded(p) = {} /\ Charging(p) = {}
  BY DEF Init, Idle, Unrecorded, Charging, At
<1>2. \A p \in Payments : Cardinality(Unrecorded(p)) = 0 /\ Cardinality(Charging(p)) = 0
  BY <1>1, FS_EmptySet
<1>3. \A p \in Payments : /\ ~Settled(p) /\ Booked(p) = 0
                           /\ charges[p] = 0 /\ lost[p] = 0
  BY DEF Init, NoRow, Settled, Booked
<1> QED
  BY <1>2, <1>3 DEF Account, ChargeInv

(* ChargeInv bounds the charges, whatever outlasts the TTL.                *)
LEMMA ChargeBound ==
  ASSUME Typed, LockInv, ChargeInv, NEW p \in Payments
  PROVE  charges[p] <= 1 + lost[p] + overtaken[p]
<1>1. charges[p] \in Nat /\ lost[p] \in Nat /\ overtaken[p] \in Nat
  BY DEF Typed, TypeOK
<1> QED
  BY <1>1, Crowd DEF ChargeInv

(* Money is taken twice only after a crash or a failed UPDATE lost the     *)
(* outcome of a charge, or after the lock expired under a task, and once   *)
(* for each time it did.                                                   *)
THEOREM ChargesAccounted == Spec => []ChargeAccounting
<1>1. TimelyInv /\ Account /\ ChargeInv => ChargeAccounting
  BY ChargeBound DEF TimelyInv, Account, Booked, ChargeAccounting
<1>2. TimelyInv => Typed /\ LockInv
  BY DEF TimelyInv
<1>3. Spec => [](TimelyInv /\ Account /\ ChargeInv)
  <2>1. Spec => []TimelyInv
    BY Timely
  <2> QED
    BY <1>2, <2>1, ChargeStart, AccountStep, ChargeStep, PTL DEF Spec
<1> QED
  BY <1>1, <1>3, PTL

-----------------------------------------------------------------------------
(***************************************************************************)
(* What retries cost while nothing fails: every copy of an event stands    *)
(* for the attempts it has left, and no attempt is made twice.             *)
(***************************************************************************)

(* The attempts made for a copy of an event whose header says n, when the  *)
(* task t has it; all of them when none will follow.                       *)
Before == {"acquire", "load", "charge", "record", "webhook"}

TaskSpent(t, n) ==
  IF t.pc \in Before THEN n
  ELSE IF t.pc \in {"release", "middleware"} /\ t.exc \in HttpErrors THEN n + 1
  ELSE MaxRetries

Spent(m) ==
  IF msgs[m].place \in {"new", "retry"} THEN msgs[m].retries
  ELSE IF msgs[m].place = "unacked" THEN TaskSpent(task[msgs[m].holder], msgs[m].retries)
  ELSE MaxRetries

(* What becomes of a copy: "none" when it is gone or has a successor,      *)
(* "fine" when its task goes on to acknowledge it, "lost" when its task    *)
(* rejects it although attempts are left, "open" otherwise.                *)
TaskStatus(t) ==
  IF t.exc = "suppressed" THEN "none"
  ELSE IF t.pc \in Before THEN "open"
  ELSE IF t.exc = "none" THEN "fine"
  ELSE IF t.exc \in HttpErrors THEN "open" ELSE "lost"

Status(m) ==
  IF msgs[m].place = "nowhere" THEN "none"
  ELSE IF msgs[m].place = "unacked" THEN TaskStatus(task[msgs[m].holder])
  ELSE "open"

(* The attempts left to the copies of p's events.                          *)
Left(p) == {x \in MsgIds \X (1..MaxRetries) :
              msgs[x[1]].payment = p /\ Spent(x[1]) < x[2]}

(* While nothing fails, tasks hold what they work on.                      *)
HeldTask(w) ==
  /\ ~At(w, "down")
  /\ Busy(w) => /\ Owned(task[w].msg, w)
                /\ msgs[task[w].msg].retries = task[w].retries

Held ==
  /\ \A w \in Workers : HeldTask(w)
  /\ \A m \in MsgIds :
       msgs[m].place \in {"new", "retry", "unacked"} => msgs[m].retries < MaxRetries
  /\ \A p \in Payments :
       /\ published[p] <= MaxPublish
       /\ lock[p] # Free => /\ lock[p] \in Workers
                            /\ task[lock[p]].pc \in Critical
                            /\ task[lock[p]].payment = p

Budget(p) ==
  /\ IsFiniteSet(Left(p))
  /\ posts[p] + Cardinality(Left(p)) <= MaxRetries * published[p]

(* An event published once has one live copy, whose attempts are known.    *)
Copy(m, p) == msgs[m].payment = p /\ Status(m) # "none"

Single(p) ==
  published[p] <= 1 =>
    /\ published[p] = 0 => posts[p] = 0
    /\ \A m \in MsgIds :
         Copy(m, p) =>
           /\ published[p] = 1
           /\ InTime(p) /\ InvalidUrl \notin HttpCodes =>
                /\ Status(m) # "lost"
                /\ Status(m) = "open" => posts[p] = Spent(m)
    /\ \A m, n \in MsgIds : Copy(m, p) /\ Copy(n, p) => m = n

CalmInv == faults = 0 => Held /\ \A p \in Payments : Budget(p) /\ Single(p)

-----------------------------------------------------------------------------
(* The steps that are no faults.                                           *)
CalmNext ==
  \/ \E p \in Payments : PublishPayment(p) \/ LockTtl(p)
  \/ \E m \in MsgIds : RetryTtl(m)
  \/ \E m \in MsgIds, w \in Workers : Receive(m, w)
  \/ \E w \in Workers : TaskStep(w)
  \/ Restart
  \/ UNCHANGED vars

(* Faults are counted and never uncounted.                                 *)
LEMMA CalmSteps ==
  ASSUME Typed, [Next]_vars, faults' = 0
  PROVE  faults = 0 /\ CalmNext
<1>1. faults \in Nat
  BY DEF Typed, TypeOK
<1>2. ~Fault
  BY <1>1 DEF Fault
<1>3. CalmNext
  BY <1>2 DEF Next, CalmNext, CallFails, Crash, ConnectionLost, AcquireFails, LoadFails,
  RecordFails, StampFails, ReleaseFails, RepublishFails
<1>4. UNCHANGED faults
  BY <1>3 DEF CalmNext, PublishPayment, LockTtl, RetryTtl, Receive, TaskStep, Restart, vars,
  AcquireLock, LockTimeout, Load, Charge, RecordOutcome, PostWebhook, StampDelivered,
  ReleaseLock, PassThrough, Republish, Settle
<1> QED
  BY <1>3, <1>4

(* A task that owns its message changes nothing about the others.          *)
LEMMA OwnTask ==
  ASSUME Typed, DeliveryInv, Held, NEW w \in Workers, Busy(w)
  PROVE  /\ task[w].msg \in MsgIds /\ task[w].payment \in Payments
         /\ msgs[task[w].msg].place = "unacked" /\ msgs[task[w].msg].holder = w
         /\ msgs[task[w].msg].payment = task[w].payment
         /\ msgs[task[w].msg].retries = task[w].retries
         /\ task[w].retries \in Nat /\ task[w].retries < MaxRetries
         /\ \A n \in MsgIds \ {task[w].msg} :
              msgs[n].place = "unacked" => msgs[n].holder \in Workers \ {w}
<1>1. task[w].msg \in MsgIds /\ task[w].payment \in Payments
  BY DEF Typed, TaskRef
<1>2. Owned(task[w].msg, w) /\ msgs[task[w].msg].retries = task[w].retries
  BY DEF Held, HeldTask
<1>3. task[w].retries \in Nat
  BY DEF Typed, TypeOK, Task
<1> QED
  BY <1>1, <1>2, <1>3 DEF Owned, DeliveryInv, Held

(* The attempts made are at most all of them.                              *)
LEMMA SpentType ==
  ASSUME Typed, Held, NEW m \in MsgIds
  PROVE  Spent(m) \in 0..MaxRetries /\ MaxRetries \in Nat
<1>1. msgs[m].retries \in Nat /\ MaxRetries \in Nat
  BY ConsumerConstants DEF Typed, TypeOK, BrokerTypeOK, Message
<1>2. msgs[m].place \in {"new", "retry", "unacked"} => msgs[m].retries < MaxRetries
  BY DEF Held
<1> QED
  BY <1>1, <1>2 DEF Spent, TaskSpent

-----------------------------------------------------------------------------
(* A step and one copy of an event: what it leaves alone,                  *)
Same(m) ==
  msgs'[m].payment = msgs[m].payment /\ Spent(m)' = Spent(m) /\ Status(m)' = Status(m)

Others(M) == \A n \in MsgIds \ M : Same(n)

(* a step after which m has as many attempts left, or fewer,               *)
Advance(m) ==
  /\ Others({m})
  /\ UNCHANGED <<posts, published>>
  /\ msgs'[m].payment \in {msgs[m].payment, None}
  /\ Spent(m)' \in Nat /\ Spent(m)' >= Spent(m)
  /\ Status(m) = "none" => Status(m)' = "none"
  /\ Status(m)' = "open" /\ Status(m) = "open" => Spent(m)' = Spent(m)
  /\ Status(m)' = "open" => Status(m) \in {"open", "lost"}
  /\ Status(m)' = "lost" /\ Status(m) # "lost" =>
       \/ ~InTime(msgs[m].payment)
       \/ \E n \in MsgIds \ {m} : Copy(n, msgs[m].payment)

(* an attempt,                                                             *)
Attempt(m) ==
  /\ Others({m})
  /\ UNCHANGED published
  /\ msgs[m].payment \in Payments
  /\ posts' = [posts EXCEPT ![msgs[m].payment] = IF @ < MaxPosts THEN @ + 1 ELSE @]
  /\ msgs'[m].payment = msgs[m].payment
  /\ Spent(m) < MaxRetries /\ Status(m) = "open"
  /\ Spent(m)' \in Nat /\ Spent(m)' > Spent(m)
  /\ Status(m)' = "lost" => InvalidUrl \in HttpCodes
  /\ Status(m)' = "open" => Spent(m)' = Spent(m) + 1

(* a new event,                                                            *)
Event(m, p) ==
  /\ Others({m})
  /\ UNCHANGED posts
  /\ published' = [published EXCEPT ![p] = @ + 1]
  /\ msgs[m] = NoMessage
  /\ msgs'[m].payment = p /\ Spent(m)' = 0 /\ Status(m)' = "open"

(* and a republished one.                                                  *)
Retry(m, n) ==
  /\ m # n
  /\ Others({m, n})
  /\ UNCHANGED <<posts, published>>
  /\ Status(m) = "open" /\ msgs[m].payment \in Payments /\ msgs[n] = NoMessage
  /\ msgs'[m].payment = msgs[m].payment /\ Spent(m)' = MaxRetries /\ Status(m)' = "none"
  /\ msgs'[n].payment = msgs[m].payment /\ Spent(n)' = Spent(m) /\ Status(n)' = "open"

(* What the view of a copy depends on.                                     *)
LEMMA SameCopy ==
  ASSUME NEW m \in MsgIds, msgs'[m] = msgs[m],
         msgs[m].place = "unacked" => task'[msgs[m].holder] = task[msgs[m].holder]
  PROVE  Same(m)
BY DEF Same, Spent, TaskSpent, Status, TaskStatus

(* The step of one task.                                                   *)
LEMMA OtherCopies ==
  ASSUME Typed, DeliveryInv, Held, NEW w \in Workers, Busy(w),
         \A v \in Workers \ {w} : task'[v] = task[v],
         NEW M, task[w].msg \in M, \A n \in MsgIds \ M : msgs'[n] = msgs[n]
  PROVE  Others(M)
BY OwnTask, SameCopy DEF Others

(* The task's own message, unless it touches the broker.                   *)
LEMMA OwnCopy ==
  ASSUME Typed, DeliveryInv, Held, NEW w \in Workers, Busy(w), msgs' = msgs,
         NEW m \in MsgIds, m = task[w].msg
  PROVE  LET r == task[w].retries IN
         /\ msgs'[m].payment = msgs[m].payment
         /\ msgs[m].payment = task[w].payment /\ task[w].payment \in Payments
         /\ r \in Nat /\ r < MaxRetries /\ MaxRetries \in Nat
         /\ Spent(m) = TaskSpent(task[w], r) /\ Spent(m)' = TaskSpent(task'[w], r)
         /\ Status(m) = TaskStatus(task[w]) /\ Status(m)' = TaskStatus(task'[w])
<1>1. /\ task[w].payment \in Payments
      /\ msgs[m].place = "unacked" /\ msgs[m].holder = w
      /\ msgs[m].payment = task[w].payment
      /\ msgs[m].retries = task[w].retries
      /\ task[w].retries \in Nat /\ task[w].retries < MaxRetries
  BY OwnTask
<1>2. Spent(m) = TaskSpent(task[w], task[w].retries) /\ Status(m) = TaskStatus(task[w])
  BY <1>1 DEF Spent, Status
<1>3. Spent(m)' = TaskSpent(task'[w], task[w].retries) /\ Status(m)' = TaskStatus(task'[w])
  BY <1>1 DEF Spent, Status
<1> QED
  BY <1>1, <1>2, <1>3, ConsumerConstants

(* A task that only moves on makes an advance, if its status allows it.    *)
LEMMA MovesOn ==
  ASSUME Typed, DeliveryInv, Held, NEW w \in Workers, Busy(w),
         \A v \in Workers \ {w} : task'[v] = task[v],
         UNCHANGED <<msgs, posts, published>>, NEW m \in MsgIds, m = task[w].msg,
         LET r == task[w].retries IN TaskSpent(task'[w], r) >= TaskSpent(task[w], r),
         TaskStatus(task[w]) # "none",
         \/ TaskStatus(task'[w]) = "fine"
         \/ /\ TaskStatus(task'[w]) = TaskStatus(task[w])
            /\ LET r == task[w].retries IN TaskSpent(task'[w], r) = TaskSpent(task[w], r)
  PROVE  Advance(m)
<1> DEFINE r == task[w].retries
<1>1. /\ msgs'[m].payment = msgs[m].payment
      /\ r \in Nat /\ r < MaxRetries /\ MaxRetries \in Nat
      /\ Spent(m) = TaskSpent(task[w], r) /\ Spent(m)' = TaskSpent(task'[w], r)
      /\ Status(m) = TaskStatus(task[w]) /\ Status(m)' = TaskStatus(task'[w])
  BY OwnCopy
<1>2. Others({m})
  BY OtherCopies
<1>3. TaskSpent(task'[w], r) \in Nat
  BY <1>1 DEF TaskSpent
<1> QED
  BY <1>1, <1>2, <1>3 DEF Advance

Idling == Others({}) /\ UNCHANGED <<posts, published>>

(* The actions of a task before its webhook, and after it, one by one.     *)
LEMMA TaskKinds ==
  ASSUME TimelyInv, DeliveryInv, Held, NEW w \in Workers, TaskStep(w)
  PROVE  \/ \E m \in MsgIds : Advance(m) \/ Attempt(m)
         \/ \E m, n \in MsgIds : Retry(m, n)
<1>1. /\ task \in [Workers -> Task] /\ Typed /\ TaskOK(w)
      /\ BrokerTypeOK
  BY DEF TimelyInv, Typed, TypeOK, TaskInv
<1>2. Busy(w)
  BY DEF TaskStep, AcquireLock, LockTimeout, Load, Charge, RecordOutcome, PostWebhook,
  StampDelivered, ReleaseLock, PassThrough, Republish, Settle, At, Busy
<1>0. /\ task[w].msg \in MsgIds /\ task[w].payment \in Payments
      /\ task[w].retries \in Nat /\ task[w].retries < MaxRetries /\ MaxRetries \in Nat
  BY <1>1, <1>2, OwnTask, ConsumerConstants
<1> PICK m \in MsgIds, p \in Payments, r \in Nat :
      m = task[w].msg /\ p = task[w].payment /\ r = task[w].retries
  BY <1>0
<1>3. r < MaxRetries /\ MaxRetries \in Nat
  BY <1>0
<1> USE <1>1, <1>2, <1>3
<1>4. CASE AcquireLock(w)
  BY <1>4, MovesOn DEF AcquireLock, At, Goto, TaskSpent, TaskStatus, Before, Task, TaskOK, history
<1>5. CASE Load(w)
  BY <1>5, MovesOn DEF Load, AfterLoad, AfterRow, At, TaskSpent, TaskStatus, Before, Task,
  TaskOK, history
<1>6. CASE Charge(w)
  <2>1. /\ task'[w].pc = "record" /\ task'[w].exc = task[w].exc /\ task[w].pc = "charge"
        /\ \A v \in Workers \ {w} : task'[v] = task[v]
        /\ UNCHANGED <<msgs, posts, published>>
    BY <1>6 DEF Charge, At, Task
  <2> QED
    BY <2>1, MovesOn DEF At, TaskSpent, TaskStatus, Before, TaskOK
<1>7. CASE RecordOutcome(w)
  <2>1. /\ task'[w].pc \in {"webhook", "release"}
        /\ task'[w].exc = task[w].exc /\ task[w].pc = "record"
        /\ \A v \in Workers \ {w} : task'[v] = task[v]
        /\ UNCHANGED <<msgs, posts, published>>
    BY <1>7 DEF RecordOutcome, AfterRow, At, Task, history
  <2>2. task[w].exc = "none"
    BY <2>1 DEF TaskOK
  <2>3. CASE task'[w].pc = "webhook"
    BY <2>1, <2>2, <2>3, MovesOn DEF TaskSpent, TaskStatus, Before
  <2>4. CASE task'[w].pc = "release"
    BY <2>1, <2>2, <2>4, MovesOn DEF TaskSpent, TaskStatus, Before, HttpErrors
  <2> QED
    BY <2>1, <2>3, <2>4
<1>8. CASE StampDelivered(w)
  <2>1. /\ task'[w].pc = "release" /\ task'[w].exc = task[w].exc /\ task[w].pc = "stamp"
        /\ \A v \in Workers \ {w} : task'[v] = task[v]
        /\ UNCHANGED <<msgs, posts, published>>
    BY <1>8 DEF StampDelivered, Goto, At, Task, history
  <2>2. task[w].exc = "none"
    BY <2>1 DEF TaskOK
  <2> QED
    BY <2>1, <2>2, MovesOn DEF TaskSpent, TaskStatus, Before, HttpErrors
<1>9. CASE ReleaseLock(w)
  <2>1. /\ task[w].pc = "release" /\ task'[w].pc = "middleware"
        /\ task'[w].exc = IF lock[p] = w THEN task[w].exc ELSE "LockNotOwnedError"
        /\ \A v \in Workers \ {w} : task'[v] = task[v]
        /\ UNCHANGED <<msgs, posts, published>>
    BY <1>9 DEF ReleaseLock, Holds, At, Task, history
  <2>2. TaskStatus(task[w]) # "none"
    BY <2>1 DEF TaskStatus, TaskOK, At
  <2>3. CASE lock[p] = w
    BY <2>1, <2>2, <2>3, MovesOn DEF TaskSpent, TaskStatus, Before
  <2>4. CASE lock[p] # w
    <3>1. ~InTime(p)
      BY <1>0, <2>1, <2>4, HasLock DEF TimelyInv, Critical
    <3>2. /\ msgs'[m].payment = msgs[m].payment /\ msgs[m].payment = p
          /\ Spent(m) = TaskSpent(task[w], r) /\ Spent(m)' = TaskSpent(task'[w], r)
          /\ Status(m) = TaskStatus(task[w]) /\ Status(m)' = TaskStatus(task'[w])
      BY <2>1, OwnCopy
    <3>3. Spent(m) <= MaxRetries /\ Spent(m)' = MaxRetries /\ Status(m)' = "lost"
      BY <2>1, <2>4, <3>2 DEF TaskSpent, TaskStatus, Before, HttpErrors
    <3>4. Others({m})
      BY <2>1, OtherCopies
    <3>5. Advance(m)
      BY <2>1, <2>2, <3>1, <3>2, <3>3, <3>4 DEF Advance
    <3> QED
      BY <3>5
  <2> QED
    BY <2>3, <2>4
<1>10. CASE PassThrough(w)
  BY <1>10, MovesOn DEF PassThrough, Goto, Retryable, Exhausted, NextCount, At, TaskSpent,
  TaskStatus, Before, Task, TaskOK, history
<1>11. CASE LockTimeout(w)
  <2>1. /\ task'[w].pc = "middleware" /\ task'[w].exc = "LockError" /\ task[w].pc = "acquire"
        /\ \A u \in Workers \ {w} : task'[u] = task[u]
        /\ UNCHANGED <<msgs, posts, published>>
        /\ lock[p] # Free
    BY <1>11 DEF LockTimeout, At, Task, history
  <2>2. /\ msgs'[m].payment = msgs[m].payment /\ msgs[m].payment = p /\ p \in Payments
        /\ Spent(m) = r /\ Spent(m)' = MaxRetries /\ Status(m)' = "lost" /\ Status(m) = "open"
    BY <2>1, OwnCopy DEF TaskSpent, TaskStatus, Before, TaskOK, HttpErrors, At
  <2>3. PICK v \in Workers \ {w} : task[v].pc \in Critical /\ task[v].payment = p
    BY <2>1, <2>2 DEF Held, Critical
  <2>4. Busy(v) /\ TaskStatus(task[v]) # "none"
    BY <2>3 DEF Busy, Critical, TaskStatus, TimelyInv, TaskInv, TaskOK, At
  <2>5. PICK n \in MsgIds \ {m} : Copy(n, p)
    BY <2>2, <2>3, <2>4, OwnTask DEF Copy, Status
  <2>6. Others({m})
    BY <2>1, OtherCopies
  <2>7. Advance(m)
    BY <2>1, <2>2, <2>5, <2>6 DEF Advance
  <2> QED
    BY <2>7
<1>12. CASE PostWebhook(w)
  <2>1. PICK code \in HttpCodes :
          task' = IF Post(code) = "none"
                    THEN [task EXCEPT ![w].pc = "stamp"]
                    ELSE [task EXCEPT ![w].pc = "release", ![w].exc = Post(code)]
    BY <1>12 DEF PostWebhook, Goto, Raise
  <2>2. /\ task[w].pc = "webhook" /\ task[w].exc = "none"
        /\ \A v \in Workers \ {w} : task'[v] = task[v]
        /\ UNCHANGED <<msgs, published>>
        /\ posts' = [posts EXCEPT ![p] = IF @ < MaxPosts THEN @ + 1 ELSE @]
    BY <1>12, <2>1 DEF PostWebhook, At, Task, TaskOK
  <2>3. \/ task'[w].pc = "stamp" /\ task'[w].exc = "none"
        \/ task'[w].pc = "release" /\ task'[w].exc = Post(code) /\ Post(code) # "none"
    BY <2>1, <2>2 DEF Task
  <2>4. /\ Post(code) # "none" => Post(code) \in HttpErrors \cup {"InvalidURL"}
        /\ Post(code) = "InvalidURL" => InvalidUrl \in HttpCodes
    BY ConsumerConstants DEF Post, RaiseForStatus, NetworkError, InvalidUrl, HttpErrors,
    RETRYABLE_STATUSES
  <2>5. /\ msgs'[m].payment = msgs[m].payment /\ msgs[m].payment = p /\ p \in Payments
        /\ Spent(m) = r /\ Status(m) = "open"
        /\ Spent(m)' = TaskSpent(task'[w], r) /\ Status(m)' = TaskStatus(task'[w])
    BY <2>2, OwnCopy DEF TaskSpent, TaskStatus, Before
  <2>6. Others({m})
    BY <2>2, OtherCopies
  <2>7. /\ Spent(m)' \in {r + 1, MaxRetries}
        /\ Status(m)' = "lost" => InvalidUrl \in HttpCodes
        /\ Status(m)' = "open" => Spent(m)' = r + 1
    BY <2>3, <2>4, <2>5 DEF TaskSpent, TaskStatus, Before, HttpErrors
  <2>8. Attempt(m)
    BY <2>2, <2>5, <2>6, <2>7 DEF Attempt
  <2> QED
    BY <2>8
<1>13. CASE Republish(w)
  <2>1. PICK n \in MsgIds : Publish(n, p, NextCount(r), "retry")
    BY <1>13 DEF Republish
  <2>2. /\ task[w].pc = "middleware" /\ task[w].exc \in HttpErrors
        /\ task'[w].exc = "suppressed" /\ task'[w].pc = "settle"
        /\ \A v \in Workers \ {w} : task'[v] = task[v]
        /\ UNCHANGED <<posts, published>>
    BY <1>13 DEF Republish, At, Retryable, Task, history
  <2>3. /\ msgs[m].place = "unacked" /\ msgs[m].holder = w
        /\ msgs[m].payment = p /\ p \in Payments /\ msgs[m].retries = r
    BY OwnTask DEF TimelyInv
  <2>4. /\ msgs[n] = NoMessage /\ n # m
        /\ msgs'[n].payment = p /\ msgs'[n].retries = r + 1 /\ msgs'[n].place = "retry"
        /\ \A k \in MsgIds \ {n} : msgs'[k] = msgs[k]
    BY <2>1, <2>3 DEF Publish, Stored, NoMessage, NextCount, BrokerTypeOK
  <2>5. Spent(m) = r + 1 /\ Status(m) = "open"
    BY <2>2, <2>3 DEF Spent, Status, TaskSpent, TaskStatus, Before, HttpErrors
  <2>6. /\ msgs'[m].payment = p /\ Spent(m)' = MaxRetries /\ Status(m)' = "none"
    BY <2>2, <2>3, <2>4 DEF Spent, Status, TaskSpent, TaskStatus, Before, HttpErrors
  <2>7. Spent(n)' = r + 1 /\ Status(n)' = "open"
    BY <2>4 DEF Spent, Status
  <2>8. Others({m, n})
    BY <2>2, <2>4, OtherCopies
  <2>9. Retry(m, n)
    BY <2>2, <2>3, <2>4, <2>5, <2>6, <2>7, <2>8 DEF Retry
  <2> QED
    BY <2>9
<1>14. CASE Settle(w)
  <2>1. /\ task[w].pc = "settle" /\ UNCHANGED <<posts, published>>
        /\ \A v \in Workers \ {w} : task'[v] = task[v]
        /\ \A n \in MsgIds \ {m} : msgs'[n] = msgs[n]
    BY <1>14, SettleEffect DEF Settle, At, history
  <2>2. Owned(m, w)
    BY OwnTask DEF Owned
  <2>3. Spent(m) = MaxRetries /\ Status(m) = TaskStatus(task[w])
    BY <2>1, <2>2 DEF Owned, Spent, Status, TaskSpent, Before
  <2>4. Others({m})
    BY <2>1, OtherCopies DEF TimelyInv
  <2>5. CASE task[w].exc \in {"none", "suppressed"}
    <3>1. msgs'[m] = NoMessage
      BY <1>14, <2>2, <2>5, SettleEffect
    <3>2. msgs'[m].payment = None /\ Spent(m)' = MaxRetries /\ Status(m)' = "none"
      BY <3>1 DEF NoMessage, Spent, Status
    <3>3. Advance(m)
      BY <2>1, <2>3, <2>4, <3>2 DEF Advance
    <3> QED
      BY <3>3
  <2>6. CASE task[w].exc \notin {"none", "suppressed"}
    <3>1. msgs'[m].payment = msgs[m].payment /\ msgs'[m].place = "dlq"
      BY <1>14, <2>2, <2>6, SettleEffect
    <3>2. Spent(m)' = MaxRetries /\ Status(m)' = "open"
      BY <3>1 DEF Spent, Status
    <3>3. Status(m) \in {"open", "lost"}
      BY <2>1, <2>3, <2>6 DEF TaskStatus, Before
    <3>4. Advance(m)
      BY <2>1, <2>3, <2>4, <3>1, <3>2, <3>3 DEF Advance
    <3> QED
      BY <3>4
  <2> QED
    BY <2>5, <2>6
<1> QED
  BY <1>4, <1>5, <1>6, <1>7, <1>8, <1>9, <1>10, <1>11, <1>12, <1>13, <1>14 DEF TaskStep

(* Every step that is no fault is one of the five kinds.                   *)
LEMMA StepKinds ==
  ASSUME TimelyInv, DeliveryInv, Held, CalmNext
  PROVE  \/ Idling
         \/ \E m \in MsgIds : Advance(m) \/ Attempt(m)
         \/ \E m \in MsgIds, p \in Payments : Event(m, p)
         \/ \E m, n \in MsgIds : Retry(m, n)
<1>1. /\ Typed /\ BrokerTypeOK /\ task \in [Workers -> Task]
      /\ published \in [Payments -> Nat]
  BY DEF TimelyInv, Typed, TypeOK
<1>2. ASSUME NEW p \in Payments, PublishPayment(p)
      PROVE  \E m \in MsgIds : Event(m, p)
  <2>1. PICK m \in MsgIds : Publish(m, p, 0, "new")
    BY <1>2 DEF PublishPayment
  <2>2. /\ msgs[m] = NoMessage /\ msgs'[m].payment = p
        /\ msgs'[m].retries = 0 /\ msgs'[m].place = "new"
        /\ \A n \in MsgIds \ {m} : msgs'[n] = msgs[n]
    BY <1>1, <2>1 DEF Publish, Stored, BrokerTypeOK
  <2>3. Spent(m)' = 0 /\ Status(m)' = "open"
    BY <2>2 DEF Spent, Status
  <2>4. UNCHANGED <<task, posts>> /\ published' = [published EXCEPT ![p] = @ + 1]
    BY <1>2 DEF PublishPayment, history
  <2>5. Others({m})
    BY <2>2, <2>4, SameCopy DEF Others
  <2>6. Event(m, p)
    BY <2>2, <2>3, <2>4, <2>5 DEF Event
  <2> QED
    BY <2>6
<1>3. ASSUME NEW p \in Payments, LockTtl(p) PROVE Idling
  BY <1>3, SameCopy DEF LockTtl, Idling, Others, history
<1>4. ASSUME NEW m \in MsgIds, RetryTtl(m) PROVE Idling
  <2>1. /\ msgs[m].place = "retry" /\ msgs'[m].place = "new"
        /\ msgs'[m].payment = msgs[m].payment /\ msgs'[m].retries = msgs[m].retries
        /\ \A n \in MsgIds \ {m} : msgs'[n] = msgs[n]
        /\ UNCHANGED <<task, posts, published>>
    BY <1>1, <1>4 DEF RetryTtl, ExpireTtl, Moved, DeadLetterTo, BrokerTypeOK, Message, history
  <2>2. Same(m)
    BY <2>1 DEF Same, Spent, Status
  <2> QED
    BY <2>1, <2>2, SameCopy DEF Idling, Others
<1>5. ASSUME NEW m \in MsgIds, NEW w \in Workers, Receive(m, w) PROVE Idling
  <2>1. /\ msgs[m].place = "new" /\ msgs'[m].place = "unacked" /\ msgs'[m].holder = w
        /\ msgs'[m].payment = msgs[m].payment /\ msgs'[m].retries = msgs[m].retries
        /\ \A n \in MsgIds \ {m} : msgs'[n] = msgs[n]
    BY <1>1, <1>5 DEF Receive, Deliver, BrokerTypeOK, Message
  <2>2. /\ task'[w].pc = "acquire" /\ task'[w].exc = "none" /\ ~Busy(w)
        /\ \A v \in Workers \ {w} : task'[v] = task[v]
        /\ UNCHANGED <<posts, published>>
    BY <1>1, <1>5 DEF Receive, Idle, At, Busy, history
  <2>3. Same(m)
    BY <2>1, <2>2 DEF Same, Spent, TaskSpent, Status, TaskStatus, Before
  <2>4. \A n \in MsgIds \ {m} : Same(n)
    BY <2>1, <2>2, SameCopy DEF DeliveryInv
  <2> QED
    BY <2>2, <2>3, <2>4 DEF Idling, Others
<1>6. CASE Restart
  <2>1. /\ UNCHANGED <<msgs, posts, published>>
        /\ \A m \in MsgIds : msgs[m].place # "unacked"
    BY <1>6 DEF Restart, At, DeliveryInv, Busy, history
  <2> QED
    BY <2>1, SameCopy DEF Idling, Others
<1>7. CASE UNCHANGED vars
  BY <1>7, SameCopy DEF vars, history, Idling, Others
<1> QED
  BY <1>2, <1>3, <1>4, <1>5, <1>6, <1>7, TaskKinds DEF CalmNext

-----------------------------------------------------------------------------
(* Held, in two parts: messages and locks.                                 *)
HeldMessages ==
  /\ \A w \in Workers : HeldTask(w)
  /\ \A m \in MsgIds :
       msgs[m].place \in {"new", "retry", "unacked"} => msgs[m].retries < MaxRetries

HeldLocks ==
  \A p \in Payments :
    /\ published[p] <= MaxPublish
    /\ lock[p] # Free => /\ lock[p] \in Workers
                         /\ task[lock[p]].pc \in Critical
                         /\ task[lock[p]].payment = p

(* A task that moves on keeps its message.                                 *)
LEMMA KeepsMessage ==
  ASSUME HeldMessages, NEW w \in Workers, Busy(w), UNCHANGED msgs,
         \A v \in Workers \ {w} : task'[v] = task[v],
         task'[w].msg = task[w].msg, task'[w].retries = task[w].retries,
         task'[w].pc \notin {"idle", "down"}
  PROVE  HeldMessages'
BY DEF HeldMessages, HeldTask, At, Busy, Owned

(* Messages are published with attempts left, and only their tasks settle  *)
(* them.                                                                   *)
LEMMA HeldMessagesStep ==
  ASSUME MaxRetries > 0, TimelyInv, DeliveryInv, Held, CalmNext
  PROVE  HeldMessages'
<1>1. /\ Typed /\ BrokerTypeOK /\ task \in [Workers -> Task] /\ HeldMessages
      /\ MaxRetries \in Nat
  BY ConsumerConstants DEF TimelyInv, Typed, TypeOK, Held, HeldMessages
<1> USE <1>1
<1>2. ASSUME NEW p \in Payments, PublishPayment(p) PROVE HeldMessages'
  <2>1. PICK m \in MsgIds : Publish(m, p, 0, "new")
    BY <1>2 DEF PublishPayment
  <2>2. /\ msgs[m] = NoMessage /\ msgs'[m].retries = 0 /\ UNCHANGED task
        /\ \A n \in MsgIds \ {m} : msgs'[n] = msgs[n]
    BY <1>2, <2>1 DEF Publish, Stored, BrokerTypeOK, PublishPayment
  <2> QED
    BY <2>2 DEF HeldMessages, HeldTask, At, Busy, Owned, NoMessage, Typed, TaskRef
<1>3. ASSUME NEW p \in Payments, LockTtl(p) PROVE HeldMessages'
  BY <1>3 DEF LockTtl, HeldMessages, HeldTask, At, Busy, Owned
<1>4. ASSUME NEW m \in MsgIds, RetryTtl(m) PROVE HeldMessages'
  <2>1. /\ msgs[m].place = "retry" /\ msgs'[m].place = "new"
        /\ msgs'[m].retries = msgs[m].retries /\ UNCHANGED task
        /\ \A n \in MsgIds \ {m} : msgs'[n] = msgs[n]
    BY <1>4 DEF RetryTtl, ExpireTtl, Moved, DeadLetterTo, BrokerTypeOK, Message
  <2> QED
    BY <2>1 DEF HeldMessages, HeldTask, At, Busy, Owned, Typed, TaskRef
<1>5. ASSUME NEW m \in MsgIds, NEW w \in Workers, Receive(m, w) PROVE HeldMessages'
  <2>1. /\ msgs[m].place = "new" /\ msgs'[m].place = "unacked" /\ msgs'[m].holder = w
        /\ msgs'[m].retries = msgs[m].retries
        /\ \A n \in MsgIds \ {m} : msgs'[n] = msgs[n]
    BY <1>5 DEF Receive, Deliver, BrokerTypeOK, Message
  <2>2. /\ task'[w].pc = "acquire" /\ task'[w].msg = m /\ task'[w].retries = msgs[m].retries
        /\ \A v \in Workers \ {w} : task'[v] = task[v]
    BY <1>5 DEF Receive, Idle
  <2> QED
    BY <2>1, <2>2 DEF HeldMessages, HeldTask, At, Busy, Owned, Typed, TaskRef
<1>6. CASE Restart
  <2>1. Workers = {} /\ UNCHANGED msgs
    BY <1>6 DEF Restart, HeldMessages, HeldTask
  <2> QED
    BY <2>1 DEF HeldMessages
<1>7. CASE UNCHANGED vars
  BY <1>7 DEF vars, HeldMessages, HeldTask, At, Busy, Owned
<1>8. ASSUME NEW w \in Workers, AcquireLock(w) \/ LockTimeout(w) \/ Load(w) \/ Charge(w)
      PROVE  HeldMessages'
  BY <1>8, KeepsMessage DEF AcquireLock, LockTimeout, Load, Charge, AfterLoad, AfterRow, At,
  Goto, Busy, Task
<1>9. ASSUME NEW w \in Workers, RecordOutcome(w) \/ StampDelivered(w) \/ ReleaseLock(w)
                                \/ PassThrough(w)
      PROVE  HeldMessages'
  BY <1>9, KeepsMessage DEF RecordOutcome, StampDelivered, ReleaseLock, PassThrough, AfterRow,
  At, Goto, Busy, Task
<1>10. ASSUME NEW w \in Workers, PostWebhook(w) PROVE HeldMessages'
  BY <1>10, KeepsMessage DEF PostWebhook, At, Goto, Raise, Busy, Task
<1>11. ASSUME NEW w \in Workers, Republish(w) PROVE HeldMessages'
  <2>1. PICK n \in MsgIds : Publish(n, task[w].payment, task[w].retries + 1, "retry")
    BY <1>11 DEF Republish, NextCount
  <2>2. /\ msgs[n] = NoMessage /\ msgs'[n].retries = task[w].retries + 1
        /\ \A k \in MsgIds \ {n} : msgs'[k] = msgs[k]
    BY <2>1 DEF Publish, Stored, BrokerTypeOK
  <2>3. task[w].retries + 1 < MaxRetries
    BY <1>11 DEF Republish, Exhausted, NextCount, Task
  <2>4. /\ task'[w].pc = "settle" /\ task'[w].msg = task[w].msg
        /\ task'[w].retries = task[w].retries /\ Busy(w)
        /\ \A v \in Workers \ {w} : task'[v] = task[v]
    BY <1>11 DEF Republish, At, Busy, Task
  <2> QED
    BY <2>2, <2>3, <2>4 DEF HeldMessages, HeldTask, At, Busy, Owned, NoMessage, Typed, TaskRef
<1>12. ASSUME NEW w \in Workers, Settle(w) PROVE HeldMessages'
  <2>1. /\ task[w].pc = "settle" /\ Busy(w) /\ task'[w].pc = "idle"
        /\ \A v \in Workers \ {w} : task'[v] = task[v]
    BY <1>12 DEF Settle, At, Busy, Idle
  <2>2. /\ task[w].msg \in MsgIds /\ Owned(task[w].msg, w)
        /\ \A n \in MsgIds \ {task[w].msg} : msgs'[n] = msgs[n]
        /\ msgs'[task[w].msg].place \in {"nowhere", "dlq"}
    BY <1>12, <2>1, SettleEffect DEF HeldMessages, HeldTask, NoMessage, Typed, TaskRef
  <2>3. ASSUME NEW v \in Workers \ {w}, Busy(v) PROVE task[v].msg \in MsgIds \ {task[w].msg}
    BY <2>2, <2>3 DEF HeldMessages, HeldTask, Owned, Typed, TaskRef
  <2> QED
    BY <2>1, <2>2, <2>3 DEF HeldMessages, HeldTask, At, Busy, Owned
<1> QED
  BY <1>2, <1>3, <1>4, <1>5, <1>6, <1>7, <1>8, <1>9, <1>10, <1>11, <1>12 DEF CalmNext, TaskStep

(* No lock without a task in the handler's body.                           *)
LEMMA HeldLocksStep ==
  ASSUME TimelyInv, Held, CalmNext
  PROVE  HeldLocks'
<1>1. /\ Typed /\ task \in [Workers -> Task] /\ HeldLocks
      /\ lock \in [Payments -> Workers \cup {Free, Orphan}]
      /\ published \in [Payments -> Nat] /\ MaxPublish \in Nat
      /\ \A w \in Workers : ~At(w, "down")
  BY ConsumerConstants DEF TimelyInv, Typed, TypeOK, LockTypeOK, Held, HeldLocks, HeldTask
<1> USE <1>1, LockValues, ConsumerConstants
<1>2. ASSUME NEW p \in Payments, PublishPayment(p) PROVE HeldLocks'
  BY <1>2 DEF PublishPayment, HeldLocks
<1>3. ASSUME NEW p \in Payments, LockTtl(p) PROVE HeldLocks'
  BY <1>3 DEF LockTtl, Expire, HeldLocks
<1>4. ASSUME NEW m \in MsgIds, RetryTtl(m) PROVE HeldLocks'
  BY <1>4 DEF RetryTtl, HeldLocks
<1>5. ASSUME NEW m \in MsgIds, NEW w \in Workers, Receive(m, w) PROVE HeldLocks'
  BY <1>5 DEF Receive, At, HeldLocks, Critical
<1>6. CASE Restart
  BY <1>6 DEF Restart, HeldLocks
<1>7. CASE UNCHANGED vars
  BY <1>7 DEF vars, HeldLocks
<1>8. ASSUME NEW w \in Workers, AcquireLock(w) PROVE HeldLocks'
  BY <1>8 DEF AcquireLock, Acquire, Goto, At, HeldLocks, Critical, Task
<1>9. ASSUME NEW w \in Workers, LockTimeout(w) \/ Load(w) \/ Charge(w) PROVE HeldLocks'
  BY <1>9 DEF LockTimeout, Load, Charge, AfterLoad, AfterRow, At, HeldLocks, Critical, Task
<1>10. ASSUME NEW w \in Workers, RecordOutcome(w) \/ StampDelivered(w) PROVE HeldLocks'
  BY <1>10 DEF RecordOutcome, StampDelivered, AfterRow, Goto, At, HeldLocks, Critical, Task
<1>11. ASSUME NEW w \in Workers, PostWebhook(w) PROVE HeldLocks'
  BY <1>11 DEF PostWebhook, Goto, Raise, At, HeldLocks, Critical, Task
<1>12. ASSUME NEW w \in Workers, ReleaseLock(w) PROVE HeldLocks'
  BY <1>12 DEF ReleaseLock, Released, Holds, At, HeldLocks, Critical, Task
<1>13. ASSUME NEW w \in Workers, PassThrough(w) \/ Republish(w) \/ Settle(w) PROVE HeldLocks'
  BY <1>13 DEF PassThrough, Republish, Settle, Goto, At, HeldLocks, Critical, Task
<1> QED
  BY <1>2, <1>3, <1>4, <1>5, <1>6, <1>7, <1>8, <1>9, <1>10, <1>11, <1>12, <1>13
  DEF CalmNext, TaskStep

-----------------------------------------------------------------------------
(* The attempts left to one copy, from the k-th on.                        *)
LEMMA AttemptsOfCopy ==
  ASSUME NEW m, NEW k \in 0..MaxRetries, MaxRetries \in Nat
  PROVE  LET L == {m} \X (k + 1..MaxRetries) IN
         IsFiniteSet(L) /\ Cardinality(L) = MaxRetries - k
<1>1. /\ IsFiniteSet(k + 1..MaxRetries)
      /\ Cardinality(k + 1..MaxRetries) = IF k + 1 > MaxRetries THEN 0 ELSE MaxRetries - (k + 1) + 1
  BY FS_Interval
<1>2. IsFiniteSet({m}) /\ Cardinality({m}) = 1
  BY FS_Singleton
<1>3. Cardinality(k + 1..MaxRetries) = MaxRetries - k
  BY <1>1
<1>4. /\ IsFiniteSet({m} \X (k + 1..MaxRetries))
      /\ Cardinality({m} \X (k + 1..MaxRetries)) = 1 * Cardinality(k + 1..MaxRetries)
  BY <1>1, <1>2, FS_Product
<1> QED
  BY <1>3, <1>4

(* Disjoint finite sets add up.                                            *)
LEMMA Disjoint ==
  ASSUME NEW S, NEW T, IsFiniteSet(S), IsFiniteSet(T), S \cap T = {}
  PROVE  /\ IsFiniteSet(S \cup T) /\ Cardinality(S) \in Nat /\ Cardinality(T) \in Nat
         /\ Cardinality(S \cup T) = Cardinality(S) + Cardinality(T)
BY FS_Union, FS_EmptySet, FS_CardinalityType

(* No step makes more attempts than it takes from those left.              *)
LEMMA BudgetStep ==
  ASSUME Typed, Held, NEW p \in Payments, Budget(p),
         \/ Idling
         \/ \E m \in MsgIds : Advance(m) \/ Attempt(m)
         \/ \E m \in MsgIds, q \in Payments : Event(m, q)
         \/ \E m, n \in MsgIds : Retry(m, n)
  PROVE  Budget(p)'
<1>1. /\ posts \in [Payments -> Nat] /\ published \in [Payments -> Nat] /\ MaxRetries \in Nat
      /\ IsFiniteSet(Left(p)) /\ Cardinality(Left(p)) \in Nat
      /\ posts[p] + Cardinality(Left(p)) <= MaxRetries * published[p]
      /\ None \notin Payments
  BY ConsumerConstants, NoneIsFresh, FS_CardinalityType DEF Typed, TypeOK, Budget
<1> USE <1>1
<1>2. CASE Idling
  <2>1. Left(p)' = Left(p)
    BY <1>2 DEF Idling, Others, Same, Left
  <2> QED
    BY <1>2, <2>1 DEF Idling, Budget
<1>3. ASSUME NEW m \in MsgIds, Advance(m) PROVE Budget(p)'
  <2>1. Spent(m) \in Nat /\ Spent(m)' \in Nat /\ Spent(m)' >= Spent(m)
    BY <1>3, SpentType DEF Advance
  <2>2. ASSUME NEW x \in Left(p)' PROVE x \in Left(p)
    <3>1. x \in MsgIds \X (1..MaxRetries) /\ msgs'[x[1]].payment = p /\ Spent(x[1])' < x[2]
      BY DEF Left
    <3>2. CASE x[1] = m
      <4>1. msgs[m].payment = p
        BY <1>3, <3>1, <3>2 DEF Advance
      <4>2. Spent(m)' < x[2] /\ x[2] \in Nat
        BY <3>1, <3>2
      <4>3. Spent(m) < x[2]
        BY <2>1, <4>2
      <4> QED
        BY <3>1, <3>2, <4>1, <4>3 DEF Left
    <3>3. CASE x[1] \in MsgIds \ {m}
      BY <1>3, <3>1, <3>3 DEF Advance, Others, Same, Left
    <3> QED
      BY <3>1, <3>2, <3>3
  <2>3. IsFiniteSet(Left(p)') /\ Cardinality(Left(p)') <= Cardinality(Left(p))
    BY <2>2, FS_Subset
  <2>4. Cardinality(Left(p)') \in Nat
    BY <2>3, FS_CardinalityType
  <2>5. posts'[p] = posts[p] /\ published'[p] = published[p]
    BY <1>3 DEF Advance
  <2> QED
    BY <2>3, <2>4, <2>5 DEF Budget
<1>4. ASSUME NEW m \in MsgIds, Attempt(m) PROVE Budget(p)'
  <2>1. Spent(m) \in Nat /\ Spent(m) < MaxRetries /\ Spent(m)' \in Nat /\ Spent(m)' > Spent(m)
    BY <1>4, SpentType DEF Attempt
  <2>2. CASE msgs[m].payment # p
    <3>1. Left(p)' = Left(p)
      BY <1>4, <2>2 DEF Attempt, Others, Same, Left
    <3>2. posts'[p] = posts[p] /\ published'[p] = published[p]
      BY <1>4, <2>2 DEF Attempt
    <3> QED
      BY <3>1, <3>2 DEF Budget
  <2>3. CASE msgs[m].payment = p
    <3> DEFINE x0 == <<m, Spent(m) + 1>>
    <3>1. x0 \in Left(p)
      BY <2>1, <2>3 DEF Left
    <3>2. ASSUME NEW x \in Left(p)' PROVE x \in Left(p) \ {x0}
      <4>1. x \in MsgIds \X (1..MaxRetries) /\ msgs'[x[1]].payment = p /\ Spent(x[1])' < x[2]
        BY DEF Left
      <4>2. CASE x[1] = m
        <5>1. Spent(m)' < x[2] /\ x[2] \in Nat
          BY <4>1, <4>2
        <5>2. Spent(m) < x[2] /\ x[2] # Spent(m) + 1
          BY <2>1, <5>1
        <5> QED
          BY <2>3, <4>1, <4>2, <5>2 DEF Left
      <4>3. CASE x[1] \in MsgIds \ {m}
        BY <1>4, <4>1, <4>3 DEF Attempt, Others, Same, Left
      <4> QED
        BY <4>1, <4>2, <4>3
    <3>3. /\ IsFiniteSet(Left(p) \ {x0})
          /\ Cardinality(Left(p) \ {x0}) = Cardinality(Left(p)) - 1
      BY <3>1, FS_RemoveElement
    <3> HIDE DEF x0
    <3>4. IsFiniteSet(Left(p)') /\ Cardinality(Left(p)') <= Cardinality(Left(p)) - 1
      BY <3>2, <3>3, FS_Subset
    <3>5. Cardinality(Left(p)') \in Nat
      BY <3>4, FS_CardinalityType
    <3>6. posts'[p] \in {posts[p], posts[p] + 1} /\ published'[p] = published[p]
      BY <1>4, <2>3 DEF Attempt
    <3> QED
      BY <3>4, <3>5, <3>6 DEF Budget
  <2> QED
    BY <2>2, <2>3
<1>5. ASSUME NEW m \in MsgIds, NEW q \in Payments, Event(m, q) PROVE Budget(p)'
  <2>1. CASE q # p
    <3>1. Left(p)' = Left(p)
      BY <1>5, <2>1 DEF Event, Others, Same, Left, NoMessage
    <3>2. posts'[p] = posts[p] /\ published'[p] = published[p]
      BY <1>5, <2>1 DEF Event
    <3> QED
      BY <3>1, <3>2 DEF Budget
  <2>2. CASE q = p
    <3>0. PICK k \in 0..MaxRetries : k = 0
      OBVIOUS
    <3> DEFINE L == {m} \X (k + 1..MaxRetries)
    <3>1. IsFiniteSet(L) /\ Cardinality(L) = MaxRetries - k
      BY AttemptsOfCopy
    <3>2. L \cap Left(p) = {}
      BY <1>5 DEF Event, Left, NoMessage
    <3>3. Left(p)' = L \cup Left(p)
      BY <1>5, <2>2, <3>0 DEF Event, Others, Same, Left, NoMessage
    <3> HIDE DEF L
    <3>4. IsFiniteSet(Left(p)') /\ Cardinality(Left(p)') = MaxRetries + Cardinality(Left(p))
      <4>1. /\ IsFiniteSet(L \cup Left(p))
            /\ Cardinality(L \cup Left(p)) = Cardinality(L) + Cardinality(Left(p))
        BY <3>1, <3>2, Disjoint
      <4> QED
        BY <3>0, <3>1, <3>3, <4>1
    <3>5. posts'[p] = posts[p] /\ published'[p] = published[p] + 1
      BY <1>5, <2>2 DEF Event
    <3>6. MaxRetries * (published[p] + 1) = MaxRetries * published[p] + MaxRetries
      OBVIOUS
    <3>7. posts'[p] + Cardinality(Left(p)') <= MaxRetries * published'[p]
      BY <3>4, <3>5, <3>6
    <3> QED
      BY <3>4, <3>7 DEF Budget
  <2> QED
    BY <2>1, <2>2
<1>6. ASSUME NEW m \in MsgIds, NEW n \in MsgIds, Retry(m, n) PROVE Budget(p)'
  <2>0. posts'[p] = posts[p] /\ published'[p] = published[p]
    BY <1>6 DEF Retry
  <2>1. CASE msgs[m].payment # p
    <3>1. Left(p)' = Left(p)
      BY <1>6, <2>1 DEF Retry, Others, Same, Left, NoMessage
    <3> QED
      BY <2>0, <3>1 DEF Budget
  <2>2. CASE msgs[m].payment = p
    <3>0. PICK k \in 0..MaxRetries : k = Spent(m)
      BY SpentType
    <3> DEFINE L == {m} \X (k + 1..MaxRetries)
               R == {n} \X (k + 1..MaxRetries)
               E == Left(p) \ L
    <3>1. IsFiniteSet(L) /\ Cardinality(L) = MaxRetries - k
      BY AttemptsOfCopy
    <3>2. IsFiniteSet(R) /\ Cardinality(R) = MaxRetries - k
      BY AttemptsOfCopy
    <3>3. IsFiniteSet(E)
      BY FS_Difference
    <3>4. E \cap L = {} /\ E \cup L = Left(p)
      <4>1. L \subseteq Left(p)
        BY <2>2, <3>0 DEF Left
      <4> QED
        BY <4>1
    <3>5. E \cap R = {}
      BY <1>6 DEF Retry, Left, NoMessage
    <3>6. Left(p)' = E \cup R
      <4>1. ASSUME NEW x \in MsgIds \X (1..MaxRetries)
            PROVE  x \in Left(p)' <=> x \in E \cup R
        <5>0. x = <<x[1], x[2]>> /\ x[1] \in MsgIds /\ x[2] \in 1..MaxRetries
          OBVIOUS
        <5>1. CASE x[1] = m
          <6>1. x \notin Left(p)'
            BY <1>6, <5>0, <5>1 DEF Retry, Left
          <6>2. x \notin R
            BY <1>6, <5>0, <5>1 DEF Retry
          <6>3. x \in Left(p) => x \in L
            BY <3>0, <5>0, <5>1 DEF Left
          <6> QED
            BY <6>1, <6>2, <6>3
        <5>2. CASE x[1] = n
          <6>1. x \in Left(p)' <=> k < x[2]
            BY <1>6, <2>2, <3>0, <5>0, <5>2 DEF Retry, Left
          <6>2. x \in R <=> k < x[2]
            BY <5>0, <5>2
          <6>3. x \notin Left(p)
            BY <1>6, <5>0, <5>2 DEF Retry, Left, NoMessage
          <6> QED
            BY <6>1, <6>2, <6>3
        <5>3. CASE x[1] \in MsgIds \ {m, n}
          <6>1. x \in Left(p)' <=> x \in Left(p)
            BY <1>6, <5>3 DEF Retry, Others, Same, Left
          <6>2. x \notin L /\ x \notin R
            BY <5>3
          <6> QED
            BY <6>1, <6>2
        <5> QED
          BY <5>0, <5>1, <5>2, <5>3
      <4>2. Left(p)' \subseteq MsgIds \X (1..MaxRetries) /\ E \cup R \subseteq MsgIds \X (1..MaxRetries)
        BY DEF Left
      <4> HIDE DEF L, R, E
      <4> QED
        BY <4>1, <4>2
    <3> HIDE DEF L, R, E
    <3>7. /\ Cardinality(Left(p)) = Cardinality(E) + Cardinality(L)
          /\ IsFiniteSet(E \cup R)
          /\ Cardinality(E \cup R) = Cardinality(E) + Cardinality(R)
      BY <3>1, <3>2, <3>3, <3>4, <3>5, Disjoint
    <3>8. IsFiniteSet(Left(p)') /\ Cardinality(Left(p)') = Cardinality(Left(p))
      BY <3>1, <3>2, <3>6, <3>7
    <3> QED
      BY <2>0, <3>8 DEF Budget
  <2> QED
    BY <2>1, <2>2
<1> QED
  BY <1>2, <1>3, <1>4, <1>5, <1>6

(* The copy of an event published once is followed through every step.     *)
LEMMA SingleStep ==
  ASSUME Typed, Held, NEW p \in Payments, Single(p),
         \/ Idling
         \/ \E m \in MsgIds : Advance(m) \/ Attempt(m)
         \/ \E m \in MsgIds, q \in Payments : Event(m, q)
         \/ \E m, n \in MsgIds : Retry(m, n),
         InTime(p)' => InTime(p)
  PROVE  Single(p)'
<1>1. /\ posts \in [Payments -> Nat] /\ published \in [Payments -> Nat] /\ MaxRetries \in Nat
      /\ None \notin Payments /\ published[p] <= MaxPublish
      /\ MaxPublish \in Nat /\ MaxPosts \in Nat
  BY ConsumerConstants, NoneIsFresh DEF Typed, TypeOK, Held
<1> USE <1>1
<1>2. CASE Idling
  BY <1>2 DEF Idling, Others, Same, Copy, Single
<1>3. ASSUME NEW m \in MsgIds, Advance(m) PROVE Single(p)'
  <2>1. posts'[p] = posts[p] /\ published'[p] = published[p]
    BY <1>3 DEF Advance
  <2>2. ASSUME NEW n \in MsgIds, Copy(n, p)' PROVE Copy(n, p)
    BY <1>3, <2>2 DEF Advance, Others, Same, Copy
  <2>3. ASSUME NEW n \in MsgIds, Copy(n, p)', published[p] <= 1,
               InTime(p)', InvalidUrl \notin HttpCodes
        PROVE  Status(n)' # "lost" /\ (Status(n)' = "open" => posts[p] = Spent(n)')
    <3>0. InTime(p)
      BY <2>3
    <3>1. /\ Copy(n, p) /\ Status(n) # "lost"
          /\ Status(n) = "open" => posts[p] = Spent(n)
          /\ \A k \in MsgIds : Copy(k, p) => k = n
      BY <2>2, <2>3, <3>0 DEF Single
    <3>2. CASE n # m
      BY <1>3, <3>1, <3>2 DEF Advance, Others, Same
    <3>3. CASE n = m
      <4>1. Status(m)' # "lost"
        BY <1>3, <3>0, <3>1, <3>3 DEF Advance, Copy
      <4>2. Status(m)' = "open" => Spent(m)' = Spent(m) /\ Status(m) = "open"
        BY <1>3, <3>1, <3>3 DEF Advance
      <4> QED
        BY <3>1, <3>3, <4>1, <4>2
    <3> QED
      BY <3>2, <3>3
  <2> QED
    BY <2>1, <2>2, <2>3 DEF Single
<1>4. ASSUME NEW m \in MsgIds, Attempt(m) PROVE Single(p)'
  <2>1. published'[p] = published[p]
    BY <1>4 DEF Attempt
  <2>2. ASSUME NEW n \in MsgIds, Copy(n, p)' PROVE Copy(n, p)
    BY <1>4, <2>2 DEF Attempt, Others, Same, Copy
  <2>3. CASE msgs[m].payment # p
    <3>1. posts'[p] = posts[p] /\ ~Copy(m, p)
      BY <1>4, <2>3 DEF Attempt, Copy
    <3> QED
      BY <1>4, <2>1, <2>2, <3>1 DEF Attempt, Others, Same, Single
  <2>4. CASE msgs[m].payment = p
    <3> SUFFICES ASSUME published[p] <= 1 PROVE Single(p)'
      BY <2>1 DEF Single
    <3>1. /\ Copy(m, p) /\ published[p] = 1
          /\ \A n \in MsgIds : Copy(n, p) => n = m
          /\ InTime(p) /\ InvalidUrl \notin HttpCodes => posts[p] = Spent(m)
      BY <1>4, <2>4 DEF Attempt, Copy, Single
    <3>2. ASSUME InTime(p)', InvalidUrl \notin HttpCodes
          PROVE  Status(m)' # "lost" /\ (Status(m)' = "open" => posts'[p] = Spent(m)')
      <4>1. posts[p] = Spent(m) /\ Spent(m) < MaxRetries
        BY <1>4, <3>1, <3>2 DEF Attempt
      <4>2. MaxRetries < MaxPosts
        <5>1. MaxPublish >= 1
          BY <3>1
        <5>2. MaxRetries * MaxPublish >= MaxRetries
          BY <5>1
        <5> QED
          BY <5>1, <5>2, PostsAreSeen
      <4>3. posts'[p] = posts[p] + 1
        BY <1>4, <2>4, <4>1, <4>2 DEF Attempt
      <4> QED
        BY <1>4, <3>2, <4>1, <4>3 DEF Attempt
    <3> QED
      BY <2>1, <2>2, <3>1, <3>2 DEF Single
  <2> QED
    BY <2>3, <2>4
<1>5. ASSUME NEW m \in MsgIds, NEW q \in Payments, Event(m, q) PROVE Single(p)'
  <2>1. posts'[p] = posts[p] /\ ~Copy(m, p) /\ msgs'[m].payment = q
    BY <1>5 DEF Event, Copy, NoMessage
  <2>2. \A n \in MsgIds \ {m} : Copy(n, p)' <=> Copy(n, p)
    BY <1>5 DEF Event, Others, Same, Copy
  <2>3. CASE q # p
    <3>1. published'[p] = published[p] /\ ~Copy(m, p)'
      BY <1>5, <2>1, <2>3 DEF Event, Copy
    <3> QED
      BY <1>5, <2>1, <2>2, <3>1 DEF Event, Others, Same, Single
  <2>4. CASE q = p
    <3> SUFFICES ASSUME published'[p] <= 1 PROVE Single(p)'
      BY DEF Single
    <3>1. published[p] = 0 /\ published'[p] = 1
      BY <1>5, <2>4 DEF Event
    <3>2. posts[p] = 0 /\ \A n \in MsgIds : ~Copy(n, p)
      BY <3>1 DEF Single
    <3>3. \A n \in MsgIds : Copy(n, p)' => n = m
      BY <2>2, <3>2
    <3>4. Spent(m)' = 0 /\ Status(m)' = "open"
      BY <1>5 DEF Event
    <3> QED
      BY <2>1, <3>1, <3>2, <3>3, <3>4 DEF Single
  <2> QED
    BY <2>3, <2>4
<1>6. ASSUME NEW m \in MsgIds, NEW n \in MsgIds, Retry(m, n) PROVE Single(p)'
  <2>1. posts'[p] = posts[p] /\ published'[p] = published[p]
    BY <1>6 DEF Retry
  <2>2. \A k \in MsgIds \ {m, n} : Same(k) /\ (Copy(k, p)' <=> Copy(k, p))
    BY <1>6 DEF Retry, Others, Same, Copy
  <2>3. ~Copy(m, p)' /\ (Copy(n, p)' <=> Copy(m, p)) /\ ~Copy(n, p)
    BY <1>6 DEF Retry, Copy, NoMessage
  <2>4. Spent(n)' = Spent(m) /\ Status(m) = "open" /\ Status(n)' = "open"
    BY <1>6 DEF Retry
  <2>5. ASSUME published[p] <= 1, NEW k \in MsgIds, Copy(k, p)'
        PROVE  /\ published[p] = 1
               /\ InTime(p)' /\ InvalidUrl \notin HttpCodes =>
                    Status(k)' # "lost" /\ (Status(k)' = "open" => posts[p] = Spent(k)')
               /\ \A j \in MsgIds : Copy(j, p)' => j = k
    <3>1. CASE k = n
      BY <2>2, <2>3, <2>4, <2>5, <3>1 DEF Single
    <3>2. CASE k \in MsgIds \ {m, n}
      BY <2>2, <2>3, <2>5, <3>2 DEF Single, Same
    <3> QED
      BY <2>3, <2>5, <3>1, <3>2
  <2> QED
    BY <2>1, <2>5 DEF Single
<1> QED
  BY <1>2, <1>3, <1>4, <1>5, <1>6

(* Nothing published, nothing posted, nothing left.                        *)
LEMMA CalmInit == Init => CalmInv
<1> SUFFICES ASSUME Init PROVE CalmInv
  OBVIOUS
<1>1. Held
  BY ConsumerConstants DEF Init, LockInit, BrokerInit, NoMessage, Held, HeldTask, Idle, At, Busy
<1>2. \A m \in MsgIds : msgs[m] = NoMessage
  BY DEF Init, BrokerInit
<1>3. ASSUME NEW p \in Payments PROVE Budget(p) /\ Single(p)
  <2>1. posts[p] = 0 /\ published[p] = 0 /\ MaxRetries \in Nat
    BY ConsumerConstants DEF Init
  <2>2. Left(p) = {} /\ \A m \in MsgIds : ~Copy(m, p)
    BY <1>2, NoneIsFresh DEF Left, Copy, NoMessage
  <2>3. IsFiniteSet(Left(p)) /\ Cardinality(Left(p)) = 0
    BY <2>2, FS_EmptySet
  <2> QED
    BY <2>1, <2>2, <2>3 DEF Budget, Single
<1> QED
  BY <1>1, <1>3 DEF CalmInv

(* What has expired stays counted.                                         *)
LEMMA Expirations ==
  ASSUME Typed, [Next]_vars, NEW p \in Payments
  PROVE  overtaken'[p] >= overtaken[p]
<1>1. overtaken \in [Payments -> Nat]
  BY DEF Typed, TypeOK
<1>2. CASE Quiet
  BY <1>2 DEF Quiet
<1>3. CASE Loud
  <2>1. overtaken' = overtaken
    BY <1>3 DEF Loud, Crash, Load, Charge, RecordOutcome, PostWebhook, StampDelivered,
    RecordFails, StampFails, history
  <2> QED
    BY <1>1, <2>1
<1> QED
  BY <1>2, <1>3, QuietOrLoud

(* Every step keeps CalmInv.                                               *)
LEMMA CalmStep ==
  ASSUME MaxRetries > 0
  PROVE  TimelyInv /\ DeliveryInv /\ CalmInv /\ [Next]_vars => CalmInv'
<1> SUFFICES ASSUME TimelyInv, DeliveryInv, CalmInv, [Next]_vars, faults' = 0
             PROVE  Held' /\ \A p \in Payments : Budget(p)' /\ Single(p)'
  BY DEF CalmInv
<1>1. faults = 0 /\ CalmNext /\ Typed
  BY CalmSteps DEF TimelyInv
<1>2. Held /\ \A p \in Payments : Budget(p) /\ Single(p)
  BY <1>1 DEF CalmInv
<1>3. HeldMessages' /\ HeldLocks'
  BY <1>1, <1>2, HeldMessagesStep, HeldLocksStep
<1>4. Held'
  BY <1>3 DEF Held, HeldMessages, HeldLocks
<1>5. \/ Idling
      \/ \E m \in MsgIds : Advance(m) \/ Attempt(m)
      \/ \E m \in MsgIds, p \in Payments : Event(m, p)
      \/ \E m, n \in MsgIds : Retry(m, n)
  BY <1>1, <1>2, StepKinds
<1>6. \A p \in Payments : InTime(p)' => InTime(p)
  BY <1>1, Expirations DEF InTime, Typed, TypeOK
<1>7. \A p \in Payments : Budget(p)' /\ Single(p)'
  BY <1>1, <1>2, <1>5, <1>6, BudgetStep, SingleStep
<1> QED
  BY <1>4, <1>7

(* Without faults no event costs more webhook requests than MaxRetries, and*)
(* one that ends in the DLQ although its lock held has cost exactly that   *)
(* many.  With a limit of 0 the first attempt would be made all the same.  *)
THEOREM AttemptsCounted ==
  ASSUME MaxRetries > 0
  PROVE  Spec => []AttemptsAccounted
<1>1. Typed /\ CalmInv => AttemptsAccounted
  <2> SUFFICES ASSUME Typed, CalmInv, faults = 0 PROVE
        /\ \A p \in Payments : posts[p] <= MaxRetries * published[p]
        /\ InvalidUrl \notin HttpCodes =>
             \A m \in MsgIds :
               LET p == msgs[m].payment IN
               msgs[m].place = "dlq" /\ InTime(p) /\ published[p] = 1 => posts[p] = MaxRetries
    BY DEF AttemptsAccounted
  <2>1. ASSUME NEW p \in Payments PROVE posts[p] <= MaxRetries * published[p]
    <3>1. /\ posts[p] \in Nat /\ published[p] \in Nat /\ MaxRetries \in Nat
          /\ IsFiniteSet(Left(p)) /\ posts[p] + Cardinality(Left(p)) <= MaxRetries * published[p]
      BY ConsumerConstants DEF Typed, TypeOK, CalmInv, Budget
    <3>2. Cardinality(Left(p)) \in Nat /\ MaxRetries * published[p] \in Nat
      BY <3>1, FS_CardinalityType
    <3> QED
      BY <3>1, <3>2
  <2>2. ASSUME InvalidUrl \notin HttpCodes, NEW m \in MsgIds, msgs[m].place = "dlq",
               InTime(msgs[m].payment), published[msgs[m].payment] = 1
        PROVE  posts[msgs[m].payment] = MaxRetries
    <3>1. PICK p \in Payments : p = msgs[m].payment
      BY <2>2 DEF Typed, MsgRef
    <3>2. Copy(m, p) /\ Status(m) = "open" /\ Spent(m) = MaxRetries
      BY <2>2, <3>1 DEF Copy, Status, Spent
    <3> QED
      BY <2>2, <3>1, <3>2 DEF CalmInv, Single
  <2> QED
    BY <2>1, <2>2
<1>2. Init => DeliveryInv
  BY DEF Init, BrokerInit, NoMessage, DeliveryInv
<1>3. TimelyInv => Typed
  BY DEF TimelyInv
<1>4. Spec => [](TimelyInv /\ DeliveryInv /\ CalmInv)
  <2>1. Spec => []TimelyInv
    BY Timely
  <2> QED
    BY <1>2, <1>3, <2>1, CalmInit, CalmStep, DeliveryStep, PTL DEF Spec
<1> QED
  BY <1>1, <1>3, <1>4, PTL
=============================================================================
