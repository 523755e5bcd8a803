----------------------- MODULE CreatePayment_proofs -------------------------
(***************************************************************************)
(* Proofs about CreatePayment, for any number of requests, keys and bodies *)
(* and with locks that may expire under their holders: what a client told  *)
(* 202 was given stays true because of the unique index and of the one     *)
(* transaction, not because of the Redis lock, which no step of the        *)
(* invariant mentions beyond its type.                                     *)
(***************************************************************************)
EXTENDS CreatePayment, TLAPS

Ended == {"unlock", "done", "dead"}
Writing == {"event", "commit"}

(* A request that has arrived has a key and a body, and one that holds an  *)
(* uncommitted row is alone with its key, for which nothing is committed.  *)
Sound(r) ==
  /\ req[r].pc # "new" => req[r].key \in Keys /\ req[r].body \in Bodies
  /\ req[r].pc \in Writing =>
       /\ rows[req[r].key] = NoRow
       /\ \A s \in Requests \ {r} : req[s].pc \in Writing => req[s].key # req[r].key
  /\ req[r].code = 202 =>
       /\ req[r].pc \in Ended
       /\ rows[req[r].key] = [payment |-> req[r].payment, body |-> req[r].body]

(* A committed row belongs to a request that went through its COMMIT.      *)
Owned(k) ==
  rows[k] # NoRow =>
    /\ rows[k].payment \in Requests
    /\ req[rows[k].payment].key = k
    /\ req[rows[k].payment].pc \in Ended

Inv ==
  /\ TypeOK
  /\ OneEventPerPayment
  /\ \A r \in Requests : Sound(r)
  /\ \A k \in Keys : Owned(k)

-----------------------------------------------------------------------------
(* The constants as the provers need them.                                  *)
LEMMA Constants ==
  /\ NoPayment \notin Requests /\ NoPayment \notin Keys /\ NoPayment \notin Bodies
  /\ LockKeys = Keys /\ Holders = Requests /\ MaxFaults \in Nat
BY CreateConstants

(* The invariant holds initially.                                          *)
LEMMA InitInv == Init => Inv
<1> SUFFICES ASSUME Init PROVE Inv
  OBVIOUS
<1>1. NewRequest \in Request
  BY DEF NewRequest, Request, Open
<1>2. lock \in [LockKeys -> Holders \cup {Free, Orphan}]
  BY DEF Init, LockInit
<1>3. rows \in [Keys -> [payment : Requests \cup {NoPayment}, body : Bodies \cup {NoPayment}]]
  BY DEF Init, NoRow
<1>4. events \in [Requests -> Nat] /\ faults \in 0..MaxFaults
  BY Constants DEF Init
<1>5. req \in [Requests -> Request]
  BY <1>1 DEF Init
<1>6. TypeOK
  BY <1>2, <1>3, <1>4, <1>5 DEF TypeOK, LockTypeOK
<1>7. OneEventPerPayment
  <2> SUFFICES ASSUME NEW r \in Requests
               PROVE  events[r] = IF \E k \in Keys : rows[k].payment = r THEN 1 ELSE 0
    BY DEF OneEventPerPayment
  <2>1. \A k \in Keys : rows[k].payment # r
    BY Constants DEF Init, NoRow
  <2> QED
    BY <2>1 DEF Init
<1>8. \A r \in Requests : Sound(r)
  BY DEF Init, NewRequest, Sound, Writing
<1>9. \A k \in Keys : Owned(k)
  BY DEF Init, Owned
<1> QED
  BY <1>6, <1>7, <1>8, <1>9 DEF Inv

(* A step of one request that commits nothing.                             *)
LEMMA RequestStep ==
  ASSUME Inv, NEW r \in Requests,
         UNCHANGED <<rows, events>>,
         LockTypeOK', faults' \in 0..MaxFaults,
         req' \in [Requests -> Request],
         \A s \in Requests \ {r} : req'[s] = req[s],
         req[r].pc # "new" => req'[r].key = req[r].key,
         req[r].pc \in Ended => req'[r].pc \in Ended,
         Sound(r)'
  PROVE  Inv'
<1>1. TypeOK'
  BY DEF Inv, TypeOK
<1>2. OneEventPerPayment'
  BY DEF Inv, OneEventPerPayment
<1>3. ASSUME NEW s \in Requests \ {r} PROVE Sound(s)'
  <2>1. Sound(s) /\ req'[s] = req[s] /\ rows' = rows
    BY DEF Inv
  <2>2. req[s].pc \in Writing =>
          \A t \in Requests \ {s} : req'[t].pc \in Writing => req'[t].key # req[s].key
    BY <2>1 DEF Sound
  <2> QED
    BY <2>1, <2>2 DEF Sound
<1>4. ASSUME NEW k \in Keys PROVE Owned(k)'
  BY DEF Inv, Owned, Ended
<1> QED
  BY <1>1, <1>2, <1>3, <1>4 DEF Inv

(* What Inv says of one request.                                            *)
LEMMA Typing ==
  ASSUME Inv, NEW r \in Requests
  PROVE  /\ req \in [Requests -> Request] /\ req[r] \in Request
         /\ rows \in [Keys -> [payment : Requests \cup {NoPayment}, body : Bodies \cup {NoPayment}]]
         /\ lock \in [Keys -> Requests \cup {Free, Orphan}]
         /\ events \in [Requests -> Nat] /\ faults \in 0..MaxFaults
         /\ Sound(r)
         /\ req[r].pc # "new" => req[r].key \in Keys /\ req[r].body \in Bodies
BY Constants DEF Inv, TypeOK, LockTypeOK, Sound

(* What the lock operators do to lock's type.                              *)
LEMMA LockTyping ==
  ASSUME Inv, NEW r \in Requests
  PROVE  /\ LockTypeOK
         /\ lock' = lock => LockTypeOK'
         /\ \A k \in Keys : lock' = Released(k, r) => LockTypeOK'
         /\ \A k \in Keys : \A v \in {Free, Orphan, r} : lock' = [lock EXCEPT ![k] = v] => LockTypeOK'
         /\ lock' = Abandoned(Requests) => LockTypeOK'
BY Typing, Constants DEF Released, Abandoned, LockTypeOK

(* Goto keeps a request's key, body and result.                            *)
LEMMA GotoTyping ==
  ASSUME Inv, NEW r \in Requests,
         NEW pc \in Open \cup {"new", "lock", "unlock", "done", "dead"}, Goto(r, pc)
  PROVE  /\ req' \in [Requests -> Request]
         /\ \A s \in Requests \ {r} : req'[s] = req[s]
         /\ req'[r].pc = pc /\ req'[r].key = req[r].key /\ req'[r].body = req[r].body
         /\ req'[r].code = req[r].code /\ req'[r].payment = req[r].payment
<1>1. req' = [req EXCEPT ![r] = [req[r] EXCEPT !.pc = pc]]
  BY Typing DEF Goto
<1>2. [req[r] EXCEPT !.pc = pc] \in Request
  BY Typing DEF Request
<1>3. req'[r] = [req[r] EXCEPT !.pc = pc]
  BY <1>1, Typing
<1> QED
  BY <1>1, <1>2, <1>3, Typing DEF Request

(* What Leave and Fail do.                                                 *)
Ends(r, pc, code, p) ==
  req' = [req EXCEPT ![r] = [@ EXCEPT !.pc = pc, !.code = code, !.payment = p]]

(* They keep the request's key and body.                                   *)
LEMMA EndTyping ==
  ASSUME Inv, NEW r \in Requests, NEW code \in {202, 409, 500},
         NEW pc \in {"unlock", "done"},
         NEW p \in Requests \cup {NoPayment},
         Ends(r, pc, code, p)
  PROVE  /\ req' \in [Requests -> Request]
         /\ \A s \in Requests \ {r} : req'[s] = req[s]
         /\ req'[r].pc = pc /\ req'[r].key = req[r].key /\ req'[r].body = req[r].body
         /\ req'[r].code = code /\ req'[r].payment = p
<1> DEFINE q == [pc |-> pc, key |-> req[r].key, body |-> req[r].body,
                 code |-> code, payment |-> p]
<1>0. req[r] \in Request /\ req \in [Requests -> Request]
  BY Typing
<1>1. [req[r] EXCEPT !.pc = pc, !.code = code, !.payment = p] = q
  <2> DEFINE y == [req[r] EXCEPT !.pc = pc, !.code = code, !.payment = p]
  <2>1. y = [req[r] EXCEPT !.pc = pc, !.code = code, !.payment = p]
    OBVIOUS
  <2> HIDE DEF y
  <2>2. y = [pc |-> pc, key |-> req[r].key, body |-> req[r].body, code |-> code, payment |-> p]
    BY <1>0, <2>1 DEF Request
  <2> QED
    BY <2>1, <2>2
<1>2. /\ pc \in Open \cup {"new", "lock", "unlock", "done", "dead"}
      /\ code \in {0, 202, 409, 500}
      /\ req[r].key \in Keys \cup {NoPayment} /\ req[r].body \in Bodies \cup {NoPayment}
  BY <1>0 DEF Request
<1>3. q \in Request
  BY <1>2 DEF Request
<1>4. /\ q.pc = pc /\ q.code = code /\ q.payment = p
      /\ q.key = req[r].key /\ q.body = req[r].body
  OBVIOUS
<1>5. req' = [req EXCEPT ![r] = q]
  BY <1>1 DEF Ends
<1> HIDE DEF q
<1>6. req'[r] = q
  BY <1>0, <1>5
<1> QED
  BY <1>0, <1>3, <1>4, <1>5, <1>6

-----------------------------------------------------------------------------
(* The request proceeds with pc, which is not one of a writer.             *)
LEMMA QuietStep ==
  ASSUME Inv, NEW r \in Requests, req[r].pc \notin {"new"},
         NEW pc \in {"select", "insert", "unlock", "done"}, Goto(r, pc),
         UNCHANGED <<rows, events, faults>>, LockTypeOK',
         req[r].pc \in Ended => pc \in Ended,
         req[r].code = 202 => pc \in Ended
  PROVE  Inv'
<1>1. /\ req' \in [Requests -> Request]
      /\ \A s \in Requests \ {r} : req'[s] = req[s]
      /\ req'[r].pc = pc /\ req'[r].key = req[r].key /\ req'[r].body = req[r].body
      /\ req'[r].code = req[r].code /\ req'[r].payment = req[r].payment
  BY GotoTyping DEF Open
<1>2. Sound(r) /\ rows' = rows
  BY Typing
<1>3. Sound(r)'
  BY <1>1, <1>2 DEF Sound, Writing, Ended
<1>4. faults' \in 0..MaxFaults
  BY Typing
<1> QED
  BY RequestStep, <1>1, <1>3, <1>4

(* The request leaves with an error, or with the payment its key has.      *)
LEMMA EndStep ==
  ASSUME Inv, NEW r \in Requests, req[r].pc # "new",
         NEW code \in {202, 409, 500}, NEW pc \in {"unlock", "done"},
         NEW p \in Requests \cup {NoPayment},
         Ends(r, pc, code, p),
         UNCHANGED <<rows, events>>, LockTypeOK', faults' \in 0..MaxFaults,
         code = 202 => rows[req[r].key] = [payment |-> p, body |-> req[r].body]
  PROVE  Inv'
<1>1. /\ req' \in [Requests -> Request]
      /\ \A s \in Requests \ {r} : req'[s] = req[s]
      /\ req'[r].pc = pc /\ req'[r].key = req[r].key /\ req'[r].body = req[r].body
      /\ req'[r].code = code /\ req'[r].payment = p
  BY EndTyping
<1>2. Sound(r) /\ rows' = rows
  BY Typing
<1>3. Sound(r)'
  BY <1>1, <1>2 DEF Sound, Writing, Ended
<1>4. req'[r].pc \in Ended
  BY <1>1 DEF Ended
<1> QED
  BY RequestStep, <1>1, <1>3, <1>4

(* A writer's row is invisible, and no one else writes under its key.      *)
LEMMA WriterStep ==
  ASSUME Inv, NEW r \in Requests, NEW pc \in Writing, Goto(r, pc),
         UNCHANGED <<lock, rows, events, faults>>,
         req[r].pc \in {"insert", "event"},
         req[r].pc = "insert" => Uncommitted(req[r].key) = {} /\ rows[req[r].key] = NoRow
  PROVE  Inv'
<1>1. /\ req' \in [Requests -> Request]
      /\ \A s \in Requests \ {r} : req'[s] = req[s]
      /\ req'[r].pc = pc /\ req'[r].key = req[r].key /\ req'[r].body = req[r].body
      /\ req'[r].code = req[r].code /\ req'[r].payment = req[r].payment
  BY GotoTyping DEF Open, Writing
<1>2. Sound(r) /\ rows' = rows /\ LockTypeOK' /\ faults' \in 0..MaxFaults
  BY Typing, LockTyping
<1>3. /\ rows[req[r].key] = NoRow
      /\ \A s \in Requests \ {r} : req[s].pc \in Writing => req[s].key # req[r].key
  <2>1. CASE req[r].pc = "insert"
    BY <2>1 DEF Uncommitted, Writing
  <2>2. CASE req[r].pc = "event"
    BY <1>2, <2>2 DEF Sound, Writing
  <2> QED
    BY <2>1, <2>2
<1>4. req[r].pc # "new" /\ req[r].pc \notin Ended /\ req[r].code # 202
  BY <1>2 DEF Sound, Ended
<1>5. Sound(r)'
  BY <1>1, <1>2, <1>3, <1>4 DEF Sound
<1>6. \A s \in Requests \ {r} : req[s].key = req[r].key => req[s].pc \notin Writing
  BY <1>3
<1>7. ASSUME NEW s \in Requests \ {r} PROVE Sound(s)'
  <2>1. Sound(s) /\ req'[s] = req[s]
    BY <1>1 DEF Inv
  <2>2. req[s].pc \in Writing =>
          \A t \in Requests \ {s} : req'[t].pc \in Writing => req'[t].key # req[s].key
    BY <1>1, <1>6, <2>1 DEF Sound
  <2> QED
    BY <1>2, <2>1, <2>2 DEF Sound
<1>8. TypeOK' /\ OneEventPerPayment'
  BY <1>1, <1>2 DEF Inv, TypeOK, OneEventPerPayment
<1>9. ASSUME NEW k \in Keys PROVE Owned(k)'
  BY <1>1, <1>2, <1>4 DEF Inv, Owned
<1> QED
  BY <1>5, <1>7, <1>8, <1>9 DEF Inv

(* The payment and its event become visible, and the client learns of it   *)
(* or gets an error.                                                       *)
LEMMA CommitStep ==
  ASSUME Inv, NEW r \in Requests, req[r].pc = "commit", Committed(r),
         NEW code \in {202, 500}, NEW p \in Requests \cup {NoPayment},
         Ends(r, "unlock", code, p), code = 202 => p = r,
         UNCHANGED lock, faults' \in 0..MaxFaults
  PROVE  Inv'
<1> DEFINE K == req[r].key
           row == [payment |-> r, body |-> req[r].body]
<1>1. /\ req' \in [Requests -> Request]
      /\ \A s \in Requests \ {r} : req'[s] = req[s]
      /\ req'[r].pc = "unlock" /\ req'[r].key = K /\ req'[r].body = req[r].body
      /\ req'[r].code = code /\ req'[r].payment = p
  BY EndTyping
<1>2. /\ K \in Keys /\ req[r].body \in Bodies /\ Sound(r) /\ LockTypeOK'
      /\ rows \in [Keys -> [payment : Requests \cup {NoPayment}, body : Bodies \cup {NoPayment}]]
      /\ events \in [Requests -> Nat]
  BY Typing, LockTyping
<1>3. /\ rows[K] = NoRow
      /\ \A s \in Requests \ {r} : req[s].pc \in Writing => req[s].key # K
  BY <1>2 DEF Sound, Writing
<1>4. rows' = [rows EXCEPT ![K] = row] /\ events' = [events EXCEPT ![r] = @ + 1]
  BY DEF Committed
<1>5. row \in [payment : Requests \cup {NoPayment}, body : Bodies \cup {NoPayment}]
  BY <1>2
<1>6. rows'[K] = row /\ \A k \in Keys \ {K} : rows'[k] = rows[k]
  BY <1>2, <1>4
<1>7. events'[r] = events[r] + 1 /\ \A s \in Requests \ {r} : events'[s] = events[s]
  BY <1>2, <1>4
<1>8. row # NoRow /\ row.payment = r /\ row.body = req[r].body /\ NoRow.payment = NoPayment
  BY Constants DEF NoRow
<1>9. TypeOK'
  <2>1. rows' \in [Keys -> [payment : Requests \cup {NoPayment}, body : Bodies \cup {NoPayment}]]
    BY <1>2, <1>4, <1>5
  <2>2. events' \in [Requests -> Nat]
    BY <1>2, <1>4
  <2> QED
    BY <1>1, <1>2, <2>1, <2>2 DEF TypeOK
<1>10. \A k \in Keys : rows[k].payment # r
  BY Constants DEF Inv, Owned, Ended, NoRow
<1>11. OneEventPerPayment'
  <2> SUFFICES ASSUME NEW s \in Requests
               PROVE  events'[s] = IF \E k \in Keys : rows'[k].payment = s THEN 1 ELSE 0
    BY DEF OneEventPerPayment
  <2>1. events[s] = IF \E k \in Keys : rows[k].payment = s THEN 1 ELSE 0
    BY DEF Inv, OneEventPerPayment
  <2> HIDE DEF row
  <2>2. CASE s = r
    BY <1>2, <1>6, <1>7, <1>8, <1>10, <2>1, <2>2
  <2>3. CASE s # r
    <3>1. ASSUME NEW k \in Keys PROVE rows'[k].payment = s <=> rows[k].payment = s
      BY <1>3, <1>6, <1>8, <2>3, Constants
    <3> QED
      BY <1>7, <2>1, <2>3, <3>1
  <2> QED
    BY <2>2, <2>3
<1> HIDE DEF row
<1>12. Sound(r)'
  <2>1. code = 202 => rows'[K] = [payment |-> req'[r].payment, body |-> req'[r].body]
    BY <1>1, <1>6 DEF row
  <2> QED
    BY <1>1, <1>2, <2>1 DEF Sound, Writing, Ended
<1>13. ASSUME NEW s \in Requests \ {r} PROVE Sound(s)'
  <2>1. Sound(s) /\ req'[s] = req[s] /\ req[s] \in Request
    BY <1>1, Typing DEF Inv
  <2>2. ASSUME req[s].code = 202
        PROVE  rows'[req[s].key] = [payment |-> req[s].payment, body |-> req[s].body]
    <3>1. rows[req[s].key] = [payment |-> req[s].payment, body |-> req[s].body]
          /\ req[s].key \in Keys /\ req[s].body \in Bodies
      BY <2>1, <2>2 DEF Sound, Ended
    <3>2. req[s].key # K
      BY <1>3, <3>1, Constants DEF NoRow
    <3> QED
      BY <1>6, <3>1, <3>2
  <2>3. ASSUME req[s].pc \in Writing
        PROVE  /\ rows'[req[s].key] = NoRow
               /\ \A t \in Requests \ {s} : req'[t].pc \in Writing => req'[t].key # req[s].key
    <3>1. req[s].key # K /\ req[s].key \in Keys /\ rows[req[s].key] = NoRow
      BY <1>3, <2>1, <2>3 DEF Sound, Writing
    <3>2. \A t \in Requests \ {s} : req'[t].pc \in Writing => req'[t].key # req[s].key
      BY <1>1, <2>1, <2>3, <3>1 DEF Sound
    <3> QED
      BY <1>6, <3>1, <3>2
  <2> QED
    BY <2>1, <2>2, <2>3 DEF Sound
<1>14. ASSUME NEW k \in Keys PROVE Owned(k)'
  <2>1. CASE k = K
    BY <1>1, <1>6, <1>8, <2>1 DEF Owned, Ended
  <2>2. CASE k # K
    BY <1>1, <1>6, <2>2 DEF Inv, Owned, Ended
  <2> QED
    BY <2>1, <2>2
<1> QED
  BY <1>9, <1>11, <1>12, <1>13, <1>14 DEF Inv

-----------------------------------------------------------------------------
(* A new request breaks nothing.                                            *)
LEMMA ArriveInv ==
  ASSUME Inv, NEW r \in Requests, NEW k \in Keys, NEW b \in Bodies, Arrive(r, k, b)
  PROVE  Inv'
<1> DEFINE q == [req[r] EXCEPT !.pc = "lock", !.key = k, !.body = b]
<1>0. req[r] \in Request /\ req \in [Requests -> Request] /\ req[r].pc = "new" /\ Sound(r)
  BY Typing DEF Arrive, At
<1>1. q \in Request /\ q.pc = "lock" /\ q.key = k /\ q.body = b /\ q.code = req[r].code
  <2>0. q = [req[r] EXCEPT !.pc = "lock", !.key = k, !.body = b]
    OBVIOUS
  <2> HIDE DEF q
  <2>1. q = [pc |-> "lock", key |-> k, body |-> b, code |-> req[r].code, payment |-> req[r].payment]
    BY <1>0, <2>0 DEF Request
  <2>2. req[r].code \in {0, 202, 409, 500} /\ req[r].payment \in Requests \cup {NoPayment}
    BY <1>0 DEF Request
  <2>3. q \in Request
    BY <2>1, <2>2 DEF Request
  <2> QED
    BY <2>1, <2>3
<1>2. req' = [req EXCEPT ![r] = q] /\ UNCHANGED <<lock, rows, events, faults>>
  BY <1>0 DEF Arrive
<1> HIDE DEF q
<1>3. req'[r] = q /\ req' \in [Requests -> Request] /\ \A s \in Requests \ {r} : req'[s] = req[s]
  BY <1>0, <1>1, <1>2
<1>4. Sound(r)'
  BY <1>0, <1>1, <1>3 DEF Sound, Writing, Ended
<1>5. LockTypeOK' /\ faults' \in 0..MaxFaults
  BY <1>2, LockTyping, Typing
<1> QED
  BY RequestStep, <1>0, <1>2, <1>3, <1>4, <1>5 DEF Ended

(* The request gets an error, whatever it was doing.                       *)
LEMMA ErrorStep ==
  ASSUME Inv, NEW r \in Requests, req[r].pc # "new",
         Fail(r) \/ (\E code \in {409, 500} : Leave(r, code, NoPayment)),
         UNCHANGED <<rows, events>>, LockTypeOK', faults' \in 0..MaxFaults
  PROVE  Inv'
<1>1. CASE Fail(r)
  <2>1. Ends(r, "done", 500, NoPayment)
    BY <1>1 DEF Fail, Ends
  <2> QED
    BY <2>1, EndStep
<1>2. ASSUME NEW code \in {409, 500}, Leave(r, code, NoPayment) PROVE Inv'
  <2>1. Ends(r, "unlock", code, NoPayment)
    BY <1>2 DEF Leave, Ends
  <2> QED
    BY <2>1, EndStep
<1> QED
  BY <1>1, <1>2

(* Taking and leaving the Redis lock.                                       *)
LEMMA LockStepsInv ==
  ASSUME Inv, NEW r \in Requests,
         AcquireLock(r) \/ LockTimeout(r) \/ AcquireFails(r) \/ ReleaseLock(r) \/ ReleaseFails(r)
  PROVE  Inv'
<1>0. /\ req[r].pc \in {"lock", "unlock"} /\ UNCHANGED <<rows, events>>
      /\ req[r].key \in Keys /\ Sound(r)
      /\ faults \in 0..MaxFaults /\ MaxFaults \in Nat
  BY Typing, Constants DEF AcquireLock, LockTimeout, AcquireFails, ReleaseLock, ReleaseFails, At
<1>1. CASE AcquireLock(r)
  <2>1. LockTypeOK'
    BY <1>0, <1>1, LockTyping DEF AcquireLock, Acquire
  <2>2. Goto(r, "select") /\ req[r].pc = "lock" /\ UNCHANGED <<rows, events, faults>>
    BY <1>1 DEF AcquireLock, At
  <2>3. req[r].pc \notin Ended /\ req[r].code # 202
    BY <1>0, <2>2 DEF Sound, Ended
  <2> QED
    BY QuietStep, <2>1, <2>2, <2>3
<1>2. CASE LockTimeout(r) \/ AcquireFails(r) \/ ReleaseFails(r)
  <2>1. LockTypeOK'
    BY <1>0, <1>2, LockTyping DEF LockTimeout, AcquireFails, ReleaseFails
  <2>2. Fail(r) /\ faults' \in 0..MaxFaults
    BY <1>0, <1>2 DEF LockTimeout, AcquireFails, ReleaseFails, Fault
  <2> QED
    BY ErrorStep, <1>0, <2>1, <2>2
<1>3. CASE ReleaseLock(r)
  <2>1. LockTypeOK' /\ faults' = faults /\ req[r].pc = "unlock"
    BY <1>0, <1>3, LockTyping DEF ReleaseLock, At
  <2>2. CASE Goto(r, "done")
    BY QuietStep, <1>0, <1>3, <2>1, <2>2 DEF ReleaseLock, Ended
  <2>3. CASE Fail(r)
    BY ErrorStep, <1>0, <2>1, <2>3
  <2> QED
    BY <1>3, <2>2, <2>3 DEF ReleaseLock
<1> QED
  BY <1>1, <1>2, <1>3

(* The statements of the transaction.                                       *)
LEMMA TransactionInv ==
  ASSUME Inv, NEW r \in Requests,
         Select(r) \/ InsertPayment(r) \/ InsertEvent(r) \/ StatementFails(r)
  PROVE  Inv'
<1>0. /\ req[r].pc \in Open \ {"commit"} /\ UNCHANGED <<lock, rows, events>>
      /\ req[r].key \in Keys /\ Sound(r) /\ LockTypeOK'
      /\ faults \in 0..MaxFaults /\ MaxFaults \in Nat
  BY Typing, Constants, LockTyping DEF Select, InsertPayment, InsertEvent, StatementFails, At, Open
<1>1. req[r].pc # "new" /\ req[r].pc \notin Ended /\ req[r].code # 202
  BY <1>0 DEF Sound, Ended, Open
<1>2. CASE Select(r)
  <2> DEFINE row == rows[req[r].key]
  <2>1. req[r].pc = "select" /\ UNCHANGED faults
    BY <1>2 DEF Select, At
  <2>2. CASE Goto(r, "insert")
    BY QuietStep, <1>0, <1>1, <2>1, <2>2
  <2>3. CASE row # NoRow /\ PayloadMatches(row, req[r].body) /\ Leave(r, 202, row.payment)
    <3>1. row.payment \in Requests \cup {NoPayment}
      BY <1>0, Typing
    <3>2. PICK p \in Requests \cup {NoPayment} : p = row.payment
      BY <3>1
    <3>3. row \in [payment : Requests \cup {NoPayment}, body : Bodies \cup {NoPayment}]
      BY <1>0, Typing
    <3>4. row = [payment |-> p, body |-> req[r].body]
      BY <2>3, <3>2, <3>3 DEF PayloadMatches
    <3>5. Ends(r, "unlock", 202, p)
      BY <2>3, <3>2 DEF Leave, Ends
    <3> QED
      BY EndStep, <1>0, <1>1, <2>1, <3>4, <3>5
  <2>4. CASE Leave(r, 409, NoPayment)
    BY ErrorStep, <1>0, <1>1, <2>1, <2>4
  <2> QED
    BY <1>2, <2>2, <2>3, <2>4 DEF Select
<1>3. CASE InsertPayment(r)
  <2>1. req[r].pc = "insert" /\ UNCHANGED faults /\ Uncommitted(req[r].key) = {}
    BY <1>3 DEF InsertPayment, At
  <2>2. CASE rows[req[r].key] = NoRow /\ Goto(r, "event")
    BY WriterStep, <1>0, <2>1, <2>2 DEF Writing
  <2>3. CASE Leave(r, 409, NoPayment)
    BY ErrorStep, <1>0, <1>1, <2>1, <2>3
  <2> QED
    BY <1>3, <2>2, <2>3 DEF InsertPayment
<1>4. CASE InsertEvent(r)
  <2>1. req[r].pc = "event" /\ UNCHANGED faults /\ Goto(r, "commit")
    BY <1>4 DEF InsertEvent, At
  <2> QED
    BY WriterStep, <1>0, <2>1 DEF Writing
<1>5. CASE StatementFails(r)
  <2>1. faults' \in 0..MaxFaults /\ Leave(r, 500, NoPayment)
    BY <1>0, <1>5 DEF StatementFails, Fault
  <2> QED
    BY ErrorStep, <1>0, <1>1, <2>1
<1> QED
  BY <1>2, <1>3, <1>4, <1>5

(* COMMIT, answered or not.                                                 *)
LEMMA CommitInv ==
  ASSUME Inv, NEW r \in Requests, Commit(r) \/ CommitFails(r)
  PROVE  Inv'
<1>0. /\ req[r].pc = "commit" /\ UNCHANGED lock /\ LockTypeOK'
      /\ faults \in 0..MaxFaults /\ MaxFaults \in Nat
  BY Typing, Constants, LockTyping DEF Commit, CommitFails, At
<1>1. CASE Commit(r)
  <2>1. Committed(r) /\ Ends(r, "unlock", 202, r) /\ UNCHANGED faults
    BY <1>1 DEF Commit, Leave, Ends
  <2> QED
    BY CommitStep, <1>0, <2>1
<1>2. CASE CommitFails(r)
  <2>1. faults' \in 0..MaxFaults /\ Leave(r, 500, NoPayment) /\ Ends(r, "unlock", 500, NoPayment)
    BY <1>0, <1>2 DEF CommitFails, Fault, Leave, Ends
  <2>2. CASE Committed(r)
    BY CommitStep, <1>0, <2>1, <2>2
  <2>3. CASE UNCHANGED <<rows, events>>
    BY ErrorStep, <1>0, <2>1, <2>3
  <2> QED
    BY <1>2, <2>2, <2>3 DEF CommitFails
<1> QED
  BY <1>1, <1>2

(* The lock's TTL.                                                          *)
LEMMA LockTtlInv == ASSUME Inv, NEW k \in Keys, LockTtl(k) PROVE Inv'
<1>1. lock' = [lock EXCEPT ![k] = Free] /\ UNCHANGED <<rows, events, req, faults>>
  BY DEF LockTtl, Expire
<1>2. TypeOK'
  BY <1>1, Constants DEF Inv, TypeOK, LockTypeOK
<1>3. OneEventPerPayment' /\ (\A r \in Requests : Sound(r)') /\ (\A x \in Keys : Owned(x)')
  BY <1>1 DEF Inv, OneEventPerPayment, Sound, Owned
<1> QED
  BY <1>2, <1>3 DEF Inv

(* The death of the API process.                                            *)
LEMMA CrashInv == ASSUME Inv, Crash PROVE Inv'
<1>1. /\ req' = [r \in Requests |->
                   IF req[r].pc \in {"new", "done"} THEN req[r] ELSE [req[r] EXCEPT !.pc = "dead"]]
      /\ lock' = Abandoned(Requests) /\ UNCHANGED <<rows, events>>
  BY DEF Crash
<1>2. ASSUME NEW r \in Requests
      PROVE  /\ req[r] \in Request /\ req'[r] \in Request
             /\ req'[r].key = req[r].key /\ req'[r].body = req[r].body
             /\ req'[r].code = req[r].code /\ req'[r].payment = req[r].payment
             /\ req'[r].pc \notin Writing
             /\ req[r].pc # "new" => req'[r].pc \in Ended
             /\ req'[r].pc # "new" => req[r].pc # "new"
  <2>1. req[r] \in Request
    BY DEF Inv, TypeOK
  <2> DEFINE q == [req[r] EXCEPT !.pc = "dead"]
  <2>2. /\ q \in Request /\ q.pc = "dead" /\ q.key = req[r].key /\ q.body = req[r].body
        /\ q.code = req[r].code /\ q.payment = req[r].payment
    BY <2>1 DEF Request
  <2>3. req'[r] = IF req[r].pc \in {"new", "done"} THEN req[r] ELSE q
    BY <1>1
  <2> HIDE DEF q
  <2>4. CASE req[r].pc \in {"new", "done"}
    BY <2>1, <2>3, <2>4 DEF Writing, Ended
  <2>5. CASE req[r].pc \notin {"new", "done"}
    BY <2>1, <2>2, <2>3, <2>5 DEF Writing, Ended
  <2> QED
    BY <2>4, <2>5
<1>3. TypeOK'
  <2>1. req' \in [Requests -> Request]
    BY <1>1, <1>2
  <2>2. LockTypeOK'
    BY <1>1, Constants DEF Inv, TypeOK, LockTypeOK, Abandoned
  <2>3. faults' \in 0..MaxFaults
    BY Constants DEF Inv, TypeOK, Crash, Fault
  <2> QED
    BY <1>1, <2>1, <2>2, <2>3 DEF Inv, TypeOK
<1>4. OneEventPerPayment'
  BY <1>1 DEF Inv, OneEventPerPayment
<1>5. ASSUME NEW r \in Requests PROVE Sound(r)'
  <2>1. Sound(r) /\ rows' = rows
    BY <1>1 DEF Inv
  <2>2. req[r].code = 202 => req[r].pc # "new"
    BY <2>1 DEF Sound, Ended
  <2> QED
    BY <1>2, <2>1, <2>2 DEF Sound
<1>6. ASSUME NEW k \in Keys PROVE Owned(k)'
  <2>1. Owned(k) /\ rows' = rows
    BY <1>1 DEF Inv
  <2>2. \A r \in Requests : req[r].pc \in Ended => req'[r].pc \in Ended /\ req'[r].key = req[r].key
    BY <1>2 DEF Ended
  <2> QED
    BY <2>1, <2>2 DEF Owned
<1> QED
  BY <1>3, <1>4, <1>5, <1>6 DEF Inv

-----------------------------------------------------------------------------
(* The invariant is inductive.                                             *)
LEMMA NextInv == Inv /\ [Next]_vars => Inv'
<1> SUFFICES ASSUME Inv, [Next]_vars PROVE Inv'
  OBVIOUS
<1>1. ASSUME NEW r \in Requests, NEW k \in Keys, NEW b \in Bodies, Arrive(r, k, b) PROVE Inv'
  BY <1>1, ArriveInv
<1>2. ASSUME NEW r \in Requests,
             AcquireLock(r) \/ LockTimeout(r) \/ AcquireFails(r) \/ ReleaseLock(r) \/ ReleaseFails(r)
      PROVE  Inv'
  BY <1>2, LockStepsInv
<1>3. ASSUME NEW r \in Requests,
             Select(r) \/ InsertPayment(r) \/ InsertEvent(r) \/ StatementFails(r)
      PROVE  Inv'
  BY <1>3, TransactionInv
<1>4. ASSUME NEW r \in Requests, Commit(r) \/ CommitFails(r) PROVE Inv'
  BY <1>4, CommitInv
<1>5. ASSUME NEW k \in Keys, LockTtl(k) PROVE Inv'
  BY <1>5, LockTtlInv
<1>6. CASE Crash
  BY <1>6, CrashInv
<1>7. CASE UNCHANGED vars
  BY <1>7 DEF vars, Inv, TypeOK, LockTypeOK, OneEventPerPayment, Sound, Owned
<1> QED
  BY <1>1, <1>2, <1>3, <1>4, <1>5, <1>6, <1>7 DEF Next

(* Inv is an invariant.                                                     *)
LEMMA InvHolds == Spec => []Inv
<1> QED
  BY InitInv, NextInv, PTL DEF Spec

(* Every variable of the endpoint always has its type.                     *)
THEOREM TypeCorrect == Spec => []TypeOK
<1>1. Inv => TypeOK
  BY DEF Inv
<1> QED
  BY <1>1, InvHolds, PTL

(* A 202 names the payment its key is bound to, with the client's own body,*)
(* for ever: even when the lock expired while the request was inside.      *)
THEOREM Durable == Spec => []AcceptedIsDurable
<1>1. Inv => AcceptedIsDurable
  BY DEF Inv, Sound, AcceptedIsDurable
<1> QED
  BY <1>1, InvHolds, PTL

(* A payment and its one outbox event are committed together, through every*)
(* error, rollback and crash.                                              *)
THEOREM EventWithPayment == Spec => []OneEventPerPayment
<1>1. Inv => OneEventPerPayment
  BY DEF Inv
<1> QED
  BY <1>1, InvHolds, PTL

-----------------------------------------------------------------------------
(***************************************************************************)
(* Payment creation implements the idempotent store, as long as no request *)
(* outlasts its lock's TTL: every step of the endpoint is a step of        *)
(* IdempotentStore on the book (the committed rows) and the answers, or    *)
(* leaves both alone.  Here the Redis lock matters: it is what makes a 409 *)
(* tell a different body, because the row a request did not find is still  *)
(* missing when it inserts its own.                                        *)
(***************************************************************************)
Locked == Open \cup {"unlock"}

(* A request under the lock holds it; what it did not find is not there;   *)
(* and the result it leaves with is one the store may give.                *)
Guarded(r) ==
  /\ req[r].pc \in Locked => lock[req[r].key] = r
  /\ req[r].pc = "insert" => rows[req[r].key] = NoRow
  /\ req[r].pc = "unlock" =>
       /\ req[r].code \in {202, 409, 500}
       /\ req[r].code # 202 => req[r].payment = NoPayment
       /\ req[r].code = 409 =>
            rows[req[r].key] # NoRow /\ rows[req[r].key].body # req[r].body

Timely == \A r \in Requests : Guarded(r)

(* The initial states are the store's.                                     *)
LEMMA InitTimely == Init => Timely /\ Promise!Init
<1> SUFFICES ASSUME Init PROVE Timely /\ Promise!Init
  OBVIOUS
<1>1. \A r \in Requests : req[r].pc = "new"
  BY DEF Init, NewRequest
<1>2. Timely
  BY <1>1 DEF Timely, Guarded, Locked, Open
<1>3. \A r \in Requests : Answer(r) = Promise!NoAnswer
  BY <1>1 DEF Answer, Answered, At, Promise!NoAnswer
<1>4. Promise!Init
  BY <1>3 DEF Init, NoRow, Answers, Promise!Init, Promise!NotBooked
<1> QED
  BY <1>2, <1>4

-----------------------------------------------------------------------------
(* A step of r leaves the others' locks alone, and the rows they rely on.  *)
LEMMA OthersGuarded ==
  ASSUME Inv, Timely, NEW r \in Requests,
         \A s \in Requests \ {r} : req'[s] = req[s],
         \A k \in Keys : lock[k] \in Requests \ {r} => lock'[k] = lock[k],
         \A k \in Keys : lock[k] # r => rows'[k] = rows[k],
         Guarded(r)'
  PROVE  Timely'
<1> SUFFICES ASSUME NEW s \in Requests \ {r} PROVE Guarded(s)'
  BY DEF Timely
<1>1. Guarded(s) /\ req'[s] = req[s]
  BY DEF Timely
<1>2. req[s].pc \in Locked => req[s].key \in Keys
  BY Typing DEF Locked, Open
<1>3. req[s].pc \in Locked =>
        /\ lock'[req[s].key] = s
        /\ rows'[req[s].key] = rows[req[s].key]
  BY <1>1, <1>2 DEF Guarded
<1> QED
  BY <1>1, <1>3 DEF Guarded, Locked, Open

(* Releasing a lock of r concerns nobody else.                             *)
LEMMA ReleaseKeeps ==
  ASSUME Inv, NEW r \in Requests, NEW k \in Keys,
         \/ lock' \in {lock, Released(k, r)}
         \/ lock' \in {lock, IF Holds(k, r) THEN [lock EXCEPT ![k] = Orphan] ELSE lock}
  PROVE  \A j \in Keys : lock[j] \in Requests \ {r} => lock'[j] = lock[j]
BY Typing DEF Released, Holds

(* So does taking one that is free.                                        *)
LEMMA AcquireKeeps ==
  ASSUME Inv, NEW r \in Requests, NEW k \in Keys, NEW v \in {r, Orphan},
         lock[k] = Free, lock' = [lock EXCEPT ![k] = v]
  PROVE  /\ \A j \in Keys : lock[j] \in Requests \ {r} => lock'[j] = lock[j]
         /\ lock'[k] = v
<1>1. Free \notin Requests
  BY Constants, LockValues
<1> QED
  BY <1>1, Typing

-----------------------------------------------------------------------------
(* Steps that wait for the lock, take it, or give it back.                 *)
LEMMA LockStepsTimely ==
  ASSUME Inv, Timely, NEW r \in Requests,
         AcquireLock(r) \/ LockTimeout(r) \/ AcquireFails(r) \/ ReleaseLock(r) \/ ReleaseFails(r)
  PROVE  Timely'
<1>0. /\ UNCHANGED rows /\ req[r].key \in Keys /\ req[r].pc \in {"lock", "unlock"}
      /\ lock \in [Keys -> Requests \cup {Free, Orphan}]
  BY Typing DEF AcquireLock, LockTimeout, AcquireFails, ReleaseLock, ReleaseFails, At
<1>1. CASE AcquireLock(r)
  <2>1. /\ lock[req[r].key] = Free /\ lock' = [lock EXCEPT ![req[r].key] = r]
        /\ Goto(r, "select")
    BY <1>1 DEF AcquireLock, Acquire
  <2>2. /\ \A s \in Requests \ {r} : req'[s] = req[s]
        /\ req'[r].pc = "select" /\ req'[r].key = req[r].key
    BY <2>1, GotoTyping DEF Open
  <2>3. /\ \A j \in Keys : lock[j] \in Requests \ {r} => lock'[j] = lock[j]
        /\ lock'[req[r].key] = r
    BY <1>0, <2>1, AcquireKeeps
  <2>4. Guarded(r)'
    BY <2>2, <2>3 DEF Guarded, Locked, Open
  <2> QED
    BY <1>0, <2>2, <2>3, <2>4, OthersGuarded
<1>2. CASE LockTimeout(r) \/ AcquireFails(r) \/ ReleaseLock(r) \/ ReleaseFails(r)
  <2>1. Fail(r) \/ Goto(r, "done")
    BY <1>2 DEF LockTimeout, AcquireFails, ReleaseLock, ReleaseFails
  <2>2. (\A s \in Requests \ {r} : req'[s] = req[s]) /\ req'[r].pc = "done"
    <3>1. CASE Goto(r, "done")
      BY <3>1, GotoTyping
    <3>2. CASE Fail(r)
      <4>1. Ends(r, "done", 500, NoPayment)
        BY <3>2 DEF Fail, Ends
      <4> QED
        BY <4>1, EndTyping
    <3> QED
      BY <2>1, <3>1, <3>2
  <2>3. \A j \in Keys : lock[j] \in Requests \ {r} => lock'[j] = lock[j]
    <3>1. CASE LockTimeout(r)
      BY <3>1 DEF LockTimeout
    <3>2. CASE AcquireFails(r)
      <4>1. lock' = lock \/ (lock[req[r].key] = Free /\ lock' = [lock EXCEPT ![req[r].key] = Orphan])
        BY <3>2 DEF AcquireFails
      <4> QED
        BY <1>0, <4>1, AcquireKeeps
    <3>3. CASE ReleaseLock(r)
      BY <1>0, <3>3, ReleaseKeeps DEF ReleaseLock
    <3>4. CASE ReleaseFails(r)
      <4>1. \/ lock' = Released(req[r].key, r)
            \/ lock' = IF Holds(req[r].key, r) THEN [lock EXCEPT ![req[r].key] = Orphan] ELSE lock
        BY <3>4 DEF ReleaseFails
      <4> QED
        BY <1>0, <4>1, ReleaseKeeps
    <3> QED
      BY <1>2, <3>1, <3>2, <3>3, <3>4
  <2>4. Guarded(r)'
    BY <2>2 DEF Guarded, Locked, Open
  <2> QED
    BY <1>0, <2>2, <2>3, <2>4, OthersGuarded
<1> QED
  BY <1>1, <1>2

(* Steps inside the transaction, under the lock, that write no row.        *)
LEMMA TransactionTimely ==
  ASSUME Inv, Timely, NEW r \in Requests,
         Select(r) \/ InsertPayment(r) \/ InsertEvent(r) \/ StatementFails(r)
  PROVE  Timely'
<1>0. /\ UNCHANGED <<lock, rows>> /\ req[r].key \in Keys
      /\ req[r].pc \in Open /\ lock[req[r].key] = r
      /\ req[r].pc = "insert" => rows[req[r].key] = NoRow
  BY Typing DEF Select, InsertPayment, InsertEvent, StatementFails, At, Open, Locked, Timely, Guarded
<1>1. ASSUME NEW pc \in {"insert", "event", "commit"}, Goto(r, pc),
             pc = "insert" => rows[req[r].key] = NoRow
      PROVE  Timely'
  <2>1. /\ \A s \in Requests \ {r} : req'[s] = req[s]
        /\ req'[r].pc = pc /\ req'[r].key = req[r].key
    BY <1>1, GotoTyping DEF Open
  <2>2. Guarded(r)'
    BY <1>0, <1>1, <2>1 DEF Guarded
  <2> QED
    BY <1>0, <2>1, <2>2, OthersGuarded
<1>2. ASSUME NEW code \in {202, 409, 500}, NEW p \in Requests \cup {NoPayment},
             Ends(r, "unlock", code, p), code # 202 => p = NoPayment,
             code = 409 => rows[req[r].key] # NoRow /\ rows[req[r].key].body # req[r].body
      PROVE  Timely'
  <2>1. /\ \A s \in Requests \ {r} : req'[s] = req[s]
        /\ req'[r].pc = "unlock" /\ req'[r].key = req[r].key /\ req'[r].body = req[r].body
        /\ req'[r].code = code /\ req'[r].payment = p
    BY <1>2, EndTyping
  <2>2. Guarded(r)'
    BY <1>0, <1>2, <2>1 DEF Guarded
  <2> QED
    BY <1>0, <2>1, <2>2, OthersGuarded
<1>3. CASE Select(r)
  <2> DEFINE row == rows[req[r].key]
  <2>1. CASE row = NoRow /\ Goto(r, "insert")
    BY <1>1, <2>1
  <2>2. CASE Leave(r, 202, row.payment)
    <3>1. PICK p \in Requests \cup {NoPayment} : p = row.payment
      BY <1>0, Typing
    <3>2. Ends(r, "unlock", 202, p)
      BY <2>2, <3>1 DEF Leave, Ends
    <3> QED
      BY <1>2, <3>2
  <2>3. CASE row # NoRow /\ ~PayloadMatches(row, req[r].body) /\ Leave(r, 409, NoPayment)
    <3>1. Ends(r, "unlock", 409, NoPayment) /\ row.body # req[r].body
      BY <2>3 DEF Leave, Ends, PayloadMatches
    <3> QED
      BY <1>2, <2>3, <3>1
  <2> QED
    BY <1>3, <2>1, <2>2, <2>3 DEF Select
<1>4. CASE InsertPayment(r)
  <2>1. Goto(r, "event")
    BY <1>0, <1>4 DEF InsertPayment, At
  <2> QED
    BY <1>1, <2>1
<1>5. CASE InsertEvent(r)
  BY <1>1, <1>5 DEF InsertEvent
<1>6. CASE StatementFails(r)
  <2>1. Ends(r, "unlock", 500, NoPayment)
    BY <1>6 DEF StatementFails, Leave, Ends
  <2> QED
    BY <1>2, <2>1
<1> QED
  BY <1>3, <1>4, <1>5, <1>6

(* COMMIT, whether it is answered or not.                                  *)
LEMMA CommitTimely ==
  ASSUME Inv, Timely, NEW r \in Requests, Commit(r) \/ CommitFails(r)
  PROVE  Timely'
<1>0. /\ UNCHANGED lock /\ req[r].key \in Keys /\ lock[req[r].key] = r
      /\ rows \in [Keys -> [payment : Requests \cup {NoPayment}, body : Bodies \cup {NoPayment}]]
  BY Typing DEF Commit, CommitFails, At, Open, Locked, Timely, Guarded
<1>1. \A k \in Keys : lock[k] # r => rows'[k] = rows[k]
  <2>1. Committed(r) \/ UNCHANGED <<rows, events>>
    BY DEF Commit, CommitFails
  <2>2. CASE Committed(r)
    BY <1>0, <2>2 DEF Committed
  <2> QED
    BY <2>1, <2>2
<1>2. \/ Ends(r, "unlock", 202, r)
      \/ Ends(r, "unlock", 500, NoPayment)
  BY DEF Commit, CommitFails, Leave, Ends
<1>3. ASSUME NEW code \in {202, 500}, NEW p \in Requests \cup {NoPayment},
             Ends(r, "unlock", code, p), code # 202 => p = NoPayment
      PROVE  Timely'
  <2>1. /\ \A s \in Requests \ {r} : req'[s] = req[s]
        /\ req'[r].pc = "unlock" /\ req'[r].key = req[r].key
        /\ req'[r].code = code /\ req'[r].payment = p
    BY <1>3, EndTyping
  <2>2. Guarded(r)'
    BY <1>0, <1>3, <2>1 DEF Guarded
  <2> QED
    BY <1>0, <1>1, <2>1, <2>2, OthersGuarded
<1> QED
  BY <1>2, <1>3

(* Only orphaned locks expire.                                             *)
LEMMA LockTtlTimely ==
  ASSUME ~HoldersMayStall, Inv, Timely, NEW k \in Keys, LockTtl(k)
  PROVE  Timely'
<1>1. lock[k] = Orphan /\ lock' = [lock EXCEPT ![k] = Free] /\ UNCHANGED <<rows, req>>
  BY DEF LockTtl, Expire
<1>2. Orphan \notin Requests
  BY Constants, LockValues
<1> SUFFICES ASSUME NEW r \in Requests PROVE Guarded(r)'
  BY DEF Timely
<1>3. Guarded(r) /\ (req[r].pc \in Locked => req[r].key \in Keys)
  BY Typing DEF Timely, Locked, Open
<1>4. req[r].pc \in Locked => lock'[req[r].key] = r
  BY <1>1, <1>2, <1>3, Typing DEF Guarded
<1> QED
  BY <1>1, <1>3, <1>4 DEF Guarded

(* Whoever was inside is dead.                                             *)
LEMMA CrashTimely == ASSUME Inv, Timely, Crash PROVE Timely'
<1> SUFFICES ASSUME NEW r \in Requests PROVE Guarded(r)'
  BY DEF Timely
<1>1. req'[r] = IF req[r].pc \in {"new", "done"} THEN req[r] ELSE [req[r] EXCEPT !.pc = "dead"]
  BY DEF Crash
<1>2. req'[r].pc \in {"new", "done", "dead"}
  BY <1>1, Typing DEF Request
<1> QED
  BY <1>2 DEF Guarded, Locked, Open

(* A new request, when no holder stalls.                                    *)
LEMMA ArriveTimely ==
  ASSUME Inv, Timely, NEW r \in Requests, NEW k \in Keys, NEW b \in Bodies, Arrive(r, k, b)
  PROVE  Timely'
<1>1. /\ \A s \in Requests \ {r} : req'[s] = req[s]
      /\ req'[r].pc = "lock" /\ UNCHANGED <<lock, rows>>
  BY Typing DEF Arrive, Request
<1>2. Guarded(r)'
  BY <1>1 DEF Guarded, Locked, Open
<1> QED
  BY <1>1, <1>2, OthersGuarded

(* Timely is inductive.                                                    *)
LEMMA NextTimely ==
  ASSUME ~HoldersMayStall, Inv, Timely, [Next]_vars
  PROVE  Timely'
<1>1. ASSUME NEW r \in Requests, NEW k \in Keys, NEW b \in Bodies, Arrive(r, k, b) PROVE Timely'
  BY <1>1, ArriveTimely
<1>2. ASSUME NEW r \in Requests,
             AcquireLock(r) \/ LockTimeout(r) \/ AcquireFails(r) \/ ReleaseLock(r) \/ ReleaseFails(r)
      PROVE  Timely'
  BY <1>2, LockStepsTimely
<1>3. ASSUME NEW r \in Requests,
             Select(r) \/ InsertPayment(r) \/ InsertEvent(r) \/ StatementFails(r)
      PROVE  Timely'
  BY <1>3, TransactionTimely
<1>4. ASSUME NEW r \in Requests, Commit(r) \/ CommitFails(r) PROVE Timely'
  BY <1>4, CommitTimely
<1>5. ASSUME NEW k \in Keys, LockTtl(k) PROVE Timely'
  BY <1>5, LockTtlTimely
<1>6. CASE Crash
  BY <1>6, CrashTimely
<1>7. CASE UNCHANGED vars
  BY <1>7 DEF vars, Timely, Guarded
<1> QED
  BY <1>1, <1>2, <1>3, <1>4, <1>5, <1>6, <1>7 DEF Next

-----------------------------------------------------------------------------
(* A step after which no more requests are answered answers none.          *)
LEMMA AnswersKept ==
  ASSUME \A s \in Requests :
           \/ req'[s] = req[s]
           \/ req[s].pc # "done" /\ req'[s].pc # "done"
  PROVE  Answers' = Answers
<1>1. \A s \in Requests : Answer(s)' = Answer(s)
  BY DEF Answer, Answered, At
<1> QED
  BY <1>1 DEF Answers

(* An answered request leaves a record.                                    *)
LEMMA AnswerGiven ==
  ASSUME NEW r \in Requests,
         \A s \in Requests \ {r} : req'[s] = req[s],
         req[r].pc # "done", req'[r].pc = "done"
  PROVE  /\ Answers[r] = Promise!NoAnswer
         /\ Answers' = [Answers EXCEPT ![r] =
              [key |-> req'[r].key, body |-> req'[r].body,
               code |-> req'[r].code, payment |-> req'[r].payment]]
<1> DEFINE given == [key |-> req'[r].key, body |-> req'[r].body,
                     code |-> req'[r].code, payment |-> req'[r].payment]
<1>1. Answer(r) = Promise!NoAnswer
  BY DEF Answer, Answered, At, Promise!NoAnswer
<1>2. Answer(r)' = given
  BY DEF Answer, Answered, At
<1>3. \A s \in Requests \ {r} : Answer(s)' = Answer(s)
  BY DEF Answer, Answered, At
<1> HIDE DEF given
<1>4. Answers' = [Answers EXCEPT ![r] = given]
  BY <1>2, <1>3 DEF Answers
<1> QED
  BY <1>1, <1>4 DEF Answers, given

(* COMMIT is the store's Create.                                           *)
LEMMA CommitCreates ==
  ASSUME Inv, NEW r \in Requests, req[r].pc = "commit", Committed(r), Answers' = Answers
  PROVE  Promise!Next
<1> DEFINE K == req[r].key
           b == req[r].body
<1>1. K \in Keys /\ b \in Bodies /\ rows[K] = NoRow /\ events \in [Requests -> Nat]
  BY Typing DEF Sound, Writing
<1>2. \A k \in Keys : rows[k].payment # r
  BY Constants DEF Inv, Owned, Ended, NoRow
<1>3. events[r] = 0
  BY <1>2 DEF Inv, OneEventPerPayment
<1>4. Answers[r] = Promise!NoAnswer
  BY DEF Answers, Answer, Answered, At, Promise!NoAnswer
<1>5. /\ rows' = [rows EXCEPT ![K] = [payment |-> r, body |-> b]]
      /\ events' = [events EXCEPT ![r] = 1]
  BY <1>1, <1>3 DEF Committed
<1>6. Promise!Create(r, K, b)
  BY <1>1, <1>3, <1>4, <1>5 DEF Promise!Create, Promise!NotBooked, NoRow
<1> QED
  BY <1>1, <1>6 DEF Promise!Next

(* The end of a request is the store's Answer.                             *)
LEMMA EndAnswers ==
  ASSUME Inv, Timely, NEW r \in Requests, req[r].pc \in {"lock", "unlock"},
         UNCHANGED <<rows, events>>,
         Fail(r) \/ (req[r].pc = "unlock" /\ Goto(r, "done"))
  PROVE  Promise!Next
<1> DEFINE K == req[r].key
           b == req[r].body
<1>1. K \in Keys /\ b \in Bodies /\ Sound(r) /\ Guarded(r) /\ req[r] \in Request
  BY Typing DEF Timely
<1>2. PICK code \in {202, 409, 500}, p \in Requests \cup {NoPayment} :
        /\ \A s \in Requests \ {r} : req'[s] = req[s]
        /\ req'[r].pc = "done" /\ req'[r].key = K /\ req'[r].body = b
        /\ req'[r].code = code /\ req'[r].payment = p
        /\ code = 202 => rows[K] = [payment |-> p, body |-> b]
        /\ code = 409 => rows[K] # NoRow /\ rows[K].body # b
        /\ code # 202 => p = NoPayment
  <2>1. CASE Fail(r)
    <3>1. Ends(r, "done", 500, NoPayment)
      BY <2>1 DEF Fail, Ends
    <3> QED
      BY <3>1, EndTyping
  <2>2. CASE req[r].pc = "unlock" /\ Goto(r, "done")
    <3>1. /\ \A s \in Requests \ {r} : req'[s] = req[s]
          /\ req'[r].pc = "done" /\ req'[r].key = K /\ req'[r].body = b
          /\ req'[r].code = req[r].code /\ req'[r].payment = req[r].payment
      BY <2>2, GotoTyping
    <3>2. req[r].code \in {202, 409, 500} /\ req[r].payment \in Requests \cup {NoPayment}
      BY <1>1, <2>2 DEF Guarded, Request
    <3>3. /\ req[r].code = 202 => rows[K] = [payment |-> req[r].payment, body |-> b]
          /\ req[r].code = 409 => rows[K] # NoRow /\ rows[K].body # b
          /\ req[r].code # 202 => req[r].payment = NoPayment
      BY <1>1, <2>2 DEF Guarded, Sound
    <3>4. PICK code \in {202, 409, 500}, p \in Requests \cup {NoPayment} :
            code = req[r].code /\ p = req[r].payment
      BY <3>2
    <3> QED
      BY <3>1, <3>3, <3>4
  <2> QED
    BY <2>1, <2>2
<1>3. code = 202 => p # NoPayment
  <2>1. code = 202 => rows[K] # NoRow /\ rows[K].payment = p
    BY <1>1, <1>2, Constants DEF NoRow
  <2> QED
    BY <1>1, <2>1, Constants DEF Inv, Owned
<1>4. /\ Answers[r] = Promise!NoAnswer
      /\ Answers' = [Answers EXCEPT ![r] = [key |-> K, body |-> b, code |-> code, payment |-> p]]
  BY <1>2, AnswerGiven
<1>5. /\ code = 202 => rows[K] = [payment |-> p, body |-> b] /\ p # NoPayment
      /\ code = 409 => rows[K] # Promise!NotBooked /\ rows[K].body # b
      /\ code # 202 => p = NoPayment
  BY <1>2, <1>3 DEF Promise!NotBooked, NoRow
<1> HIDE DEF K, b
<1>6. Promise!Answer(r, K, b)
  <2> DEFINE Given(c, q) ==
               /\ c = 202 => rows[K] = [payment |-> q, body |-> b] /\ q # NoPayment
               /\ c = 409 => rows[K] # Promise!NotBooked /\ rows[K].body # b
               /\ c # 202 => q = NoPayment
               /\ Answers' = [Answers EXCEPT ![r] =
                                [key |-> K, body |-> b, code |-> c, payment |-> q]]
  <2>1. Given(code, p)
    BY <1>4, <1>5
  <2> HIDE DEF Given
  <2>2. \E c \in {202, 409, 500}, q \in Requests \cup {NoPayment} : Given(c, q)
    BY <2>1
  <2> QED
    BY <1>4, <2>2, Zenon DEF Promise!Answer, Given
<1> QED
  BY <1>1, <1>6 DEF Promise!Next

(* Every step is one of the store's, or invisible to it.                   *)
LEMMA StepRefines ==
  ASSUME Inv, Timely, [Next]_vars
  PROVE  [Promise!Next]_(Promise!vars)
<1> DEFINE Invisible == rows' = rows /\ events' = events /\ Answers' = Answers
<1>0. Invisible => UNCHANGED Promise!vars
  BY DEF Promise!vars
<1>1. ASSUME NEW r \in Requests, NEW k \in Keys, NEW b \in Bodies, Arrive(r, k, b)
      PROVE  Invisible
  <2>1. /\ \A s \in Requests \ {r} : req'[s] = req[s]
        /\ req[r].pc = "new" /\ req'[r].pc = "lock" /\ UNCHANGED <<rows, events>>
    BY <1>1, Typing DEF Arrive, At, Request
  <2> QED
    BY <2>1, AnswersKept
<1>2. ASSUME NEW r \in Requests, AcquireLock(r) PROVE Invisible
  <2>1. /\ \A s \in Requests \ {r} : req'[s] = req[s]
        /\ req[r].pc = "lock" /\ req'[r].pc = "select" /\ UNCHANGED <<rows, events>>
    BY <1>2, GotoTyping DEF AcquireLock, At, Open
  <2> QED
    BY <2>1, AnswersKept
<1>3. ASSUME NEW r \in Requests,
             LockTimeout(r) \/ AcquireFails(r) \/ ReleaseLock(r) \/ ReleaseFails(r)
      PROVE  Promise!Next
  <2>1. /\ req[r].pc \in {"lock", "unlock"} /\ UNCHANGED <<rows, events>>
        /\ Fail(r) \/ (req[r].pc = "unlock" /\ Goto(r, "done"))
    BY <1>3 DEF LockTimeout, AcquireFails, ReleaseLock, ReleaseFails, At
  <2> QED
    BY <2>1, EndAnswers
<1>4. ASSUME NEW r \in Requests, NEW pc \in {"insert", "event", "commit"},
             Goto(r, pc), req[r].pc # "done", UNCHANGED <<rows, events>>
      PROVE  Invisible
  <2>1. (\A s \in Requests \ {r} : req'[s] = req[s]) /\ req'[r].pc = pc
    BY <1>4, GotoTyping DEF Open
  <2> QED
    BY <1>4, <2>1, AnswersKept
<1>5. ASSUME NEW r \in Requests, NEW code \in {202, 409, 500},
             NEW p \in Requests \cup {NoPayment}, Leave(r, code, p), req[r].pc # "done"
      PROVE  Answers' = Answers
  <2>1. Ends(r, "unlock", code, p)
    BY <1>5 DEF Leave, Ends
  <2>2. (\A s \in Requests \ {r} : req'[s] = req[s]) /\ req'[r].pc = "unlock"
    BY <2>1, EndTyping
  <2> QED
    BY <1>5, <2>2, AnswersKept
<1>6. ASSUME NEW r \in Requests,
             Select(r) \/ InsertPayment(r) \/ InsertEvent(r) \/ StatementFails(r)
      PROVE  Invisible
  <2>1. /\ req[r].pc # "done" /\ UNCHANGED <<rows, events>>
        /\ rows[req[r].key].payment \in Requests \cup {NoPayment}
    BY <1>6, Typing DEF Select, InsertPayment, InsertEvent, StatementFails, At, Open
  <2>2. \/ \E pc \in {"insert", "event", "commit"} : Goto(r, pc)
        \/ \E code \in {202, 409, 500}, p \in Requests \cup {NoPayment} : Leave(r, code, p)
    BY <1>6, <2>1 DEF Select, InsertPayment, InsertEvent, StatementFails
  <2> QED
    BY <1>4, <1>5, <2>1, <2>2
<1>7. ASSUME NEW r \in Requests, Commit(r) \/ CommitFails(r)
      PROVE  Promise!Next \/ Invisible
  <2>1. /\ req[r].pc = "commit"
        /\ Committed(r) \/ UNCHANGED <<rows, events>>
        /\ Leave(r, 202, r) \/ Leave(r, 500, NoPayment)
    BY <1>7 DEF Commit, CommitFails, At
  <2>2. Answers' = Answers
    BY <1>5, <2>1
  <2> QED
    BY <2>1, <2>2, CommitCreates
<1>8. ASSUME NEW k \in Keys, LockTtl(k) PROVE Invisible
  BY <1>8, AnswersKept DEF LockTtl
<1>9. CASE Crash
  <2>1. ASSUME NEW s \in Requests
        PROVE  \/ req'[s] = req[s]
               \/ req[s].pc # "done" /\ req'[s].pc # "done"
    <3>1. req'[s] = IF req[s].pc \in {"new", "done"} THEN req[s] ELSE [req[s] EXCEPT !.pc = "dead"]
      BY <1>9 DEF Crash
    <3> QED
      BY <3>1, Typing DEF Request
  <2>2. Invisible
    BY <1>9, <2>1, AnswersKept DEF Crash
  <2> QED
    BY <1>0, <2>2
<1>10. CASE UNCHANGED vars
  <2>1. Invisible
    BY <1>10, AnswersKept DEF vars
  <2> QED
    BY <1>0, <2>1
<1> HIDE DEF Invisible
<1> QED
  BY <1>0, <1>1, <1>2, <1>3, <1>6, <1>7, <1>8, <1>9, <1>10 DEF Next

-----------------------------------------------------------------------------
(* POST /api/v1/payments implements the idempotent store as long as no     *)
(* request outlasts its lock: one payment per key, booked with its event in*)
(* one step, and every answer, 409 included, agrees with the booking.      *)
THEOREM ImplementsStore ==
  ASSUME ~HoldersMayStall
  PROVE  Spec => ImplementsIdempotentStore
<1>1. Init => Timely /\ Promise!Init
  BY InitTimely
<1>2. Inv /\ Timely /\ [Next]_vars => Timely'
  BY NextTimely
<1>3. Inv /\ Timely /\ [Next]_vars => [Promise!Next]_(Promise!vars)
  BY StepRefines
<1> QED
  BY <1>1, <1>2, <1>3, InvHolds, PTL DEF Spec, ImplementsIdempotentStore, Promise!Spec
=============================================================================
