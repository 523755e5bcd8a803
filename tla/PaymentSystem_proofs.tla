------------------------ MODULE PaymentSystem_proofs -------------------------
(***************************************************************************)
(* Proofs about the three services together, for any number of requests,   *)
(* keys, publishers, tasks, messages and faults.                           *)
(*                                                                         *)
(* The consumer's invariants of ProcessPayment_proofs are the system's     *)
(* too: a step of the consumer is one of ProcessPayment, and here it is    *)
(* shown that the API and the publishers keep them.  What is new says how  *)
(* the services' tables agree (ApiInv, OutboxInv) and that nothing exists  *)
(* for a request without a committed payment (Untouched).                  *)
(***************************************************************************)
EXTENDS PaymentSystem, ProcessPayment_proofs

Ended == {"unlock", "done", "dead"}
Writing == {"event", "commit"}

(* A request that has an uncommitted row is alone with its key, for which  *)
(* nothing is committed; one told 202 was given the key's payment.         *)
ApiSound(r) ==
  /\ req[r].pc # "new" => req[r].key \in Keys
  /\ req[r].pc \in Writing =>
       /\ rows[req[r].key] = Api!NoRow
       /\ \A s \in Payments \ {r} : req[s].pc \in Writing => req[s].key # req[r].key
  /\ req[r].code = 202 =>
       /\ req[r].pc \in Ended
       /\ req[r].payment \in Payments
       /\ rows[req[r].key].payment = req[r].payment

(* A committed row belongs to a request that went through its COMMIT.      *)
RowOwned(k) ==
  rows[k] # Api!NoRow =>
    /\ rows[k].payment \in Payments
    /\ req[rows[k].payment].key = k
    /\ req[rows[k].payment].pc \in Ended

ApiTyped ==
  /\ req \in [Payments -> Api!Request]
  /\ rows \in [Keys -> [payment : Payments \cup {None}, body : Bodies \cup {None}]]
  /\ events \in [Payments -> Nat]

ApiInv ==
  /\ ApiTyped
  /\ \A r \in Payments : ApiSound(r)
  /\ \A k \in Keys : RowOwned(k)

(* What an outbox row of e may say, committed or not.                      *)
Told(row, e) ==
  /\ row.status \in {"pending", "published", "failed"}
  /\ row.status = "published" => published[e] > 0

(* A publisher works on events of committed payments only, and has written *)
(* "published" only for what it has published.                             *)
BatchOK(w) ==
  /\ proc[w].todo \subseteq proc[w].batch
  /\ proc[w].pc \in {"published", "refused"} => proc[w].current \in proc[w].batch
  /\ proc[w].pc = "published" => published[proc[w].current] > 0
  /\ \A e \in proc[w].batch : Exists(e) /\ Told(proc[w].written[e], e)

OutboxInv ==
  /\ outbox \in [Payments -> Outbox!Row]
  /\ proc \in [Publishers -> Outbox!Process]
  /\ \A w \in Publishers : BatchOK(w)
  /\ \A e \in Payments : Exists(e) => Told(outbox[e], e)
  /\ \A e \in Payments : outbox[e].status # "absent" => Exists(e)

(* The consumer's table is the API's.                                      *)
TablesAgree == \A r \in Payments : Exists(r) <=> Committed(r)

(* Nothing exists for a request that committed no payment, and no task     *)
(* works on one.                                                           *)
Untouched ==
  /\ \A r \in Payments : ~Exists(r) =>
       /\ published[r] = 0 /\ charges[r] = 0 /\ reported[r] = {}
       /\ \A m \in MsgIds : msgs[m].payment # r
  /\ \A w \in Workers : Busy(w) => Exists(task[w].payment)

SystemInv ==
  /\ Typed /\ TaskInv /\ DeliveryInv /\ NoSilentLoss
  /\ ApiInv /\ OutboxInv /\ TablesAgree /\ Untouched

ChargedSystem == SystemInv /\ LockInv /\ ChargeInv

-----------------------------------------------------------------------------
(* The API.  What its steps do to the two tables: a new payment row always *)
(* comes with a new event, and rows stay.                                  *)
Joined ==
  \A r \in Payments :
    /\ Committed(r) => Committed(r)'
    /\ events'[r] > events[r] <=> Committed(r)' /\ ~Committed(r)

(* None is nothing the API knows.                                           *)
LEMMA ApiConstants ==
  None \notin Payments /\ None \notin Keys /\ None \notin Bodies
BY SystemConstants, NoneIsFresh

(* What ApiInv says of one request.                                         *)
LEMMA ApiTyping ==
  ASSUME ApiInv, NEW r \in Payments
  PROVE  /\ req \in [Payments -> Api!Request] /\ req[r] \in Api!Request
         /\ rows \in [Keys -> [payment : Payments \cup {None}, body : Bodies \cup {None}]]
         /\ events \in [Payments -> Nat]
         /\ ApiSound(r)
         /\ req[r].pc # "new" => req[r].key \in Keys
BY DEF ApiInv, ApiTyped, ApiSound

(* A step of one request that commits nothing.                             *)
LEMMA RequestStep ==
  ASSUME ApiInv, NEW r \in Payments,
         UNCHANGED <<rows, events>>,
         req' \in [Payments -> Api!Request],
         \A s \in Payments \ {r} : req'[s] = req[s],
         req[r].pc # "new" => req'[r].key = req[r].key,
         req[r].pc \in Ended => req'[r].pc \in Ended,
         req'[r].pc \in Writing => req[r].pc \in Writing,
         ApiSound(r)'
  PROVE  ApiInv' /\ Joined
<1>1. ApiTyped'
  BY DEF ApiInv, ApiTyped
<1>2. ASSUME NEW s \in Payments \ {r} PROVE ApiSound(s)'
  <2>1. ApiSound(s) /\ req'[s] = req[s] /\ rows' = rows
    BY DEF ApiInv
  <2>2. req[s].pc \in Writing =>
          \A t \in Payments \ {s} : req'[t].pc \in Writing => req'[t].key # req[s].key
    BY <2>1 DEF ApiSound, Writing, ApiInv
  <2> QED
    BY <2>1, <2>2 DEF ApiSound
<1>3. ASSUME NEW k \in Keys PROVE RowOwned(k)'
  BY DEF ApiInv, RowOwned, Ended
<1>4. Joined
  BY DEF Joined, Committed, ApiInv, ApiTyped
<1> QED
  BY <1>1, <1>2, <1>3, <1>4 DEF ApiInv

(* Goto keeps a request's key, body and result.                            *)
LEMMA GotoTyping ==
  ASSUME ApiInv, NEW r \in Payments,
         NEW pc \in Api!Open \cup {"new", "lock", "unlock", "done", "dead"}, Api!Goto(r, pc)
  PROVE  /\ req' \in [Payments -> Api!Request]
         /\ \A s \in Payments \ {r} : req'[s] = req[s]
         /\ req'[r].pc = pc /\ req'[r].key = req[r].key
         /\ req'[r].code = req[r].code /\ req'[r].payment = req[r].payment
<1>1. req' = [req EXCEPT ![r] = [req[r] EXCEPT !.pc = pc]]
  BY ApiTyping DEF Api!Goto
<1>2. [req[r] EXCEPT !.pc = pc] \in Api!Request
  BY ApiTyping DEF Api!Request
<1>3. req'[r] = [req[r] EXCEPT !.pc = pc]
  BY <1>1, ApiTyping
<1> QED
  BY <1>1, <1>2, <1>3, ApiTyping DEF Api!Request

(* What Leave and Fail do.                                                 *)
Ends(r, pc, code, p) ==
  req' = [req EXCEPT ![r] = [@ EXCEPT !.pc = pc, !.code = code, !.payment = p]]

(* They keep the request's key and body.                                   *)
LEMMA EndTyping ==
  ASSUME ApiInv, NEW r \in Payments, NEW code \in {202, 409, 500},
         NEW pc \in {"unlock", "done"},
         NEW p \in Payments \cup {None},
         Ends(r, pc, code, p)
  PROVE  /\ req' \in [Payments -> Api!Request]
         /\ \A s \in Payments \ {r} : req'[s] = req[s]
         /\ req'[r].pc = pc /\ req'[r].key = req[r].key
         /\ req'[r].code = code /\ req'[r].payment = p
<1> DEFINE q == [pc |-> pc, key |-> req[r].key, body |-> req[r].body,
                 code |-> code, payment |-> p]
<1>0. req[r] \in Api!Request /\ req \in [Payments -> Api!Request]
  BY ApiTyping
<1>1. [req[r] EXCEPT !.pc = pc, !.code = code, !.payment = p] = q
  <2> DEFINE y == [req[r] EXCEPT !.pc = pc, !.code = code, !.payment = p]
  <2>1. y = [req[r] EXCEPT !.pc = pc, !.code = code, !.payment = p]
    OBVIOUS
  <2> HIDE DEF y
  <2>2. y = [pc |-> pc, key |-> req[r].key, body |-> req[r].body, code |-> code, payment |-> p]
    BY <1>0, <2>1 DEF Api!Request
  <2> QED
    BY <2>1, <2>2
<1>2. /\ pc \in Api!Open \cup {"new", "lock", "unlock", "done", "dead"}
      /\ code \in {0, 202, 409, 500}
      /\ req[r].key \in Keys \cup {None} /\ req[r].body \in Bodies \cup {None}
  BY <1>0 DEF Api!Request
<1>3. q \in Api!Request
  BY <1>2 DEF Api!Request
<1>4. q.pc = pc /\ q.code = code /\ q.payment = p /\ q.key = req[r].key
  OBVIOUS
<1>5. req' = [req EXCEPT ![r] = q]
  BY <1>1 DEF Ends
<1> HIDE DEF q
<1>6. req'[r] = q
  BY <1>0, <1>5
<1> QED
  BY <1>0, <1>3, <1>4, <1>5, <1>6

(* The request proceeds with pc, which is not one of a writer.             *)
LEMMA QuietStep ==
  ASSUME ApiInv, NEW r \in Payments, req[r].pc # "new",
         NEW pc \in {"select", "insert", "unlock", "done"}, Api!Goto(r, pc),
         UNCHANGED <<rows, events>>,
         req[r].pc \in Ended => pc \in Ended,
         req[r].code = 202 => pc \in Ended
  PROVE  ApiInv' /\ Joined
<1>1. /\ req' \in [Payments -> Api!Request]
      /\ \A s \in Payments \ {r} : req'[s] = req[s]
      /\ req'[r].pc = pc /\ req'[r].key = req[r].key
      /\ req'[r].code = req[r].code /\ req'[r].payment = req[r].payment
  BY GotoTyping DEF Api!Open
<1>2. ApiSound(r) /\ rows' = rows
  BY ApiTyping
<1>3. ApiSound(r)'
  BY <1>1, <1>2 DEF ApiSound, Writing, Ended
<1> QED
  BY RequestStep, <1>1, <1>3 DEF Writing

(* The request leaves with an error, or with the payment its key has.      *)
LEMMA EndStep ==
  ASSUME ApiInv, NEW r \in Payments, req[r].pc # "new",
         NEW code \in {202, 409, 500}, NEW pc \in {"unlock", "done"},
         NEW p \in Payments \cup {None},
         Ends(r, pc, code, p),
         UNCHANGED <<rows, events>>,
         code = 202 => p \in Payments /\ rows[req[r].key].payment = p
  PROVE  ApiInv' /\ Joined
<1>1. /\ req' \in [Payments -> Api!Request]
      /\ \A s \in Payments \ {r} : req'[s] = req[s]
      /\ req'[r].pc = pc /\ req'[r].key = req[r].key
      /\ req'[r].code = code /\ req'[r].payment = p
  BY EndTyping
<1>2. ApiSound(r) /\ rows' = rows
  BY ApiTyping
<1>3. ApiSound(r)'
  BY <1>1, <1>2 DEF ApiSound, Writing, Ended
<1>4. req'[r].pc \in Ended
  BY <1>1 DEF Ended
<1> QED
  BY RequestStep, <1>1, <1>3, <1>4 DEF Writing

(* The request gets an error, whatever it was doing.                       *)
LEMMA ErrorStep ==
  ASSUME ApiInv, NEW r \in Payments, req[r].pc # "new",
         Api!Fail(r) \/ (\E code \in {409, 500} : Api!Leave(r, code, None)),
         UNCHANGED <<rows, events>>
  PROVE  ApiInv' /\ Joined
<1>1. CASE Api!Fail(r)
  <2>1. Ends(r, "done", 500, None)
    BY <1>1 DEF Api!Fail, Ends
  <2> QED
    BY <2>1, EndStep
<1>2. ASSUME NEW code \in {409, 500}, Api!Leave(r, code, None) PROVE ApiInv' /\ Joined
  <2>1. Ends(r, "unlock", code, None)
    BY <1>2 DEF Api!Leave, Ends
  <2> QED
    BY <2>1, EndStep
<1> QED
  BY <1>1, <1>2

(* A writer's row is invisible, and no one else writes under its key.      *)
LEMMA WriterStep ==
  ASSUME ApiInv, NEW r \in Payments, NEW pc \in Writing, Api!Goto(r, pc),
         UNCHANGED <<rows, events>>,
         req[r].pc \in {"insert", "event"},
         req[r].pc = "insert" =>
           Api!Uncommitted(req[r].key) = {} /\ rows[req[r].key] = Api!NoRow
  PROVE  ApiInv' /\ Joined
<1>1. /\ req' \in [Payments -> Api!Request]
      /\ \A s \in Payments \ {r} : req'[s] = req[s]
      /\ req'[r].pc = pc /\ req'[r].key = req[r].key
      /\ req'[r].code = req[r].code /\ req'[r].payment = req[r].payment
  BY GotoTyping DEF Api!Open, Writing
<1>2. ApiSound(r) /\ rows' = rows
  BY ApiTyping
<1>3. /\ rows[req[r].key] = Api!NoRow
      /\ \A s \in Payments \ {r} : req[s].pc \in Writing => req[s].key # req[r].key
  <2>1. CASE req[r].pc = "insert"
    BY <2>1 DEF Api!Uncommitted, Writing
  <2>2. CASE req[r].pc = "event"
    BY <1>2, <2>2 DEF ApiSound, Writing
  <2> QED
    BY <2>1, <2>2
<1>4. req[r].pc # "new" /\ req[r].pc \notin Ended /\ req[r].code # 202
  BY <1>2 DEF ApiSound, Ended
<1>5. ApiSound(r)'
  BY <1>1, <1>2, <1>3, <1>4 DEF ApiSound
<1>6. \A s \in Payments \ {r} : req[s].key = req[r].key => req[s].pc \notin Writing
  BY <1>3
<1>7. ASSUME NEW s \in Payments \ {r} PROVE ApiSound(s)'
  <2>1. ApiSound(s) /\ req'[s] = req[s]
    BY <1>1 DEF ApiInv
  <2>2. req[s].pc \in Writing =>
          \A t \in Payments \ {s} : req'[t].pc \in Writing => req'[t].key # req[s].key
    BY <1>1, <1>6, <2>1 DEF ApiSound
  <2> QED
    BY <1>2, <2>1, <2>2 DEF ApiSound
<1>8. ApiTyped' /\ Joined
  BY <1>1, <1>2 DEF ApiInv, ApiTyped, Joined, Committed
<1>9. ASSUME NEW k \in Keys PROVE RowOwned(k)'
  BY <1>1, <1>2, <1>4 DEF ApiInv, RowOwned
<1> QED
  BY <1>5, <1>7, <1>8, <1>9 DEF ApiInv

(* The payment and its event become visible, and the client learns of it   *)
(* or gets an error.                                                       *)
LEMMA CommitStep ==
  ASSUME ApiInv, NEW r \in Payments, req[r].pc = "commit", Api!Committed(r),
         NEW code \in {202, 500}, NEW p \in Payments \cup {None},
         Ends(r, "unlock", code, p), code = 202 => p = r
  PROVE  ApiInv' /\ Joined
<1> DEFINE K == req[r].key
           row == [payment |-> r, body |-> req[r].body]
<1>1. /\ req' \in [Payments -> Api!Request]
      /\ \A s \in Payments \ {r} : req'[s] = req[s]
      /\ req'[r].pc = "unlock" /\ req'[r].key = K
      /\ req'[r].code = code /\ req'[r].payment = p
  BY EndTyping
<1>2. /\ K \in Keys /\ req[r].body \in Bodies \cup {None} /\ ApiSound(r)
      /\ rows \in [Keys -> [payment : Payments \cup {None}, body : Bodies \cup {None}]]
      /\ events \in [Payments -> Nat]
  BY ApiTyping DEF Api!Request
<1>3. /\ rows[K] = Api!NoRow
      /\ \A s \in Payments \ {r} : req[s].pc \in Writing => req[s].key # K
  BY <1>2 DEF ApiSound, Writing
<1>4. rows' = [rows EXCEPT ![K] = row] /\ events' = [events EXCEPT ![r] = @ + 1]
  BY DEF Api!Committed
<1>5. row \in [payment : Payments \cup {None}, body : Bodies \cup {None}]
  BY <1>2
<1>6. rows'[K] = row /\ \A k \in Keys \ {K} : rows'[k] = rows[k]
  BY <1>2, <1>4
<1>7. events'[r] = events[r] + 1 /\ \A s \in Payments \ {r} : events'[s] = events[s]
  BY <1>2, <1>4
<1>8. row # Api!NoRow /\ row.payment = r /\ Api!NoRow.payment = None
  BY ApiConstants DEF Api!NoRow
<1>9. ApiTyped'
  BY <1>1, <1>2, <1>4, <1>5 DEF ApiTyped
<1>10. \A k \in Keys : rows[k].payment # r
  BY ApiConstants DEF ApiInv, RowOwned, Ended, Api!NoRow
<1> HIDE DEF row
<1>11. ASSUME NEW s \in Payments
       PROVE  /\ Committed(s) => Committed(s)'
              /\ events'[s] > events[s] <=> Committed(s)' /\ ~Committed(s)
  <2>1. events[s] \in Nat
    BY <1>2
  <2>2. CASE s = r
    BY <1>2, <1>6, <1>7, <1>8, <1>10, <2>1, <2>2 DEF Committed
  <2>3. CASE s # r
    <3>1. \A k \in Keys : rows'[k].payment = s <=> rows[k].payment = s
      BY <1>3, <1>6, <1>8, <2>3, ApiConstants
    <3> QED
      BY <1>7, <2>1, <2>3, <3>1 DEF Committed
  <2> QED
    BY <2>2, <2>3
<1>12. ApiSound(r)'
  BY <1>1, <1>2, <1>6, <1>8 DEF ApiSound, Writing, Ended
<1>13. ASSUME NEW s \in Payments \ {r} PROVE ApiSound(s)'
  <2>1. ApiSound(s) /\ req'[s] = req[s]
    BY <1>1 DEF ApiInv
  <2>2. ASSUME req[s].code = 202
        PROVE  rows'[req[s].key].payment = req[s].payment
    <3>1. rows[req[s].key].payment = req[s].payment /\ req[s].key \in Keys
          /\ req[s].payment \in Payments
      BY <2>1, <2>2 DEF ApiSound, Ended
    <3>2. req[s].key # K
      BY <1>3, <1>8, <3>1, ApiConstants
    <3> QED
      BY <1>6, <3>1, <3>2
  <2>3. ASSUME req[s].pc \in Writing
        PROVE  /\ rows'[req[s].key] = Api!NoRow
               /\ \A t \in Payments \ {s} : req'[t].pc \in Writing => req'[t].key # req[s].key
    <3>1. req[s].key # K /\ req[s].key \in Keys /\ rows[req[s].key] = Api!NoRow
      BY <1>3, <2>1, <2>3 DEF ApiSound, Writing
    <3>2. \A t \in Payments \ {s} : req'[t].pc \in Writing => req'[t].key # req[s].key
      BY <1>1, <2>1, <2>3, <3>1 DEF ApiSound
    <3> QED
      BY <1>6, <3>1, <3>2
  <2> QED
    BY <2>1, <2>2, <2>3 DEF ApiSound
<1>14. ASSUME NEW k \in Keys PROVE RowOwned(k)'
  <2>1. CASE k = K
    BY <1>1, <1>6, <1>8, <2>1 DEF RowOwned, Ended
  <2>2. CASE k # K
    BY <1>1, <1>6, <2>2 DEF ApiInv, RowOwned, Ended
  <2> QED
    BY <2>1, <2>2
<1> QED
  BY <1>9, <1>11, <1>12, <1>13, <1>14 DEF ApiInv, Joined

-----------------------------------------------------------------------------
(* The actions of the API, one group after the other.                      *)
LEMMA ArriveKeeps ==
  ASSUME ApiInv, NEW r \in Payments, NEW k \in Keys, NEW b \in Bodies, Api!Arrive(r, k, b)
  PROVE  ApiInv' /\ Joined
<1> DEFINE q == [req[r] EXCEPT !.pc = "lock", !.key = k, !.body = b]
<1>0. req[r] \in Api!Request /\ req \in [Payments -> Api!Request]
      /\ req[r].pc = "new" /\ ApiSound(r)
  BY ApiTyping DEF Api!Arrive, Api!At
<1>1. q \in Api!Request /\ q.pc = "lock" /\ q.key = k /\ q.code = req[r].code
  <2>0. q = [req[r] EXCEPT !.pc = "lock", !.key = k, !.body = b]
    OBVIOUS
  <2> HIDE DEF q
  <2>1. q = [pc |-> "lock", key |-> k, body |-> b, code |-> req[r].code, payment |-> req[r].payment]
    BY <1>0, <2>0 DEF Api!Request
  <2>2. req[r].code \in {0, 202, 409, 500} /\ req[r].payment \in Payments \cup {None}
    BY <1>0 DEF Api!Request
  <2>3. q \in Api!Request
    BY <2>1, <2>2 DEF Api!Request
  <2> QED
    BY <2>1, <2>3
<1>2. req' = [req EXCEPT ![r] = q] /\ UNCHANGED <<rows, events>>
  BY <1>0 DEF Api!Arrive
<1> HIDE DEF q
<1>3. req'[r] = q /\ req' \in [Payments -> Api!Request] /\ \A s \in Payments \ {r} : req'[s] = req[s]
  BY <1>0, <1>1, <1>2
<1>4. ApiSound(r)'
  BY <1>0, <1>1, <1>3 DEF ApiSound, Writing, Ended
<1> QED
  BY RequestStep, <1>0, <1>1, <1>2, <1>3, <1>4 DEF Ended, Writing

(* Taking and leaving the idempotency lock.                                 *)
LEMMA LockStepsKeep ==
  ASSUME ApiInv, NEW r \in Payments,
         \/ Api!AcquireLock(r) \/ Api!LockTimeout(r) \/ Api!AcquireFails(r)
         \/ Api!ReleaseLock(r) \/ Api!ReleaseFails(r)
  PROVE  ApiInv' /\ Joined
<1>0. /\ req[r].pc \in {"lock", "unlock"} /\ UNCHANGED <<rows, events>> /\ ApiSound(r)
  BY ApiTyping DEF Api!AcquireLock, Api!LockTimeout, Api!AcquireFails, Api!ReleaseLock,
  Api!ReleaseFails, Api!At
<1>1. CASE Api!AcquireLock(r)
  <2>1. Api!Goto(r, "select") /\ req[r].pc = "lock"
    BY <1>1 DEF Api!AcquireLock, Api!At
  <2>2. req[r].pc \notin Ended /\ req[r].code # 202
    BY <1>0, <2>1 DEF ApiSound, Ended
  <2> QED
    BY QuietStep, <1>0, <2>1, <2>2
<1>2. CASE Api!LockTimeout(r) \/ Api!AcquireFails(r) \/ Api!ReleaseFails(r)
  <2>1. Api!Fail(r)
    BY <1>2 DEF Api!LockTimeout, Api!AcquireFails, Api!ReleaseFails
  <2> QED
    BY ErrorStep, <1>0, <2>1
<1>3. CASE Api!ReleaseLock(r)
  <2>1. Api!Goto(r, "done") \/ Api!Fail(r)
    BY <1>3 DEF Api!ReleaseLock
  <2>2. CASE Api!Goto(r, "done")
    BY QuietStep, <1>0, <2>2 DEF Ended
  <2> QED
    BY ErrorStep, <1>0, <2>1, <2>2
<1> QED
  BY <1>1, <1>2, <1>3

(* The statements of the transaction.                                       *)
LEMMA TransactionKeeps ==
  ASSUME ApiInv, NEW r \in Payments,
         Api!Select(r) \/ Api!InsertPayment(r) \/ Api!InsertEvent(r) \/ Api!StatementFails(r)
  PROVE  ApiInv' /\ Joined
<1>0. /\ req[r].pc \in Api!Open \ {"commit"} /\ UNCHANGED <<rows, events>>
      /\ req[r].key \in Keys /\ ApiSound(r)
  BY ApiTyping DEF Api!Select, Api!InsertPayment, Api!InsertEvent, Api!StatementFails,
  Api!At, Api!Open
<1>1. req[r].pc # "new" /\ req[r].pc \notin Ended /\ req[r].code # 202
  BY <1>0 DEF ApiSound, Ended, Api!Open
<1>2. CASE Api!Select(r)
  <2> DEFINE row == rows[req[r].key]
  <2>1. CASE Api!Goto(r, "insert")
    BY QuietStep, <1>0, <1>1, <2>1
  <2>2. CASE row # Api!NoRow /\ Api!Leave(r, 202, row.payment)
    <3>1. row.payment \in Payments
      BY <1>0, <2>2 DEF ApiInv, RowOwned
    <3>2. PICK p \in Payments : p = row.payment
      BY <3>1
    <3>3. Ends(r, "unlock", 202, p)
      BY <2>2, <3>2 DEF Api!Leave, Ends
    <3> QED
      BY EndStep, <1>0, <1>1, <3>2, <3>3
  <2>3. CASE Api!Leave(r, 409, None)
    BY ErrorStep, <1>0, <1>1, <2>3
  <2> QED
    BY <1>2, <2>1, <2>2, <2>3 DEF Api!Select
<1>3. CASE Api!InsertPayment(r)
  <2>1. req[r].pc = "insert" /\ Api!Uncommitted(req[r].key) = {}
    BY <1>3 DEF Api!InsertPayment, Api!At
  <2>2. CASE rows[req[r].key] = Api!NoRow /\ Api!Goto(r, "event")
    BY WriterStep, <1>0, <2>1, <2>2 DEF Writing
  <2>3. CASE Api!Leave(r, 409, None)
    BY ErrorStep, <1>0, <1>1, <2>3
  <2> QED
    BY <1>3, <2>2, <2>3 DEF Api!InsertPayment
<1>4. CASE Api!InsertEvent(r)
  <2>1. req[r].pc = "event" /\ Api!Goto(r, "commit")
    BY <1>4 DEF Api!InsertEvent, Api!At
  <2> QED
    BY WriterStep, <1>0, <2>1 DEF Writing
<1>5. CASE Api!StatementFails(r)
  <2>1. Api!Leave(r, 500, None)
    BY <1>5 DEF Api!StatementFails
  <2> QED
    BY ErrorStep, <1>0, <1>1, <2>1
<1> QED
  BY <1>2, <1>3, <1>4, <1>5

(* COMMIT, answered or not.                                                 *)
LEMMA CommitKeeps ==
  ASSUME ApiInv, NEW r \in Payments, Api!Commit(r) \/ Api!CommitFails(r)
  PROVE  ApiInv' /\ Joined
<1>0. req[r].pc = "commit"
  BY DEF Api!Commit, Api!CommitFails, Api!At
<1>1. CASE Api!Commit(r)
  <2>1. Api!Committed(r) /\ Ends(r, "unlock", 202, r)
    BY <1>1 DEF Api!Commit, Api!Leave, Ends
  <2> QED
    BY CommitStep, <1>0, <2>1
<1>2. CASE Api!CommitFails(r)
  <2>1. Api!Leave(r, 500, None) /\ Ends(r, "unlock", 500, None)
    BY <1>2 DEF Api!CommitFails, Api!Leave, Ends
  <2>2. CASE Api!Committed(r)
    BY CommitStep, <1>0, <2>1, <2>2
  <2>3. CASE UNCHANGED <<rows, events>>
    BY ErrorStep, <1>0, <2>1, <2>3
  <2> QED
    BY <1>2, <2>2, <2>3 DEF Api!CommitFails
<1> QED
  BY <1>1, <1>2

(* The death of the API process.                                            *)
LEMMA ApiCrashKeeps == ASSUME ApiInv, Api!Crash PROVE ApiInv' /\ Joined
<1>1. /\ req' = [r \in Payments |->
                   IF req[r].pc \in {"new", "done"} THEN req[r] ELSE [req[r] EXCEPT !.pc = "dead"]]
      /\ UNCHANGED <<rows, events>>
  BY DEF Api!Crash
<1>2. ASSUME NEW r \in Payments
      PROVE  /\ req[r] \in Api!Request /\ req'[r] \in Api!Request
             /\ req'[r].key = req[r].key
             /\ req'[r].code = req[r].code /\ req'[r].payment = req[r].payment
             /\ req'[r].pc \notin Writing
             /\ req[r].pc # "new" => req'[r].pc \in Ended
             /\ req'[r].pc # "new" => req[r].pc # "new"
  <2>1. req[r] \in Api!Request
    BY DEF ApiInv, ApiTyped
  <2> DEFINE q == [req[r] EXCEPT !.pc = "dead"]
  <2>2. /\ q \in Api!Request /\ q.pc = "dead" /\ q.key = req[r].key
        /\ q.code = req[r].code /\ q.payment = req[r].payment
    BY <2>1 DEF Api!Request
  <2>3. req'[r] = IF req[r].pc \in {"new", "done"} THEN req[r] ELSE q
    BY <1>1
  <2> HIDE DEF q
  <2>4. CASE req[r].pc \in {"new", "done"}
    BY <2>1, <2>3, <2>4 DEF Writing, Ended
  <2>5. CASE req[r].pc \notin {"new", "done"}
    BY <2>1, <2>2, <2>3, <2>5 DEF Writing, Ended
  <2> QED
    BY <2>4, <2>5
<1>3. ApiTyped'
  BY <1>1, <1>2 DEF ApiInv, ApiTyped
<1>4. ASSUME NEW r \in Payments PROVE ApiSound(r)'
  <2>1. ApiSound(r) /\ rows' = rows
    BY <1>1 DEF ApiInv
  <2>2. req[r].code = 202 => req[r].pc # "new"
    BY <2>1 DEF ApiSound, Ended
  <2> QED
    BY <1>2, <2>1, <2>2 DEF ApiSound
<1>5. ASSUME NEW k \in Keys PROVE RowOwned(k)'
  <2>1. RowOwned(k) /\ rows' = rows
    BY <1>1 DEF ApiInv
  <2>2. \A r \in Payments : req[r].pc \in Ended => req'[r].pc \in Ended /\ req'[r].key = req[r].key
    BY <1>2 DEF Ended
  <2> QED
    BY <2>1, <2>2 DEF RowOwned
<1>6. Joined
  BY <1>1 DEF ApiInv, ApiTyped, Joined, Committed
<1> QED
  BY <1>3, <1>4, <1>5, <1>6 DEF ApiInv

(* Every step of the API keeps its invariant and joins payments to events. *)
LEMMA ApiKeeps == ASSUME ApiInv, Api!Next PROVE ApiInv' /\ Joined
<1>1. ASSUME NEW r \in Payments, NEW k \in Keys, NEW b \in Bodies, Api!Arrive(r, k, b)
      PROVE  ApiInv' /\ Joined
  BY <1>1, ArriveKeeps
<1>2. ASSUME NEW r \in Payments,
             \/ Api!AcquireLock(r) \/ Api!LockTimeout(r) \/ Api!AcquireFails(r)
             \/ Api!ReleaseLock(r) \/ Api!ReleaseFails(r)
      PROVE  ApiInv' /\ Joined
  BY <1>2, LockStepsKeep
<1>3. ASSUME NEW r \in Payments,
             \/ Api!Select(r) \/ Api!InsertPayment(r) \/ Api!InsertEvent(r)
             \/ Api!StatementFails(r)
      PROVE  ApiInv' /\ Joined
  BY <1>3, TransactionKeeps
<1>4. ASSUME NEW r \in Payments, Api!Commit(r) \/ Api!CommitFails(r) PROVE ApiInv' /\ Joined
  BY <1>4, CommitKeeps
<1>5. ASSUME NEW k \in Keys, Api!LockTtl(k) PROVE ApiInv' /\ Joined
  BY <1>5 DEF Api!LockTtl, ApiInv, ApiTyped, ApiSound, RowOwned, Joined, Committed
<1>6. CASE Api!Crash
  BY <1>6, ApiCrashKeeps
<1> QED
  BY <1>1, <1>2, <1>3, <1>4, <1>5, <1>6 DEF Api!Next

-----------------------------------------------------------------------------
(* The publishers.  published grows, and only for committed payments.      *)
Grows ==
  /\ published' \in [Payments -> Nat]
  /\ \A e \in Payments : published'[e] >= published[e]

Counts ==
  \/ published' = published
  \/ \E e \in Payments : Exists(e) /\ published' = [published EXCEPT ![e] = @ + 1]

(* A counted publish only adds.                                             *)
LEMMA CountsGrow ==
  ASSUME published \in [Payments -> Nat], Counts
  PROVE  Grows
BY DEF Counts, Grows

(* What OutboxInv says of one publisher.                                    *)
LEMMA OutboxTyping ==
  ASSUME OutboxInv, NEW w \in Publishers
  PROVE  /\ proc \in [Publishers -> Outbox!Process] /\ proc[w] \in Outbox!Process
         /\ outbox \in [Payments -> Outbox!Row]
         /\ proc[w].batch \subseteq Payments
         /\ proc[w].written \in [Payments -> Outbox!Row]
         /\ BatchOK(w)
BY DEF OutboxInv, Outbox!Process

(* A step of one process on its own batch.                                 *)
LEMMA OwnStep ==
  ASSUME OutboxInv, published \in [Payments -> Nat], Grows, NEW w \in Publishers,
         UNCHANGED <<outbox, payments>>,
         proc' \in [Publishers -> Outbox!Process],
         \A v \in Publishers \ {w} : proc'[v] = proc[v],
         BatchOK(w)'
  PROVE  OutboxInv'
<1>1. ASSUME NEW v \in Publishers, v # w PROVE BatchOK(v)'
  <2>1. /\ BatchOK(v) /\ proc'[v] = proc[v] /\ proc[v].batch \subseteq Payments
    BY <1>1, OutboxTyping
  <2>2. proc[v].pc = "published" => proc[v].current \in Payments
    BY <2>1 DEF BatchOK
  <2>3. proc[v].pc = "published" => published'[proc[v].current] > 0
    BY <2>1, <2>2 DEF BatchOK, Grows
  <2>4. ASSUME NEW e \in proc[v].batch PROVE Exists(e)' /\ Told(proc[v].written[e], e)'
    <3>1. e \in Payments /\ Exists(e) /\ Told(proc[v].written[e], e) /\ proc'[v].written = proc[v].written
      BY <2>1 DEF BatchOK
    <3> QED
      BY <3>1 DEF Exists, Told, Grows
  <2> QED
    BY <2>1, <2>3, <2>4 DEF BatchOK
<1>2. \A e \in Payments : Exists(e)' => Told(outbox[e], e)'
  BY DEF OutboxInv, Exists, Told, Grows
<1>3. \A e \in Payments : outbox'[e].status # "absent" => Exists(e)'
  BY DEF OutboxInv, Exists
<1> QED
  BY <1>1, <1>2, <1>3 DEF OutboxInv

(* SELECT ... FOR UPDATE SKIP LOCKED, of rows that exist.                   *)
LEMMA LockBatchKeeps ==
  ASSUME OutboxInv, NEW w \in Publishers, Outbox!LockBatch(w), UNCHANGED payments,
         published \in [Payments -> Nat]
  PROVE  OutboxInv' /\ Counts
<1>1. PICK B \in Outbox!Batches \ {{}} :
        proc' = [proc EXCEPT ![w] = [pc |-> "publish", batch |-> B, todo |-> B,
                                     current |-> None, written |-> outbox]]
  BY DEF Outbox!LockBatch
<1>2. UNCHANGED <<outbox, published>>
  BY DEF Outbox!LockBatch
<1>3. \A e \in B : e \in Payments /\ outbox[e].status = "pending"
  BY DEF Outbox!Batches, Outbox!Selectable
<1> DEFINE q == [pc |-> "publish", batch |-> B, todo |-> B, current |-> None, written |-> outbox]
<1>4. q \in Outbox!Process
  BY <1>3, OutboxTyping DEF Outbox!Process
<1>5. q.pc = "publish" /\ q.batch = B /\ q.todo = B /\ q.written = outbox
  OBVIOUS
<1>6. proc' = [proc EXCEPT ![w] = q]
  BY <1>1
<1> HIDE DEF q
<1>7. proc'[w] = q /\ proc' \in [Publishers -> Outbox!Process]
      /\ \A v \in Publishers \ {w} : proc'[v] = proc[v]
  BY <1>4, <1>6, OutboxTyping
<1>8. \A e \in B : Exists(e)' /\ Told(outbox[e], e)'
  BY <1>2, <1>3 DEF OutboxInv, Exists, Told
<1>9. BatchOK(w)'
  BY <1>2, <1>5, <1>7, <1>8 DEF BatchOK, Told
<1> QED
  BY <1>2, <1>7, <1>9, OwnStep, CountsGrow DEF Counts

(* broker.publish, with or without an answer.                              *)
LEMMA PublishKeeps ==
  ASSUME OutboxInv, NEW w \in Publishers, Outbox!Publish(w) \/ Outbox!PublishFails(w),
         UNCHANGED payments, published \in [Payments -> Nat]
  PROVE  OutboxInv' /\ Counts
<1>1. PICK e \in proc[w].todo, pc \in {"published", "refused"} :
        /\ proc' = [proc EXCEPT ![w].pc = pc, ![w].current = e]
        /\ published' \in {published, [published EXCEPT ![e] = @ + 1]}
        /\ pc = "published" => published' = [published EXCEPT ![e] = @ + 1]
  BY DEF Outbox!Publish, Outbox!PublishFails
<1>2. outbox' = outbox
  BY DEF Outbox!Publish, Outbox!PublishFails
<1>3. e \in proc[w].batch /\ e \in Payments /\ Exists(e)
  BY OutboxTyping DEF BatchOK
<1>4. Counts
  BY <1>1, <1>3 DEF Counts
<1>5. Grows
  BY <1>4, CountsGrow
<1>6. proc'[w] = [proc[w] EXCEPT !.pc = pc, !.current = e]
  BY <1>1, OutboxTyping
<1>7. /\ proc'[w].pc = pc /\ proc'[w].current = e /\ proc'[w].batch = proc[w].batch
      /\ proc'[w].todo = proc[w].todo /\ proc'[w].written = proc[w].written
      /\ proc'[w] \in Outbox!Process
  BY <1>3, <1>6, OutboxTyping DEF Outbox!Process
<1>8. proc' \in [Publishers -> Outbox!Process] /\ \A v \in Publishers \ {w} : proc'[v] = proc[v]
  BY <1>1, <1>7, OutboxTyping
<1>9. pc = "published" => published'[e] > 0
  BY <1>1, <1>3
<1>10. \A x \in proc[w].batch : Exists(x)' /\ Told(proc[w].written[x], x)'
  <2> SUFFICES ASSUME NEW x \in proc[w].batch PROVE Exists(x)' /\ Told(proc[w].written[x], x)'
    OBVIOUS
  <2>1. x \in Payments /\ Exists(x) /\ Told(proc[w].written[x], x)
    BY OutboxTyping DEF BatchOK
  <2> QED
    BY <1>5, <1>7, <2>1 DEF Told, Exists, Grows
<1>11. proc[w].todo \subseteq proc[w].batch
  BY OutboxTyping DEF BatchOK
<1>12. BatchOK(w)'
  BY <1>3, <1>7, <1>9, <1>10, <1>11 DEF BatchOK
<1> QED
  BY <1>2, <1>4, <1>5, <1>8, <1>12, OwnStep

(* The UPDATE that follows.                                                *)
LEMMA MarkKeeps ==
  ASSUME OutboxInv, NEW w \in Publishers, Outbox!MarkPublished(w) \/ Outbox!MarkFailed(w),
         UNCHANGED payments, published \in [Payments -> Nat]
  PROVE  OutboxInv' /\ Counts
<1> DEFINE e == proc[w].current
           old == proc[w].written[e]
<1>1. proc[w].pc \in {"published", "refused"} /\ UNCHANGED <<outbox, published>>
  BY DEF Outbox!MarkPublished, Outbox!MarkFailed, Outbox!At
<1>2. e \in proc[w].batch /\ e \in Payments /\ old \in Outbox!Row
  BY <1>1, OutboxTyping DEF BatchOK
<1>3. PICK row \in Outbox!Row : Outbox!Write(w, row) /\ Told(row, e)
  <2>1. CASE Outbox!MarkPublished(w)
    <3>1. Outbox!MarkedPublished(old) \in Outbox!Row
          /\ Outbox!MarkedPublished(old).status = "published"
      BY <1>2 DEF Outbox!MarkedPublished, Outbox!Row
    <3>2. published[e] > 0
      BY <2>1, OutboxTyping DEF Outbox!MarkPublished, Outbox!At, BatchOK
    <3> QED
      BY <2>1, <3>1, <3>2 DEF Outbox!MarkPublished, Told
  <2>2. CASE Outbox!MarkFailed(w)
    <3>1. old.retries \in Nat
      BY <1>2 DEF Outbox!Row
    <3>2. Outbox!MarkedFailed(old) \in Outbox!Row
          /\ Outbox!MarkedFailed(old).status \in {"pending", "failed"}
      BY <3>1 DEF Outbox!MarkedFailed, Outbox!Row
    <3> QED
      BY <2>2, <3>2 DEF Outbox!MarkFailed, Told
  <2> QED
    BY <2>1, <2>2
<1>4. proc'[w] = [proc[w] EXCEPT !.pc = "publish", !.todo = proc[w].todo \ {e},
                                 !.current = None, !.written = [proc[w].written EXCEPT ![e] = row]]
  BY <1>3, OutboxTyping DEF Outbox!Write, Outbox!Process
<1>5. /\ proc'[w].pc = "publish" /\ proc'[w].batch = proc[w].batch
      /\ proc'[w].todo = proc[w].todo \ {e} /\ proc'[w].current = None
      /\ proc'[w].written = [proc[w].written EXCEPT ![e] = row]
  BY <1>4, OutboxTyping DEF Outbox!Process
<1>6. proc'[w].written \in [Payments -> Outbox!Row] /\ proc'[w].written[e] = row
      /\ \A x \in Payments \ {e} : proc'[w].written[x] = proc[w].written[x]
  BY <1>2, <1>5, OutboxTyping
<1>7. proc'[w] \in Outbox!Process
  BY <1>4, <1>5, <1>6, OutboxTyping DEF Outbox!Process
<1>8. proc' \in [Publishers -> Outbox!Process] /\ \A v \in Publishers \ {w} : proc'[v] = proc[v]
  BY <1>3, <1>7, OutboxTyping DEF Outbox!Write
<1>9. ASSUME NEW x \in proc[w].batch PROVE Exists(x)' /\ Told(proc[w].written[x], x)'
  <2>1. x \in Payments /\ Exists(x) /\ Told(proc[w].written[x], x)
    BY OutboxTyping DEF BatchOK
  <2>2. CASE x = e
    BY <1>1, <1>3, <1>6, <2>1, <2>2 DEF Told, Exists
  <2>3. CASE x # e
    BY <1>1, <1>6, <2>1, <2>3 DEF Told, Exists
  <2> QED
    BY <2>2, <2>3
<1>10. proc[w].todo \subseteq proc[w].batch
  BY OutboxTyping DEF BatchOK
<1> HIDE DEF e
<1>11. BatchOK(w)'
  BY <1>5, <1>9, <1>10 DEF BatchOK
<1> QED
  BY <1>1, <1>8, <1>11, OwnStep, CountsGrow DEF Counts

(* Every way a transaction ends, and the restart of a process.             *)
LEMMA EndKeeps ==
  ASSUME OutboxInv, NEW w \in Publishers,
         \/ Outbox!CommitBatch(w) \/ Outbox!UpdateFails(w) \/ Outbox!CommitFails(w)
         \/ Outbox!Crash(w) \/ Outbox!Restart(w),
         UNCHANGED payments, published \in [Payments -> Nat]
  PROVE  OutboxInv' /\ Counts
<1> DEFINE Down == [Outbox!IdleProcess EXCEPT !.pc = "down"]
<1>1. published' = published
  BY DEF Outbox!CommitBatch, Outbox!UpdateFails, Outbox!CommitFails, Outbox!Crash, Outbox!Restart
<1>2. PICK q \in {Outbox!IdleProcess, Down} : proc' = [proc EXCEPT ![w] = q]
  BY DEF Outbox!CommitBatch, Outbox!UpdateFails, Outbox!CommitFails, Outbox!Crash,
  Outbox!Restart, Outbox!Exit
<1>3. Outbox!Absent \in Outbox!Row /\ [x \in Payments |-> Outbox!Absent] \in [Payments -> Outbox!Row]
  BY DEF Outbox!Absent, Outbox!Row
<1>4. q \in Outbox!Process /\ q.pc \in {"idle", "down"} /\ q.batch = {} /\ q.todo = {}
  BY <1>2, <1>3 DEF Outbox!IdleProcess, Outbox!Process
<1>5. proc'[w] = q /\ proc' \in [Publishers -> Outbox!Process]
      /\ \A v \in Publishers \ {w} : proc'[v] = proc[v]
  BY <1>2, <1>4, OutboxTyping
<1>6. outbox' \in {outbox, Outbox!Applied(w)}
  BY DEF Outbox!CommitBatch, Outbox!UpdateFails, Outbox!CommitFails, Outbox!Crash, Outbox!Restart
<1>7. outbox' \in [Payments -> Outbox!Row]
  BY <1>6, OutboxTyping DEF Outbox!Applied
<1>8. BatchOK(w)'
  BY <1>4, <1>5 DEF BatchOK
<1>9. ASSUME NEW v \in Publishers, v # w PROVE BatchOK(v)'
  <2>1. proc'[v] = proc[v] /\ BatchOK(v)
    BY <1>5, <1>9 DEF OutboxInv
  <2> QED
    BY <1>1, <2>1 DEF BatchOK, Told, Exists
<1>10. ASSUME NEW e \in Payments
       PROVE  /\ Exists(e)' => Told(outbox[e], e)'
              /\ outbox'[e].status # "absent" => Exists(e)'
  <2>1. /\ Exists(e) => Told(outbox[e], e)
        /\ outbox[e].status # "absent" => Exists(e)
        /\ e \in proc[w].batch => Exists(e) /\ Told(proc[w].written[e], e)
    BY OutboxTyping DEF OutboxInv, BatchOK
  <2>2. outbox'[e] = outbox[e] \/ (e \in proc[w].batch /\ outbox'[e] = proc[w].written[e])
    BY <1>6 DEF Outbox!Applied
  <2> QED
    BY <1>1, <2>1, <2>2 DEF Told, Exists
<1> HIDE DEF Down
<1> QED
  BY <1>1, <1>5, <1>7, <1>8, <1>9, <1>10 DEF OutboxInv, Counts

(* A row becomes due.                                                       *)
LEMMA BackoffKeeps ==
  ASSUME OutboxInv, NEW e \in Payments, Outbox!BackoffElapses(e), UNCHANGED payments
  PROVE  OutboxInv' /\ Counts
<1>1. /\ outbox' = [outbox EXCEPT ![e].due = TRUE] /\ outbox \in [Payments -> Outbox!Row]
      /\ UNCHANGED <<proc, published>>
  BY DEF Outbox!BackoffElapses, OutboxInv
<1>2. [outbox[e] EXCEPT !.due = TRUE] \in Outbox!Row
  BY <1>1 DEF Outbox!Row
<1>3. outbox' \in [Payments -> Outbox!Row]
  BY <1>1, <1>2
<1>4. \A x \in Payments : outbox'[x].status = outbox[x].status
  BY <1>1 DEF Outbox!Row
<1> QED
  BY <1>1, <1>3, <1>4 DEF OutboxInv, BatchOK, Told, Exists, Counts

(* Every step of a publisher keeps its invariant and is counted.           *)
LEMMA OutboxKeeps ==
  ASSUME OutboxInv, PublisherStep, published \in [Payments -> Nat]
  PROVE  OutboxInv' /\ Counts
<1>1. UNCHANGED payments
  BY DEF PublisherStep, Published
<1>2. ASSUME NEW e \in Payments, Outbox!BackoffElapses(e) PROVE OutboxInv' /\ Counts
  BY <1>1, <1>2, BackoffKeeps
<1>3. ASSUME NEW w \in Publishers,
             \/ Outbox!Step(w) \/ Outbox!Restart(w) \/ Outbox!PublishFails(w)
             \/ Outbox!UpdateFails(w) \/ Outbox!CommitFails(w) \/ Outbox!Crash(w)
      PROVE  OutboxInv' /\ Counts
  BY <1>1, <1>3, LockBatchKeeps, PublishKeeps, MarkKeeps, EndKeeps DEF Outbox!Step
<1> QED
  BY <1>2, <1>3 DEF PublisherStep

-----------------------------------------------------------------------------
(* The consumer.  Its steps are ProcessPayment's.                          *)
LEMMA ConsumerIsNext == ConsumerStep => Next
BY DEF ConsumerStep, Next

(* A task that is busy was already, with the same payment, or it has just  *)
(* been handed a message.                                                  *)
TasksKeep ==
  \A w \in Workers :
    Busy(w)' =>
      \/ Busy(w) /\ task'[w].payment = task[w].payment
      \/ \E m \in MsgIds : msgs[m].place = "new" /\ task'[w].payment = msgs[m].payment

(* Only a delivery makes a task busy.                                       *)
LEMMA TasksStep == Typed /\ ConsumerStep => TasksKeep
<1> SUFFICES ASSUME Typed, ConsumerStep PROVE TasksKeep
  OBVIOUS
<1>0. task \in [Workers -> Task]
  BY DEF Typed, TypeOK
<1> USE <1>0 DEF TasksKeep, Busy, Task
<1>1. ASSUME NEW p \in Payments, LockTtl(p) PROVE TasksKeep
  BY <1>1 DEF LockTtl
<1>2. ASSUME NEW m \in MsgIds, RetryTtl(m) PROVE TasksKeep
  BY <1>2 DEF RetryTtl, ExpireTtl, Moved, DeadLetterTo
<1>3. ASSUME NEW m \in MsgIds, NEW w \in Workers, Receive(m, w) PROVE TasksKeep
  BY <1>3 DEF Receive, Deliver, Idle
<1>4. ASSUME NEW w \in Workers, AcquireLock(w) PROVE TasksKeep
  BY <1>4 DEF AcquireLock, At, Goto
<1>5. ASSUME NEW w \in Workers, LockTimeout(w) PROVE TasksKeep
  BY <1>5 DEF LockTimeout, At
<1>6. ASSUME NEW w \in Workers, Load(w) PROVE TasksKeep
  BY <1>6 DEF Load, At, AfterLoad, AfterRow
<1>7. ASSUME NEW w \in Workers, Charge(w) PROVE TasksKeep
  BY <1>7 DEF Charge, At
<1>8. ASSUME NEW w \in Workers, RecordOutcome(w) PROVE TasksKeep
  BY <1>8 DEF RecordOutcome, At, AfterRow
<1>9. ASSUME NEW w \in Workers, PostWebhook(w) PROVE TasksKeep
  BY <1>9 DEF PostWebhook, At, Goto, Raise
<1>10. ASSUME NEW w \in Workers, StampDelivered(w) PROVE TasksKeep
  BY <1>10 DEF StampDelivered, At, Goto
<1>11. ASSUME NEW w \in Workers, ReleaseLock(w) PROVE TasksKeep
  BY <1>11 DEF ReleaseLock, At
<1>12. ASSUME NEW w \in Workers, PassThrough(w) PROVE TasksKeep
  BY <1>12 DEF PassThrough, At, Goto
<1>13. ASSUME NEW w \in Workers, Republish(w) PROVE TasksKeep
  BY <1>13 DEF Republish, At, Publish, Stored
<1>14. ASSUME NEW w \in Workers, Settle(w) PROVE TasksKeep
  BY <1>14 DEF Settle, Idle, At
<1>15. ASSUME NEW w \in Workers, AcquireFails(w) PROVE TasksKeep
  BY <1>15 DEF AcquireFails, At
<1>16. ASSUME NEW w \in Workers, LoadFails(w) PROVE TasksKeep
  BY <1>16 DEF LoadFails, At, Raise
<1>17. ASSUME NEW w \in Workers, RecordFails(w) PROVE TasksKeep
  BY <1>17 DEF RecordFails, At
<1>18. ASSUME NEW w \in Workers, StampFails(w) PROVE TasksKeep
  BY <1>18 DEF StampFails, At, Raise
<1>19. ASSUME NEW w \in Workers, ReleaseFails(w) PROVE TasksKeep
  BY <1>19 DEF ReleaseFails, At
<1>20. ASSUME NEW w \in Workers, RepublishFails(w) PROVE TasksKeep
  BY <1>20 DEF RepublishFails, At, Publish, Stored
<1>21. ASSUME Crash PROVE TasksKeep
  BY <1>21 DEF Crash, Idle
<1>22. ASSUME Restart PROVE TasksKeep
  BY <1>22 DEF Restart, Idle
<1>23. ASSUME ConnectionLost PROVE TasksKeep
  BY <1>23 DEF ConnectionLost
<1> QED
  BY <1>1, <1>2, <1>3, <1>4, <1>5, <1>6, <1>7, <1>8, <1>9, <1>10, <1>11,
  <1>12, <1>13, <1>14, <1>15, <1>16, <1>17, <1>18, <1>19, <1>20, <1>21, <1>22,
  <1>23 DEF ConsumerStep, TaskStep, CallFails

(* A stored message keeps its payment, and a new one is for a payment that *)
(* a task works on.                                                        *)
MessagesKeep ==
  \A n \in MsgIds :
    \/ msgs'[n].payment \in {msgs[n].payment, None}
    \/ \E v \in Workers : Busy(v) /\ msgs'[n].payment = task[v].payment

(* Only a republish makes a message.                                        *)
LEMMA MessagesStep == Typed /\ ConsumerStep => MessagesKeep
<1> SUFFICES ASSUME Typed, ConsumerStep PROVE MessagesKeep
  OBVIOUS
<1>0. BrokerTypeOK /\ msgs \in [MsgIds -> Message]
  BY DEF Typed, TypeOK, BrokerTypeOK
<1> USE <1>0 DEF MessagesKeep, Message
<1>1. ASSUME NEW p \in Payments, LockTtl(p) PROVE MessagesKeep
  BY <1>1 DEF LockTtl
<1>2. ASSUME NEW m \in MsgIds, RetryTtl(m) PROVE MessagesKeep
  BY <1>2 DEF RetryTtl, ExpireTtl, Moved, DeadLetterTo
<1>3. ASSUME NEW m \in MsgIds, NEW w \in Workers, Receive(m, w) PROVE MessagesKeep
  BY <1>3, DeliverEffect DEF Receive
<1>4. ASSUME NEW w \in Workers, AcquireLock(w) PROVE MessagesKeep
  BY <1>4 DEF AcquireLock
<1>5. ASSUME NEW w \in Workers, LockTimeout(w) PROVE MessagesKeep
  BY <1>5 DEF LockTimeout
<1>6. ASSUME NEW w \in Workers, Load(w) PROVE MessagesKeep
  BY <1>6 DEF Load
<1>7. ASSUME NEW w \in Workers, Charge(w) PROVE MessagesKeep
  BY <1>7 DEF Charge
<1>8. ASSUME NEW w \in Workers, RecordOutcome(w) PROVE MessagesKeep
  BY <1>8 DEF RecordOutcome
<1>9. ASSUME NEW w \in Workers, PostWebhook(w) PROVE MessagesKeep
  BY <1>9 DEF PostWebhook
<1>10. ASSUME NEW w \in Workers, StampDelivered(w) PROVE MessagesKeep
  BY <1>10 DEF StampDelivered
<1>11. ASSUME NEW w \in Workers, ReleaseLock(w) PROVE MessagesKeep
  BY <1>11 DEF ReleaseLock
<1>12. ASSUME NEW w \in Workers, PassThrough(w) PROVE MessagesKeep
  BY <1>12 DEF PassThrough
<1>13. ASSUME NEW w \in Workers, Republish(w) PROVE MessagesKeep
  BY <1>13 DEF Republish, At, Publish, Stored, Busy
<1>14. ASSUME NEW w \in Workers, Settle(w) PROVE MessagesKeep
  <2>1. task[w].msg \in MsgIds
    BY <1>14 DEF Settle, At, Typed, TaskRef, Busy
  <2>2. \A n \in MsgIds \ {task[w].msg} : msgs'[n] = msgs[n]
    BY <1>14, <2>1, SettleEffect
  <2>3. msgs'[task[w].msg] \in {msgs[task[w].msg], NoMessage}
        \/ msgs'[task[w].msg].payment = msgs[task[w].msg].payment
    BY <1>14, <2>1, SettleEffect
  <2> QED
    BY <2>2, <2>3 DEF NoMessage
<1>15. ASSUME NEW w \in Workers, AcquireFails(w) PROVE MessagesKeep
  BY <1>15 DEF AcquireFails
<1>16. ASSUME NEW w \in Workers, LoadFails(w) PROVE MessagesKeep
  BY <1>16 DEF LoadFails
<1>17. ASSUME NEW w \in Workers, RecordFails(w) PROVE MessagesKeep
  BY <1>17 DEF RecordFails
<1>18. ASSUME NEW w \in Workers, StampFails(w) PROVE MessagesKeep
  BY <1>18 DEF StampFails
<1>19. ASSUME NEW w \in Workers, ReleaseFails(w) PROVE MessagesKeep
  BY <1>19 DEF ReleaseFails
<1>20. ASSUME NEW w \in Workers, RepublishFails(w) PROVE MessagesKeep
  BY <1>20 DEF RepublishFails, At, Publish, Stored, Busy
<1>21. ASSUME Crash PROVE MessagesKeep
  BY <1>21, RequeueEffect DEF Crash
<1>22. ASSUME Restart PROVE MessagesKeep
  BY <1>22 DEF Restart
<1>23. ASSUME ConnectionLost PROVE MessagesKeep
  BY <1>23, RequeueEffect DEF ConnectionLost
<1> QED
  BY <1>1, <1>2, <1>3, <1>4, <1>5, <1>6, <1>7, <1>8, <1>9, <1>10, <1>11,
  <1>12, <1>13, <1>14, <1>15, <1>16, <1>17, <1>18, <1>19, <1>20, <1>21, <1>22,
  <1>23 DEF ConsumerStep, TaskStep, CallFails

(* Nothing is charged or reported except by a task, for its payment.       *)
HistoryKeeps ==
  \A p \in Payments :
    \/ charges'[p] = charges[p] /\ reported'[p] = reported[p]
    \/ \E w \in Workers : Busy(w) /\ task[w].payment = p

(* Only a task charges and reports.                                         *)
LEMMA HistoryStep == Typed /\ ConsumerStep => HistoryKeeps
<1> SUFFICES ASSUME Typed, ConsumerStep PROVE HistoryKeeps
  OBVIOUS
<1>0. /\ charges \in [Payments -> Nat] /\ reported \in [Payments -> SUBSET Statuses]
      /\ task \in [Workers -> Task]
  BY DEF Typed, TypeOK
<1>1. ASSUME Quiet \/ Crash PROVE HistoryKeeps
  BY <1>1 DEF Quiet, Crash, HistoryKeeps
<1>2. ASSUME NEW w \in Workers,
             \/ Load(w) \/ Charge(w) \/ RecordOutcome(w) \/ PostWebhook(w)
             \/ StampDelivered(w) \/ RecordFails(w) \/ StampFails(w)
      PROVE  HistoryKeeps
  <2>1. Busy(w)
    BY <1>2 DEF Load, Charge, RecordOutcome, PostWebhook, StampDelivered, RecordFails,
    StampFails, At, Busy
  <2>2. \A p \in Payments \ {task[w].payment} :
          charges'[p] = charges[p] /\ reported'[p] = reported[p]
    <3>1. CASE Charge(w)
      BY <1>0, <3>1 DEF Charge
    <3>2. CASE PostWebhook(w)
      BY <1>0, <3>2 DEF PostWebhook
    <3>3. CASE Load(w) \/ RecordOutcome(w) \/ StampDelivered(w) \/ RecordFails(w) \/ StampFails(w)
      BY <3>3 DEF Load, RecordOutcome, StampDelivered, RecordFails, StampFails, history
    <3> QED
      BY <1>2, <3>1, <3>2, <3>3
  <2> QED
    BY <2>1, <2>2 DEF HistoryKeeps
<1> QED
  BY <1>1, <1>2, QuietOrLoud, ConsumerIsNext DEF Loud

(* A consumer neither creates nor deletes rows.                            *)
LEMMA StatusStep ==
  ASSUME Typed, TaskInv, Next, NEW p \in Payments
  PROVE  Exists(p)' <=> Exists(p)
<1> USE DEF Exists
<1>0. payments \in [Payments -> Row] /\ \A w \in Workers : TaskOK(w)
  BY DEF Typed, TypeOK, TaskInv
<1>1. CASE Quiet \/ Crash
  BY <1>1 DEF Quiet, Crash
<1>2. ASSUME NEW w \in Workers, Load(w) \/ Charge(w) \/ PostWebhook(w)
      PROVE  payments' = payments
  BY <1>2 DEF Load, Charge, PostWebhook
<1>3. ASSUME NEW w \in Workers, RecordOutcome(w) \/ RecordFails(w) PROVE Exists(p)' <=> Exists(p)
  BY <1>0, <1>3 DEF RecordOutcome, RecordFails, Recorded, At, TaskOK, Row
<1>4. ASSUME NEW w \in Workers, StampDelivered(w) \/ StampFails(w) PROVE payments'[p].status = payments[p].status
  BY <1>0, <1>4 DEF StampDelivered, StampFails, Stamped, Row
<1> QED
  BY <1>1, <1>2, <1>3, <1>4, QuietOrLoud DEF Loud

(* The consumer leaves alone what no payment exists for.                   *)
LEMMA ConsumerKeeps ==
  ASSUME SystemInv, ConsumerStep
  PROVE  SystemInv'
<1>1. Next /\ UNCHANGED <<apiVars, outbox, proc, refused>>
  BY ConsumerIsNext DEF ConsumerStep, Consumed
<1>2. Typed' /\ TaskInv' /\ DeliveryInv' /\ NoSilentLoss'
  BY <1>1, TypedStep, TaskInvStep, DeliveryStep, LossStep DEF SystemInv
<1>3. published' = published
  BY DEF ConsumerStep, LockTtl, RetryTtl, Receive, TaskStep, AcquireLock, LockTimeout, Load,
  Charge, RecordOutcome, PostWebhook, StampDelivered, ReleaseLock, PassThrough, Republish,
  Settle, CallFails, AcquireFails, LoadFails, RecordFails, StampFails, ReleaseFails,
  RepublishFails, Crash, Restart, ConnectionLost
<1>4. ASSUME NEW p \in Payments PROVE Exists(p)' <=> Exists(p)
  BY <1>1, StatusStep DEF SystemInv
<1>5. ApiInv' /\ TablesAgree'
  BY <1>1, <1>4 DEF SystemInv, ApiInv, ApiTyped, ApiSound, RowOwned, TablesAgree, Committed, apiVars
<1>6. OutboxInv'
  BY <1>1, <1>3, <1>4 DEF SystemInv, OutboxInv, BatchOK, Told, Exists, Outbox!Process
<1>7. Untouched'
  <2>1. \A w \in Workers : Busy(w)' => Exists(task[w].payment)'
    <3>1. ASSUME NEW w \in Workers, Busy(w)' PROVE Exists(task'[w].payment)
      <4>1. CASE Busy(w) /\ task'[w].payment = task[w].payment
        BY <4>1 DEF SystemInv, Untouched
      <4>2. CASE \E m \in MsgIds : msgs[m].place = "new" /\ task'[w].payment = msgs[m].payment
        BY <4>2 DEF SystemInv, Untouched, DeliveryInv
      <4> QED
        BY <3>1, <4>1, <4>2, TasksStep DEF SystemInv, TasksKeep
    <3>2. ASSUME NEW w \in Workers, Busy(w)' PROVE task'[w].payment \in Payments
      BY <1>2, <3>2 DEF Typed, TaskRef
    <3> QED
      BY <1>4, <3>1, <3>2 DEF Exists
  <2>2. Typed /\ Untouched
    BY DEF SystemInv
  <2>3. ASSUME NEW p \in Payments, ~Exists(p)'
        PROVE  /\ published'[p] = 0 /\ charges'[p] = 0 /\ reported'[p] = {}
               /\ \A m \in MsgIds : msgs'[m].payment # p
    <3>1. ~Exists(p) /\ \A v \in Workers : Busy(v) => task[v].payment # p
      BY <1>4, <2>2, <2>3 DEF Untouched
    <3>2. published'[p] = 0 /\ charges'[p] = 0 /\ reported'[p] = {}
      BY <1>3, <2>2, <3>1, HistoryStep DEF Untouched, HistoryKeeps
    <3>3. \A m \in MsgIds : msgs'[m].payment # p
      BY <2>2, <3>1, MessagesStep, NoneIsFresh DEF Untouched, MessagesKeep
    <3> QED
      BY <3>2, <3>3
  <2> QED
    BY <2>1, <2>3 DEF Untouched
<1> QED
  BY <1>2, <1>5, <1>6, <1>7 DEF SystemInv

-----------------------------------------------------------------------------
(* A step of the API.  It changes the consumer's table for one payment at  *)
(* most, of which nothing existed before.                                  *)
New(r) == Committed(r)' /\ ~Committed(r)

(* Rows that exist are left alone; a new one is pending in both tables.     *)
LEMMA ApiEffect ==
  ASSUME SystemInv, ApiStep, NEW r \in Payments
  PROVE  /\ Exists(r) => payments'[r] = payments[r] /\ outbox'[r] = outbox[r]
         /\ ~Exists(r) =>
              \/ /\ Committed(r)'
                 /\ payments'[r] = [status |-> "pending", delivered |-> FALSE]
                 /\ outbox'[r] = [status |-> "pending", retries |-> 0, due |-> TRUE]
              \/ /\ ~Committed(r)'
                 /\ payments'[r] = payments[r] /\ outbox'[r] = outbox[r]
         /\ Committed(r) => Committed(r)'
<1>1. /\ Committed(r) => Committed(r)'
      /\ events'[r] > events[r] <=> New(r)
      /\ Exists(r) <=> Committed(r)
  BY ApiKeeps DEF SystemInv, ApiStep, Joined, TablesAgree, New
<1>2. /\ payments'[r] = IF New(r) THEN [status |-> "pending", delivered |-> FALSE]
                                  ELSE payments[r]
      /\ outbox'[r] = IF events'[r] > events[r]
                        THEN [status |-> "pending", retries |-> 0, due |-> TRUE] ELSE outbox[r]
  BY DEF ApiStep, New
<1>3. CASE New(r)
  BY <1>1, <1>2, <1>3 DEF New
<1>4. CASE ~New(r)
  BY <1>1, <1>2, <1>4 DEF New
<1> QED
  BY <1>3, <1>4

(* The API adds to the faults of all services.                              *)
LEMMA ApiFaults ==
  ASSUME faults \in Nat, Api!Next
  PROVE  faults' \in Nat
<1>1. faults' = faults \/ faults' = faults + 1
  BY DEF Api!Next, Api!Arrive, Api!AcquireLock, Api!LockTimeout, Api!Select, Api!InsertPayment,
  Api!InsertEvent, Api!Commit, Api!ReleaseLock, Api!AcquireFails, Api!ReleaseFails,
  Api!StatementFails, Api!CommitFails, Api!LockTtl, Api!Crash, Api!Fault
<1> QED
  BY <1>1

(* The API keeps the invariant of the whole.                                *)
LEMMA ApiSystemStep ==
  ASSUME SystemInv, ApiStep
  PROVE  SystemInv'
<1>1. ApiInv' /\ Joined /\ faults' \in Nat
  BY ApiKeeps, ApiFaults DEF SystemInv, ApiStep, Typed, TypeOK
<1>2. UNCHANGED <<proc, published, refused, msgs, lock, task, charges, lost, posts, overtaken, reported>>
  BY DEF ApiStep, history
<1>3. Typed /\ TaskInv /\ DeliveryInv /\ NoSilentLoss /\ OutboxInv /\ TablesAgree /\ Untouched
  BY DEF SystemInv
<1>4. ASSUME NEW r \in Payments, Exists(r)
      PROVE  payments'[r] = payments[r] /\ outbox'[r] = outbox[r] /\ Exists(r)'
  BY <1>4, ApiEffect DEF Exists
<1>5. ASSUME NEW r \in Payments
      PROVE  /\ payments'[r] \in Row /\ outbox'[r] \in Outbox!Row
             /\ Exists(r)' <=> Committed(r)'
             /\ Exists(r)' => Told(outbox[r], r)'
             /\ outbox'[r].status # "absent" => Exists(r)'
  <2>1. payments[r] \in Row /\ outbox[r] \in Outbox!Row
        /\ (Exists(r) => Committed(r) /\ Told(outbox[r], r))
        /\ (outbox[r].status # "absent" => Exists(r))
    BY <1>3 DEF Typed, TypeOK, OutboxInv, TablesAgree
  <2>2. CASE Exists(r)
    BY <1>2, <2>1, <2>2, ApiEffect DEF Exists, Told
  <2>3. CASE ~Exists(r) /\ Committed(r)'
    <3>1. payments'[r] = [status |-> "pending", delivered |-> FALSE]
          /\ outbox'[r] = [status |-> "pending", retries |-> 0, due |-> TRUE]
      BY <2>3, ApiEffect
    <3> QED
      BY <2>3, <3>1 DEF Exists, Told, Row, Statuses, Outbox!Row
  <2>4. CASE ~Exists(r) /\ ~Committed(r)'
    BY <2>1, <2>4, ApiEffect DEF Exists
  <2> QED
    BY <2>2, <2>3, <2>4
<1>6. payments' \in [Payments -> Row] /\ outbox' \in [Payments -> Outbox!Row]
  BY <1>5 DEF ApiStep
<1>7. Typed'
  BY <1>1, <1>2, <1>3, <1>6
  DEF Typed, TypeOK, BrokerTypeOK, LockTypeOK, TaskRef, MsgRef, Busy
<1>8. TaskInv'
  <2> SUFFICES ASSUME NEW w \in Workers PROVE TaskOK(w)'
    BY DEF TaskInv
  <2>1. TaskOK(w) /\ task'[w] = task[w]
    BY <1>2, <1>3 DEF TaskInv
  <2>2. CASE Busy(w)
    <3>1. task[w].payment \in Payments /\ payments'[task[w].payment] = payments[task[w].payment]
      BY <1>3, <1>4, <2>2 DEF Untouched, Typed, TaskRef
    <3> QED
      BY <2>1, <2>2, <3>1 DEF TaskOK, Busy, At, Settled, Done
  <2>3. CASE ~Busy(w)
    BY <2>1, <2>3 DEF TaskOK, Busy, At
  <2> QED
    BY <2>2, <2>3
<1>9. DeliveryInv'
  BY <1>2, <1>3 DEF DeliveryInv, Busy
<1>10. NoSilentLoss'
  BY <1>2, <1>3, <1>4 DEF NoSilentLoss, Carrying, Done, Untouched
<1>11. OutboxInv'
  <2>1. ASSUME NEW w \in Publishers PROVE BatchOK(w)'
    <3>1. BatchOK(w) /\ proc'[w] = proc[w] /\ proc[w].batch \subseteq Payments
      BY <1>2, <1>3, OutboxTyping
    <3>2. \A e \in proc[w].batch : Exists(e)' /\ Told(proc[w].written[e], e)
      BY <1>4, <3>1 DEF BatchOK
    <3> QED
      BY <1>2, <3>1, <3>2 DEF BatchOK, Told
  <2> QED
    BY <1>2, <1>3, <1>5, <1>6, <2>1 DEF OutboxInv
<1>12. TablesAgree'
  BY <1>5 DEF TablesAgree
<1>13. Untouched'
  <2>1. ASSUME NEW r \in Payments, ~Exists(r)' PROVE ~Exists(r)
    BY <1>4, <2>1
  <2>2. ASSUME NEW w \in Workers, Busy(w)' PROVE Exists(task[w].payment)'
    BY <1>2, <1>3, <1>4, <2>2 DEF Untouched, Typed, TaskRef, Busy, Exists
  <2> QED
    BY <1>2, <1>3, <2>1, <2>2 DEF Untouched
<1> QED
  BY <1>1, <1>7, <1>8, <1>9, <1>10, <1>11, <1>12, <1>13 DEF SystemInv

(* The new row is one that nobody has charged for.                         *)
LEMMA ApiChargedStep ==
  ASSUME ChargedSystem, ApiStep
  PROVE  ChargedSystem'
<1>1. SystemInv /\ SystemInv' /\ LockInv /\ ChargeInv
  BY ApiSystemStep DEF ChargedSystem
<1>2. UNCHANGED <<lock, task, charges, lost, overtaken>>
  BY DEF ApiStep, history
<1>3. LockInv'
  BY <1>1, <1>2 DEF LockInv, Late
<1>4. ASSUME NEW p \in Payments PROVE Settled(p)' = Settled(p)
  <2>1. CASE payments'[p] = payments[p]
    BY <2>1 DEF Settled
  <2>2. CASE ~Exists(p) /\ payments'[p] = [status |-> "pending", delivered |-> FALSE]
    BY <2>2 DEF Settled, Exists
  <2> QED
    BY <1>1, <2>1, <2>2, ApiEffect
<1>5. ChargeInv'
  BY <1>1, <1>2, <1>4 DEF ChargeInv, Unrecorded, Charging, At
<1> QED
  BY <1>1, <1>3, <1>5 DEF ChargedSystem

-----------------------------------------------------------------------------
(* A step of a publisher.  What the consumer sees of it is a new message.  *)
LEMMA PublisherEffect ==
  ASSUME PublisherStep
  PROVE  /\ UNCHANGED <<apiVars, lock, payments, task, history>>
         /\ \/ UNCHANGED <<msgs, published>>
            \/ \E e \in Payments, m \in MsgIds :
                 published'[e] > published[e] /\ Publish(m, e, 0, "new")
BY DEF PublisherStep, Published, Forward

(* So do the publishers.                                                    *)
LEMMA PublisherFaults ==
  ASSUME faults \in Nat, PublisherStep
  PROVE  faults' \in Nat
<1>1. faults' = faults \/ faults' = faults + 1
  BY DEF PublisherStep, Outbox!BackoffElapses, Outbox!Step, Outbox!LockBatch, Outbox!Publish,
  Outbox!MarkPublished, Outbox!MarkFailed, Outbox!CommitBatch, Outbox!Restart,
  Outbox!PublishFails, Outbox!UpdateFails, Outbox!CommitFails, Outbox!Crash, Outbox!Fault
<1> QED
  BY <1>1

(* What the broker stores for them.                                         *)
LEMMA StoredEffect ==
  ASSUME BrokerTypeOK, NEW e \in Payments, NEW m \in MsgIds, Publish(m, e, 0, "new")
  PROVE  /\ msgs' \in [MsgIds -> Message]
         /\ msgs[m] = NoMessage
         /\ msgs'[m].payment = e /\ msgs'[m].place = "new"
         /\ \A n \in MsgIds \ {m} : msgs'[n] = msgs[n]
<1> DEFINE new == [payment |-> e, retries |-> 0, place |-> "new", holder |-> None]
<1>1. new \in Message /\ new.payment = e /\ new.place = "new"
  BY DEF Message, Queues
<1>2. msgs[m] = NoMessage /\ msgs' = [msgs EXCEPT ![m] = new]
  BY DEF Publish, Stored
<1> HIDE DEF new
<1> QED
  BY <1>1, <1>2 DEF BrokerTypeOK

(* The publishers keep the invariant of the whole.                          *)
LEMMA PublisherSystemStep ==
  ASSUME SystemInv, PublisherStep
  PROVE  SystemInv'
<1>1. Typed /\ TaskInv /\ DeliveryInv /\ NoSilentLoss /\ OutboxInv /\ Untouched /\ BrokerTypeOK
  BY DEF SystemInv, Typed, TypeOK
<1>2. OutboxInv' /\ Counts
  BY <1>1, OutboxKeeps DEF Typed, TypeOK
<1>3. UNCHANGED <<apiLock, rows, events, req, lock, payments, task, charges, lost, posts, overtaken, reported>>
  BY PublisherEffect DEF apiVars, history
<1>4. faults' \in Nat /\ published' \in [Payments -> Nat]
  BY <1>1, <1>2, CountsGrow, PublisherFaults DEF Typed, TypeOK, Grows
<1>5. ApiInv' /\ TablesAgree'
  BY <1>3 DEF SystemInv, ApiInv, ApiTyped, ApiSound, RowOwned, TablesAgree, Committed, Exists
<1>6. TaskInv'
  BY <1>1, <1>3 DEF TaskInv, TaskOK, Busy, At, Settled, Done
<1>7. CASE UNCHANGED <<msgs, published>>
  <2>1. Typed'
    BY <1>1, <1>3, <1>4, <1>7
    DEF Typed, TypeOK, BrokerTypeOK, LockTypeOK, TaskRef, MsgRef, Busy
  <2>2. DeliveryInv' /\ NoSilentLoss' /\ Untouched'
    BY <1>1, <1>3, <1>7 DEF DeliveryInv, NoSilentLoss, Untouched, Busy, Carrying, Done, Exists
  <2> QED
    BY <1>2, <1>5, <1>6, <2>1, <2>2 DEF SystemInv
<1>8. ASSUME NEW e \in Payments, NEW m \in MsgIds,
             published'[e] > published[e], Publish(m, e, 0, "new")
      PROVE  SystemInv'
  <2>1. /\ msgs' \in [MsgIds -> Message]
        /\ msgs[m].place = "nowhere" /\ msgs'[m].payment = e /\ msgs'[m].place = "new"
        /\ \A n \in MsgIds \ {m} : msgs'[n] = msgs[n]
    BY <1>1, <1>8, StoredEffect DEF NoMessage
  <2>2. Exists(e) /\ \A p \in Payments \ {e} : published'[p] = published[p]
    BY <1>1, <1>2, <1>8 DEF Counts, Typed, TypeOK
  <2>3. Typed'
    BY <1>1, <1>3, <1>4, <2>1
    DEF Typed, TypeOK, BrokerTypeOK, LockTypeOK, TaskRef, MsgRef, Busy
  <2>4. DeliveryInv'
    BY <1>1, <1>3, <2>1 DEF DeliveryInv, Busy
  <2>5. ASSUME NEW p \in Payments, published'[p] > 0, ~Done(p)'
        PROVE  \E n \in MsgIds : msgs'[n].payment = p /\ Carrying(n)'
    <3>1. CASE p = e
      BY <2>1, <3>1 DEF Carrying, Queues
    <3>2. CASE p # e
      <4>1. published[p] > 0 /\ ~Done(p)
        BY <1>3, <2>2, <2>5, <3>2 DEF Done
      <4>2. PICK n \in MsgIds : msgs[n].payment = p /\ Carrying(n)
        BY <1>1, <4>1 DEF NoSilentLoss
      <4>3. n # m
        BY <2>1, <4>2 DEF Carrying, Queues
      <4> QED
        BY <1>3, <2>1, <4>2, <4>3 DEF Carrying
    <3> QED
      BY <3>1, <3>2
  <2>6. NoSilentLoss'
    BY <2>5 DEF NoSilentLoss
  <2>7. Untouched'
    <3>1. ASSUME NEW r \in Payments, ~Exists(r)'
          PROVE  /\ published'[r] = 0 /\ charges'[r] = 0 /\ reported'[r] = {}
                 /\ \A n \in MsgIds : msgs'[n].payment # r
      <4>1. ~Exists(r) /\ r # e
        BY <1>3, <2>2, <3>1 DEF Exists
      <4> QED
        BY <1>1, <1>3, <2>1, <2>2, <4>1 DEF Untouched
    <3>2. \A w \in Workers : Busy(w)' => Exists(task[w].payment)'
      BY <1>1, <1>3 DEF Untouched, Busy, Exists
    <3> QED
      BY <3>1, <3>2 DEF Untouched
  <2> QED
    BY <1>2, <1>5, <1>6, <2>3, <2>4, <2>6, <2>7 DEF SystemInv
<1> QED
  BY <1>7, <1>8, PublisherEffect

-----------------------------------------------------------------------------
(* The initial state, and every step.                                      *)
LEMMA SystemStart == SystemInit => ChargedSystem
<1> SUFFICES ASSUME SystemInit PROVE ChargedSystem
  OBVIOUS
<1>1. Init /\ Api!Init /\ Outbox!Init
  BY DEF SystemInit
<1>2. \A p \in Payments :
        /\ payments[p] = NoRow /\ charges[p] = 0 /\ lost[p] = 0
        /\ published[p] = 0 /\ reported[p] = {}
  BY <1>1, SystemConstants DEF Init
<1>3. \A w \in Workers : task[w] = Idle
  BY <1>1 DEF Init
<1>4. \A m \in MsgIds : msgs[m] = NoMessage
  BY <1>1 DEF Init, BrokerInit
<1>5. Typed
  BY <1>1, TypedInit
<1>6. TaskInv /\ LockInv /\ \A w \in Workers : ~Busy(w)
  BY <1>1, <1>3, LockStart DEF TaskInv, TaskOK, Idle, Busy, At
<1>7. DeliveryInv /\ NoSilentLoss
  BY <1>2, <1>4 DEF NoMessage, DeliveryInv, NoSilentLoss
<1>8. ChargeInv
  BY <1>1, ChargeStart
<1>9. ApiInv
  <2>1. /\ rows = [k \in Keys |-> Api!NoRow] /\ events = [r \in Payments |-> 0]
        /\ req = [r \in Payments |-> Api!NewRequest]
    BY <1>1 DEF Api!Init
  <2>2. Api!NewRequest \in Api!Request /\ Api!NewRequest.pc = "new" /\ Api!NewRequest.code = 0
    BY DEF Api!NewRequest, Api!Request
  <2>3. Api!NoRow \in [payment : Payments \cup {None}, body : Bodies \cup {None}]
    BY DEF Api!NoRow
  <2>4. ApiTyped
    <3>1. req \in [Payments -> Api!Request]
      BY <2>1, <2>2
    <3>2. rows \in [Keys -> [payment : Payments \cup {None}, body : Bodies \cup {None}]]
      BY <2>1, <2>3
    <3> QED
      BY <2>1, <3>1, <3>2 DEF ApiTyped
  <2>5. ASSUME NEW r \in Payments PROVE ApiSound(r)
    <3>1. req[r].pc = "new" /\ req[r].code = 0
      BY <2>1, <2>2
    <3> QED
      BY <3>1 DEF ApiSound, Writing
  <2>6. \A k \in Keys : RowOwned(k)
    BY <2>1 DEF RowOwned
  <2> QED
    BY <2>4, <2>5, <2>6 DEF ApiInv
<1>10. TablesAgree
  <2>1. \A k \in Keys : rows[k].payment = None
    BY <1>1 DEF Api!Init, Api!NoRow
  <2> QED
    BY <1>2, <2>1, ApiConstants DEF TablesAgree, Exists, Committed, NoRow
<1>11. OutboxInv
  <2>1. /\ outbox = [e \in Payments |-> Outbox!Absent]
        /\ proc = [w \in Publishers |-> Outbox!IdleProcess]
    BY <1>1 DEF Outbox!Init
  <2>2. Outbox!Absent \in Outbox!Row /\ Outbox!Absent.status = "absent"
    BY DEF Outbox!Absent, Outbox!Row
  <2>3. [x \in Payments |-> Outbox!Absent] \in [Payments -> Outbox!Row]
    BY <2>2
  <2>4. /\ Outbox!IdleProcess \in Outbox!Process
        /\ Outbox!IdleProcess.pc = "idle"
        /\ Outbox!IdleProcess.batch = {} /\ Outbox!IdleProcess.todo = {}
    BY <2>3 DEF Outbox!IdleProcess, Outbox!Process
  <2>5. \A w \in Publishers : BatchOK(w)
    BY <2>1, <2>4 DEF BatchOK
  <2> QED
    BY <1>2, <2>1, <2>2, <2>4, <2>5 DEF OutboxInv, Exists, NoRow
<1>12. Untouched
  BY <1>2, <1>4, <1>6, NoneIsFresh DEF Untouched, NoMessage
<1> QED
  BY <1>5, <1>6, <1>7, <1>8, <1>9, <1>10, <1>11, <1>12 DEF ChargedSystem, SystemInv

(* A step outside the system changes nothing.                               *)
LEMMA Standstill ==
  ASSUME UNCHANGED systemVars
  PROVE  (SystemInv => SystemInv') /\ (ChargedSystem => ChargedSystem')
<1>1. UNCHANGED <<apiLock, rows, events, req, outbox, proc, refused, msgs, lock, payments, task,
                  charges, lost, posts, reported, overtaken, published, faults>>
  BY DEF systemVars, apiVars, outboxVars, consumerVars, history
<1>2. Typed => Typed'
  BY <1>1 DEF Typed, TypeOK, BrokerTypeOK, LockTypeOK, TaskRef, MsgRef, Busy
<1>3. TaskInv => TaskInv'
  BY <1>1 DEF TaskInv, TaskOK, Busy, At, Settled, Done
<1>4. (DeliveryInv => DeliveryInv') /\ (NoSilentLoss => NoSilentLoss')
  BY <1>1 DEF DeliveryInv, NoSilentLoss, Busy, Carrying, Done
<1>5. ApiInv => ApiInv'
  BY <1>1 DEF ApiInv, ApiTyped, ApiSound, RowOwned
<1>6. OutboxInv => OutboxInv'
  BY <1>1 DEF OutboxInv, BatchOK, Told, Exists
<1>7. (TablesAgree => TablesAgree') /\ (Untouched => Untouched')
  BY <1>1 DEF TablesAgree, Untouched, Committed, Exists, Busy
<1>8. (LockInv => LockInv') /\ (ChargeInv => ChargeInv')
  BY <1>1 DEF LockInv, Late, ChargeInv, Unrecorded, Charging, Settled, At
<1> QED
  BY <1>2, <1>3, <1>4, <1>5, <1>6, <1>7, <1>8 DEF SystemInv, ChargedSystem

(* Every step keeps the invariant of the whole.                             *)
LEMMA SystemStep == SystemInv /\ [SystemNext]_systemVars => SystemInv'
BY ApiSystemStep, PublisherSystemStep, ConsumerKeeps, Standstill DEF SystemNext

(* So it does what the lock leaves room for.                                *)
LEMMA ChargedSystemStep ==
  ChargedSystem /\ [SystemNext]_systemVars => ChargedSystem'
<1> SUFFICES ASSUME ChargedSystem, [SystemNext]_systemVars PROVE ChargedSystem'
  OBVIOUS
<1>1. CASE ApiStep
  BY <1>1, ApiChargedStep
<1>2. CASE PublisherStep
  <2>1. UNCHANGED <<lock, payments, task, charges, lost, overtaken>>
    BY <1>2, PublisherEffect DEF history
  <2>2. LockInv' /\ ChargeInv'
    BY <2>1 DEF ChargedSystem, LockInv, Late, ChargeInv, Unrecorded, Charging, Settled, At
  <2> QED
    BY <1>2, <2>2, PublisherSystemStep DEF ChargedSystem
<1>3. CASE ConsumerStep
  <2>1. Typed /\ LockInv /\ ChargeInv /\ Next
    BY <1>3, ConsumerIsNext DEF ChargedSystem, SystemInv
  <2>2. LockInv' /\ ChargeInv'
    BY <2>1, LockStep, ChargeStep
  <2> QED
    BY <1>3, <2>2, ConsumerKeeps DEF ChargedSystem
<1> QED
  BY <1>1, <1>2, <1>3, Standstill DEF SystemNext

-----------------------------------------------------------------------------
(* A committed payment is never stranded between the services: its event   *)
(* is still to be published, has been given up on, or a message carries    *)
(* it.  No assumption on how long the lock's holders take.                 *)
THEOREM NeverStranded == SystemSpec => []NothingStranded
<1>1. SystemInit => SystemInv
  BY SystemStart DEF ChargedSystem
<1>2. SystemInv => NothingStranded
  BY DEF SystemInv, OutboxInv, Told, NoSilentLoss, NothingStranded, Typed, TypeOK
<1> QED
  BY <1>1, <1>2, SystemStep, PTL DEF SystemSpec

(* Nothing is published, charged or reported for a request that committed  *)
(* no payment, and a client told 202 is told of one that exists.           *)
THEOREM OnlyCommitted == SystemSpec => []OnlyCommittedPayments
<1>1. SystemInit => SystemInv
  BY SystemStart DEF ChargedSystem
<1>2. SystemInv => OnlyCommittedPayments
  <2> SUFFICES ASSUME SystemInv, NEW r \in Payments, Accepted(r)
               PROVE  Exists(req[r].payment)
    BY DEF OnlyCommittedPayments, SystemInv, Untouched
  <2>1. /\ req[r].payment \in Payments /\ req[r].key \in Keys
        /\ rows[req[r].key].payment = req[r].payment
    BY DEF Accepted, SystemInv, ApiInv, ApiSound, Ended
  <2> QED
    BY <2>1 DEF SystemInv, TablesAgree, Committed
<1> QED
  BY <1>1, <1>2, SystemStep, PTL DEF SystemSpec

(* However often a client repeats a request with its key, one payment is   *)
(* charged for it, once, and once more for each charge that was lost       *)
(* before it was recorded and each time the payment's lock expired under a *)
(* task.  Neither lock's holders need to be in time for this.              *)
THEOREM ChargedOnce == SystemSpec => []OneChargePerKey
<1>1. ChargedSystem => OneChargePerKey
  <2> SUFFICES ASSUME ChargedSystem, NEW r \in Payments, NEW s \in Payments,
                      charges[r] > 0, charges[s] > 0, req[r].key = req[s].key
               PROVE  r = s /\ charges[r] <= 1 + lost[r] + overtaken[r]
    BY DEF OneChargePerKey
  <2>1. Exists(r) /\ Exists(s)
    BY DEF ChargedSystem, SystemInv, Untouched
  <2>2. ASSUME NEW p \in Payments, Exists(p) PROVE rows[req[p].key].payment = p
    <3>1. PICK k \in Keys : rows[k].payment = p
      BY <2>2 DEF ChargedSystem, SystemInv, TablesAgree, Committed
    <3>2. rows[k] # Api!NoRow
      BY <3>1, ApiConstants DEF Api!NoRow
    <3> QED
      BY <3>1, <3>2 DEF ChargedSystem, SystemInv, ApiInv, RowOwned
  <2>3. r = s
    BY <2>1, <2>2
  <2>4. charges[r] <= 1 + lost[r] + overtaken[r]
    BY ChargeBound DEF ChargedSystem, SystemInv
  <2> QED
    BY <2>3, <2>4
<1> QED
  BY <1>1, SystemStart, ChargedSystemStep, PTL DEF SystemSpec
=============================================================================
