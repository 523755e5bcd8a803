----------------------- MODULE OutboxPublisher_proofs -----------------------
(***************************************************************************)
(* Proofs about OutboxPublisher, for any number of events, processes,      *)
(* retries and faults.                                                     *)
(*                                                                         *)
(* The inductive invariant says what a row lock is good for: a locked row  *)
(* stays pending and due, and what its transaction has not handled yet is  *)
(* still as committed (Shape).  So each row has one author at a time, and  *)
(* the rows a transaction has written but not committed can be accounted   *)
(* for like committed ones (Honest, Counted).                              *)
(***************************************************************************)
EXTENDS OutboxPublisher, TLAPS

Shape(w) ==
  /\ proc[w].pc \in {"idle", "down"} => proc[w].batch = {}
  /\ proc[w].todo \subseteq proc[w].batch
  /\ proc[w].pc \in {"published", "refused"} => proc[w].current \in proc[w].todo
  /\ \A e \in proc[w].batch : outbox[e].status = "pending" /\ outbox[e].due
  /\ \A e \in proc[w].todo : proc[w].written[e] = outbox[e]

Earned(row, e) ==
  /\ row.status = "published" => sent[e] >= 1
  /\ row.status = "failed" => refused[e] >= MaxPublishRetries
  /\ row.retries <= refused[e]

Honest(w) ==
  /\ \A e \in proc[w].batch : Earned(proc[w].written[e], e)
  /\ proc[w].pc = "published" => sent[proc[w].current] >= 1
  /\ proc[w].pc = "refused" =>
       proc[w].written[proc[w].current].retries + 1 <= refused[proc[w].current]

(* w's transaction has the event published, or is about to write that.     *)
Holding(w, e) ==
  /\ e \in proc[w].batch
  /\ \/ proc[w].pc = "published" /\ proc[w].current = e
     \/ proc[w].written[e].status = "published"

Settled(e) == outbox[e].status = "published" \/ \E w \in Publishers : Holding(w, e)

Counted(e) == sent[e] <= faults + IF Settled(e) THEN 1 ELSE 0

(* The row locks keep batches apart.                                       *)
DisjointBatches ==
  \A v, w \in Publishers : v # w => proc[v].batch \cap proc[w].batch = {}

Inv ==
  /\ TypeOK
  /\ DisjointBatches
  /\ \A w \in Publishers : Shape(w) /\ Honest(w)
  /\ \A e \in Events : Earned(outbox[e], e) /\ Counted(e)

-----------------------------------------------------------------------------
(* The invariant holds initially.                                          *)
LEMMA InitInv == Init => Inv
<1> SUFFICES ASSUME Init PROVE Inv
  OBVIOUS
<1> USE OutboxConstants
<1>1. \A w \in Publishers :
        /\ proc[w].pc = "idle"
        /\ proc[w].batch = {}
        /\ proc[w].todo = {}
  BY DEF Init, IdleProcess
<1>2. Absent \in Row /\ [e \in Events |-> Absent] \in [Events -> Row]
  BY DEF Absent, Row
<1>3. IdleProcess \in Process
  BY <1>2 DEF IdleProcess, Process
<1>4. TypeOK
  <2>1. outbox \in [Events -> Row] /\ faults \in 0..MaxFaults
    BY <1>2 DEF Init
  <2>2. proc \in [Publishers -> Process]
    BY <1>3 DEF Init
  <2>3. sent \in [Events -> Nat] /\ refused \in [Events -> Nat]
    BY DEF Init
  <2> QED
    BY <2>1, <2>2, <2>3 DEF TypeOK
<1>5. DisjointBatches
  BY <1>1 DEF DisjointBatches
<1>6. \A w \in Publishers : Shape(w) /\ Honest(w)
  BY <1>1 DEF Shape, Honest
<1>7. ASSUME NEW e \in Events PROVE Earned(outbox[e], e) /\ Counted(e)
  BY DEF Init, Absent, Earned, Counted
<1> QED
  BY <1>4, <1>5, <1>6, <1>7 DEF Inv

(* The steps of one process on its own batch.                              *)
LEMMA OwnStep ==
  ASSUME Inv, NEW w \in Publishers,
         UNCHANGED outbox,
         proc' \in [Publishers -> Process],
         \A v \in Publishers \ {w} : proc'[v] = proc[v],
         proc'[w].batch = proc[w].batch,
         sent' \in [Events -> Nat], refused' \in [Events -> Nat],
         \A e \in Events : sent'[e] >= sent[e] /\ refused'[e] >= refused[e],
         faults' \in 0..MaxFaults,
         Shape(w)', Honest(w)', \A e \in Events : Counted(e)'
  PROVE  Inv'
<1>1. TypeOK'
  BY DEF Inv, TypeOK
<1>2. DisjointBatches'
  BY DEF Inv, DisjointBatches
<1>3. ASSUME NEW e \in Events
      PROVE  /\ sent[e] \in Nat /\ sent'[e] \in Nat /\ sent'[e] >= sent[e]
             /\ refused[e] \in Nat /\ refused'[e] \in Nat /\ refused'[e] >= refused[e]
             /\ MaxPublishRetries \in Nat
  BY OutboxConstants DEF Inv, TypeOK
<1>4. ASSUME NEW v \in Publishers, v # w PROVE Shape(v)' /\ Honest(v)'
  <2>1. proc'[v] = proc[v] /\ Shape(v) /\ Honest(v) /\ proc[v] \in Process
    BY <1>4 DEF Inv, TypeOK
  <2>2. Shape(v)'
    BY <2>1 DEF Shape
  <2>3. \A e \in proc[v].batch : e \in Events /\ proc[v].written[e] \in Row
    BY <2>1 DEF Process
  <2>4. proc[v].pc \in {"published", "refused"} =>
          proc[v].current \in Events /\ proc[v].written[proc[v].current] \in Row
    BY <2>1, <2>3 DEF Shape
  <2>5. \A e \in proc[v].batch : Earned(proc[v].written[e], e)'
    <3> SUFFICES ASSUME NEW e \in proc[v].batch PROVE Earned(proc[v].written[e], e)'
      OBVIOUS
    <3>1. Earned(proc[v].written[e], e) /\ e \in Events /\ proc[v].written[e] \in Row
      BY <2>1, <2>3 DEF Honest
    <3>2. proc'[v].written[e] = proc[v].written[e]
      BY <2>1
    <3>3. proc[v].written[e].retries \in Nat
      BY <3>1 DEF Row
    <3>4. Earned(proc[v].written[e], e)' <=>
            /\ proc[v].written[e].status = "published" => sent'[e] >= 1
            /\ proc[v].written[e].status = "failed" => refused'[e] >= MaxPublishRetries
            /\ proc[v].written[e].retries <= refused'[e]
      BY <3>2 DEF Earned
    <3> QED
      BY <1>3, <3>1, <3>3, <3>4 DEF Earned
  <2>6. proc[v].pc = "published" => sent'[proc[v].current] >= 1
    BY <2>1, <2>4 DEF Honest, Inv, TypeOK
  <2>7. proc[v].pc = "refused" =>
          proc[v].written[proc[v].current].retries + 1 <= refused'[proc[v].current]
    BY <2>1, <2>4 DEF Honest, Inv, TypeOK, Row
  <2> QED
    BY <2>1, <2>2, <2>5, <2>6, <2>7 DEF Honest
<1>5. ASSUME NEW e \in Events PROVE Earned(outbox[e], e)'
  <2>1. Earned(outbox[e], e) /\ outbox[e].retries \in Nat
    BY DEF Inv, TypeOK, Row
  <2>2. Earned(outbox[e], e)' <=>
          /\ outbox[e].status = "published" => sent'[e] >= 1
          /\ outbox[e].status = "failed" => refused'[e] >= MaxPublishRetries
          /\ outbox[e].retries <= refused'[e]
    BY DEF Earned
  <2> QED
    BY <1>3, <2>1, <2>2 DEF Earned
<1> QED
  BY <1>1, <1>2, <1>4, <1>5 DEF Inv

(* A row nobody has locked changes, and is not published by that.          *)
LEMMA UnlockedRow ==
  ASSUME Inv, NEW e \in Events,
         UNCHANGED <<proc, sent, refused, faults>>,
         outbox' \in [Events -> Row],
         \A x \in Events \ {e} : outbox'[x] = outbox[x],
         ~(outbox[e].status = "pending" /\ outbox[e].due),
         outbox[e].status # "published",
         outbox'[e].status \notin {"published", "failed"},
         outbox'[e].retries <= refused[e]
  PROVE  Inv'
<1>1. TypeOK'
  BY DEF Inv, TypeOK
<1>2. DisjointBatches'
  BY DEF Inv, DisjointBatches
<1>3. ASSUME NEW v \in Publishers PROVE e \notin proc[v].batch /\ proc[v].batch \subseteq Events
  BY DEF Inv, Shape, TypeOK, Process
<1>4. ASSUME NEW v \in Publishers PROVE Shape(v)' /\ Honest(v)'
  <2>1. Shape(v) /\ Honest(v) /\ proc'[v] = proc[v]
    BY DEF Inv
  <2>2. \A x \in proc[v].batch : outbox'[x] = outbox[x] /\ x \in Events
    BY <1>3
  <2>3. Shape(v)'
    BY <2>1, <2>2 DEF Shape
  <2>4. Honest(v)'
    BY <2>1 DEF Honest, Earned
  <2> QED
    BY <2>3, <2>4
<1>5. ASSUME NEW x \in Events PROVE Earned(outbox[x], x)'
  <2>1. Earned(outbox[x], x)
    BY DEF Inv
  <2>2. CASE x = e
    BY <2>2 DEF Earned
  <2>3. CASE x # e
    BY <2>1, <2>3 DEF Earned
  <2> QED
    BY <2>2, <2>3
<1>6. ASSUME NEW x \in Events PROVE Counted(x)'
  <2>1. Counted(x)
    BY DEF Inv
  <2>2. outbox'[x].status = "published" <=> outbox[x].status = "published"
    OBVIOUS
  <2>3. \A v \in Publishers : Holding(v, x)' <=> Holding(v, x)
    BY DEF Holding
  <2>4. Settled(x)' <=> Settled(x)
    BY <2>2, <2>3 DEF Settled
  <2> QED
    BY <2>1, <2>4 DEF Counted
<1> QED
  BY <1>1, <1>2, <1>4, <1>5, <1>6 DEF Inv

(* A transaction ends: applied, or rolled back at the price of a fault.    *)
LEMMA TransactionEnds ==
  ASSUME Inv, NEW w \in Publishers,
         UNCHANGED <<sent, refused>>,
         proc' \in [Publishers -> Process],
         \A v \in Publishers \ {w} : proc'[v] = proc[v],
         proc'[w].pc \in {"idle", "down"}, proc'[w].batch = {}, proc'[w].todo = {},
         faults' \in 0..MaxFaults,
         \/ outbox' = Applied(w) /\ proc[w].pc = "publish" /\ faults' >= faults
         \/ outbox' = outbox /\ faults' = faults + 1
  PROVE  Inv'
<1>0. faults \in Nat /\ faults' \in Nat /\ \A e \in Events : sent[e] \in Nat
  BY OutboxConstants DEF Inv, TypeOK
<1>1. ASSUME NEW v \in Publishers
      PROVE  proc[v] \in Process /\ proc[v].batch \subseteq Events /\ proc[v].written \in [Events -> Row]
  BY DEF Inv, TypeOK, Process
<1>2. outbox' \in [Events -> Row]
  BY <1>1 DEF Inv, TypeOK, Applied
<1>3. TypeOK'
  BY <1>2 DEF Inv, TypeOK
<1>4. DisjointBatches'
  BY DEF Inv, DisjointBatches
<1>5. ASSUME NEW e \in Events, e \notin proc[w].batch PROVE outbox'[e] = outbox[e]
  BY <1>5 DEF Applied
<1>6. ASSUME NEW v \in Publishers PROVE Shape(v)' /\ Honest(v)'
  <2>1. CASE v = w
    BY <2>1 DEF Shape, Honest
  <2>2. CASE v # w
    <3>1. proc'[v] = proc[v] /\ Shape(v) /\ Honest(v)
      BY <2>2 DEF Inv
    <3>2. \A e \in proc[v].batch : e \in Events /\ e \notin proc[w].batch
      BY <1>1, <2>2 DEF Inv, DisjointBatches
    <3>3. \A e \in proc[v].batch : outbox'[e] = outbox[e]
      BY <1>5, <3>2
    <3>4. Shape(v)'
      BY <3>1, <3>3 DEF Shape
    <3>5. Honest(v)'
      BY <3>1 DEF Honest, Earned
    <3> QED
      BY <3>4, <3>5
  <2> QED
    BY <2>1, <2>2
<1>7. ASSUME NEW e \in Events PROVE Earned(outbox[e], e)'
  <2>1. Earned(outbox[e], e) /\ (e \in proc[w].batch => Earned(proc[w].written[e], e))
    BY DEF Inv, Honest
  <2>2. outbox'[e] = outbox[e] \/ (e \in proc[w].batch /\ outbox'[e] = proc[w].written[e])
    BY DEF Applied
  <2> QED
    BY <2>1, <2>2 DEF Earned
<1>8. ASSUME NEW e \in Events PROVE Counted(e)'
  <2>1. sent[e] <= faults + IF Settled(e) THEN 1 ELSE 0
    BY DEF Inv, Counted
  <2>2. CASE faults' = faults + 1
    BY <1>0, <2>1, <2>2 DEF Counted
  <2>3. CASE outbox' = Applied(w) /\ proc[w].pc = "publish" /\ faults' >= faults
    <3>1. Settled(e) => Settled(e)'
      <4>1. CASE outbox[e].status = "published"
        <5>1. e \notin proc[w].batch
          BY <4>1 DEF Inv, Shape
        <5> QED
          BY <4>1, <5>1, <1>5 DEF Settled
      <4>2. CASE Holding(w, e)
        <5>1. e \in proc[w].batch /\ proc[w].written[e].status = "published"
          BY <2>3, <4>2 DEF Holding
        <5>2. outbox'[e] = proc[w].written[e]
          BY <2>3, <5>1 DEF Applied
        <5> QED
          BY <5>1, <5>2 DEF Settled
      <4>3. ASSUME NEW v \in Publishers, v # w, Holding(v, e) PROVE Settled(e)'
        <5>1. Holding(v, e)'
          BY <4>3 DEF Holding
        <5> QED
          BY <5>1 DEF Settled
      <4> QED
        BY <4>1, <4>2, <4>3 DEF Settled
    <3> QED
      BY <1>0, <2>1, <2>3, <3>1 DEF Counted
  <2> QED
    BY <2>2, <2>3
<1> QED
  BY <1>3, <1>4, <1>6, <1>7, <1>8 DEF Inv

(* What the invariant says of one process and its current event.           *)
LEMMA Typing ==
  ASSUME Inv, NEW w \in Publishers
  PROVE  /\ proc[w] \in Process
         /\ proc[w].batch \subseteq Events /\ proc[w].todo \subseteq proc[w].batch
         /\ proc[w].written \in [Events -> Row]
         /\ faults \in Nat /\ MaxFaults \in Nat /\ MaxPublishRetries \in Nat
         /\ sent \in [Events -> Nat] /\ refused \in [Events -> Nat]
         /\ outbox \in [Events -> Row]
         /\ Shape(w) /\ Honest(w)
BY OutboxConstants DEF Inv, Shape, TypeOK, Process

(* SELECT ... FOR UPDATE SKIP LOCKED.                                       *)
LEMMA LockBatchInv == ASSUME Inv, NEW w \in Publishers, LockBatch(w) PROVE Inv'
<1>1. PICK B \in Batches : proc' = [proc EXCEPT ![w] =
              [pc |-> "publish", batch |-> B, todo |-> B, current |-> NoEvent, written |-> outbox]]
  BY DEF LockBatch
<1>2. UNCHANGED <<outbox, sent, refused, faults>> /\ proc[w].batch = {} /\ proc[w].pc = "idle"
  BY Typing DEF LockBatch, At, Shape
<1>3. B \subseteq Events /\ \A e \in B : Selectable(e)
  BY <1>1 DEF Batches
<1>4. \A e \in B, v \in Publishers : e \notin proc[v].batch
  BY <1>3 DEF Selectable, LockedRows
<1>5. proc'[w] = [pc |-> "publish", batch |-> B, todo |-> B, current |-> NoEvent, written |-> outbox]
  BY <1>1 DEF Inv, TypeOK
<1>6. \A v \in Publishers \ {w} : proc'[v] = proc[v]
  BY <1>1 DEF Inv, TypeOK
<1>7. TypeOK'
  <2>1. proc'[w] \in Process
    BY <1>3, <1>5, Typing DEF Process
  <2> QED
    BY <1>1, <1>2, <1>5, <2>1 DEF Inv, TypeOK
<1>8. DisjointBatches'
  BY <1>4, <1>5, <1>6 DEF Inv, DisjointBatches
<1>9. ASSUME NEW v \in Publishers PROVE Shape(v)' /\ Honest(v)'
  <2>1. CASE v = w
    <3>1. Shape(w)'
      BY <1>2, <1>3, <1>5 DEF Shape, Selectable
    <3>2. \A e \in B : Earned(outbox[e], e)
      BY <1>3 DEF Inv
    <3>3. Honest(w)'
      BY <1>2, <1>5, <3>2 DEF Honest, Earned
    <3> QED
      BY <2>1, <3>1, <3>3
  <2>2. CASE v # w
    <3>1. proc'[v] = proc[v] /\ Shape(v) /\ Honest(v)
      BY <1>6, <2>2 DEF Inv
    <3> QED
      BY <1>2, <3>1 DEF Shape, Honest, Earned
  <2> QED
    BY <2>1, <2>2
<1>10. ASSUME NEW e \in Events PROVE Earned(outbox[e], e)' /\ Counted(e)'
  <2>1. Earned(outbox[e], e) /\ Counted(e)
    BY DEF Inv
  <2>2. ~Holding(w, e)
    BY <1>2 DEF Holding
  <2>3. ~Holding(w, e)'
    BY <1>3, <1>5 DEF Holding, Selectable
  <2>4. \A v \in Publishers \ {w} : Holding(v, e)' <=> Holding(v, e)
    BY <1>6 DEF Holding
  <2>5. Settled(e)' <=> Settled(e)
    BY <1>2, <2>2, <2>3, <2>4 DEF Settled
  <2> QED
    BY <1>2, <2>1, <2>5 DEF Earned, Counted
<1> QED
  BY <1>7, <1>8, <1>9, <1>10 DEF Inv

(* broker.publish returns.                                                  *)
LEMMA PublishInv == ASSUME Inv, NEW w \in Publishers, Publish(w) PROVE Inv'
<1>1. PICK e \in proc[w].todo :
        /\ proc' = [proc EXCEPT ![w].pc = "published", ![w].current = e]
        /\ sent' = [sent EXCEPT ![e] = @ + 1]
  BY DEF Publish
<1>2. UNCHANGED <<outbox, refused, faults>> /\ proc[w].pc = "publish"
  BY DEF Publish, At
<1>3. e \in Events /\ e \in proc[w].batch /\ proc[w].written[e] = outbox[e]
      /\ outbox[e].status = "pending"
  BY <1>1, Typing DEF Shape
<1>4. proc'[w] = [proc[w] EXCEPT !.pc = "published", !.current = e]
  BY <1>1, Typing DEF Inv, TypeOK
<1>5. /\ proc'[w].pc = "published" /\ proc'[w].current = e /\ proc'[w].batch = proc[w].batch
      /\ proc'[w].todo = proc[w].todo /\ proc'[w].written = proc[w].written
  BY <1>4, Typing DEF Process
<1>6. \A v \in Publishers \ {w} : proc'[v] = proc[v]
  BY <1>1 DEF Inv, TypeOK
<1>7. proc'[w] \in Process
  BY <1>3, <1>4, Typing DEF Process
<1>8. proc' \in [Publishers -> Process]
  BY <1>1, <1>7, <1>6 DEF Inv, TypeOK
<1>9. sent' \in [Events -> Nat] /\ sent'[e] = sent[e] + 1
      /\ \A x \in Events \ {e} : sent'[x] = sent[x]
  BY <1>1, <1>3, Typing
<1>10. Shape(w)'
  <2>1. Shape(w)
    BY Typing
  <2>2. outbox' = outbox
    BY <1>2
  <2> QED
    BY <1>1, <1>5, <2>1, <2>2 DEF Shape
<1>11. \A x \in Events : sent[x] \in Nat /\ sent'[x] \in Nat /\ sent'[x] >= sent[x]
  BY <1>9, Typing
<1>12. Honest(w)'
  <2>1. \A x \in proc[w].batch : Earned(proc[w].written[x], x) /\ x \in Events
    BY Typing DEF Honest
  <2>2. ASSUME NEW x \in proc[w].batch PROVE Earned(proc[w].written[x], x)'
    <3>1. Earned(proc[w].written[x], x) /\ sent[x] \in Nat /\ sent'[x] \in Nat /\ sent'[x] >= sent[x]
      BY <1>11, <2>1
    <3>2. refused'[x] = refused[x] /\ proc'[w].written[x] = proc[w].written[x]
      BY <1>2, <1>5
    <3>3. Earned(proc[w].written[x], x)' <=>
            /\ proc[w].written[x].status = "published" => sent'[x] >= 1
            /\ proc[w].written[x].status = "failed" => refused[x] >= MaxPublishRetries
            /\ proc[w].written[x].retries <= refused[x]
      BY <3>2 DEF Earned
    <3> QED
      BY <3>1, <3>3 DEF Earned
  <2>3. sent'[e] >= 1
    BY <1>3, <1>9, <1>11
  <2> QED
    BY <1>5, <2>2, <2>3 DEF Honest
<1>13. ASSUME NEW x \in Events PROVE Counted(x)'
  <2>1. sent[x] <= faults + IF Settled(x) THEN 1 ELSE 0
    BY DEF Inv, Counted
  <2>2. CASE x = e
    <3>1. ~Settled(e)
      <4>1. ~Holding(w, e)
        BY <1>2, <1>3 DEF Holding
      <4>2. \A v \in Publishers \ {w} : ~Holding(v, e)
        BY <1>3 DEF Holding, Inv, DisjointBatches
      <4> QED
        BY <1>3, <4>1, <4>2 DEF Settled
    <3>2. Settled(e)'
      BY <1>3, <1>5 DEF Settled, Holding
    <3>3. sent[e] <= faults
      BY <2>1, <2>2, <3>1, <1>11, Typing
    <3> QED
      BY <1>2, <1>9, <2>2, <3>2, <3>3, <1>11, Typing DEF Counted
  <2>3. CASE x # e
    <3>1. \A v \in Publishers : Holding(v, x)' <=> Holding(v, x)
      BY <1>2, <1>5, <1>6, <2>3 DEF Holding
    <3>2. Settled(x)' <=> Settled(x)
      BY <1>2, <3>1 DEF Settled
    <3> QED
      BY <1>2, <1>9, <2>1, <2>3, <3>2 DEF Counted
  <2> QED
    BY <2>2, <2>3
<1>14. refused' \in [Events -> Nat] /\ (\A x \in Events : refused'[x] >= refused[x])
       /\ faults' \in 0..MaxFaults
  BY <1>2, Typing DEF Inv, TypeOK
<1> QED
  BY OwnStep, <1>2, <1>5, <1>6, <1>8, <1>9, <1>10, <1>11, <1>12, <1>13, <1>14

(* The UPDATE of the current event, whose new row is e's by right.         *)
LEMMA WriteInv ==
  ASSUME Inv, NEW w \in Publishers, NEW e \in Events, NEW row \in Row,
         proc[w].current = e,
         proc[w].pc \in {"published", "refused"},
         UNCHANGED <<outbox, sent, refused, faults>>,
         Write(w, row), Earned(row, e),
         proc[w].pc = "published" => row.status = "published"
  PROVE  Inv'
<1>1. e \in proc[w].todo /\ e \in proc[w].batch /\ outbox[e].status = "pending"
      /\ proc[w].written[e] = outbox[e]
  BY Typing DEF Shape
<1>2. proc' = [proc EXCEPT ![w].pc = "publish", ![w].todo = @ \ {e},
                           ![w].current = NoEvent, ![w].written[e] = row]
  BY DEF Write
<1>3. proc'[w] = [proc[w] EXCEPT !.pc = "publish", !.todo = @ \ {e},
                                 !.current = NoEvent, !.written[e] = row]
  BY <1>2, Typing DEF Inv, TypeOK
<1>4. /\ proc'[w].pc = "publish" /\ proc'[w].batch = proc[w].batch
      /\ proc'[w].todo = proc[w].todo \ {e} /\ proc'[w].current = NoEvent
      /\ proc'[w].written = [proc[w].written EXCEPT ![e] = row]
  BY <1>3, Typing DEF Process
<1>5. \A v \in Publishers \ {w} : proc'[v] = proc[v]
  BY <1>2 DEF Inv, TypeOK
<1>6. proc'[w].written \in [Events -> Row] /\ proc'[w].written[e] = row
      /\ \A x \in Events \ {e} : proc'[w].written[x] = proc[w].written[x]
  BY <1>4, Typing
<1>7. proc'[w] \in Process
  BY <1>3, <1>6, <1>4, Typing DEF Process
<1>8. proc' \in [Publishers -> Process]
  BY <1>2, <1>5, <1>7 DEF Inv, TypeOK
<1>9. Shape(w)'
  <2>1. Shape(w) /\ outbox' = outbox /\ proc[w].todo \subseteq Events
    BY Typing
  <2> QED
    BY <1>4, <1>6, <2>1 DEF Shape
<1>10. Honest(w)'
  <2>1. ASSUME NEW x \in proc[w].batch PROVE Earned(proc[w].written[x], x)'
    <3>1. Earned(proc[w].written[x], x) /\ x \in Events
      BY Typing DEF Honest
    <3>2. CASE x = e
      BY <1>6, <3>2 DEF Earned
    <3>3. CASE x # e
      BY <1>6, <3>1, <3>3 DEF Earned
    <3> QED
      BY <3>2, <3>3
  <2> QED
    BY <1>4, <2>1 DEF Honest
<1>11. ASSUME NEW x \in Events PROVE Counted(x)'
  <2>1. sent[x] <= faults + IF Settled(x) THEN 1 ELSE 0
    BY DEF Inv, Counted
  <2>2. ASSUME NEW v \in Publishers, Holding(v, x) PROVE Holding(v, x)'
    <3>1. CASE v # w
      BY <1>5, <2>2, <3>1 DEF Holding
    <3>2. CASE v = w /\ x # e
      BY <1>4, <1>6, <2>2, <3>2 DEF Holding
    <3>3. CASE v = w /\ x = e
      BY <1>1, <1>4, <1>6, <2>2, <3>3 DEF Holding
    <3> QED
      BY <3>1, <3>2, <3>3
  <2>3. Settled(x) => Settled(x)'
    BY <2>2 DEF Settled
  <2>4. sent[x] \in Nat /\ faults \in Nat
    BY Typing
  <2> QED
    BY <2>1, <2>3, <2>4 DEF Counted
<1>12. /\ sent' \in [Events -> Nat] /\ refused' \in [Events -> Nat] /\ faults' \in 0..MaxFaults
       /\ \A x \in Events : sent'[x] >= sent[x] /\ refused'[x] >= refused[x]
  BY Typing DEF Inv, TypeOK
<1> QED
  BY OwnStep, <1>4, <1>5, <1>8, <1>9, <1>10, <1>11, <1>12

(* The UPDATE that follows a publish or a refusal.                          *)
LEMMA MarkInv ==
  ASSUME Inv, NEW w \in Publishers, MarkPublished(w) \/ MarkFailed(w)
  PROVE  Inv'
<1> DEFINE e == proc[w].current
           old == proc[w].written[e]
<1>1. proc[w].pc \in {"published", "refused"} /\ UNCHANGED <<outbox, sent, refused, faults>>
  BY DEF MarkPublished, MarkFailed, At
<1>2. e \in Events /\ old \in Row /\ old = outbox[e] /\ outbox[e].status = "pending"
      /\ Earned(old, e)
  BY <1>1, Typing DEF Shape, Honest
<1>3. CASE MarkPublished(w)
  <2> DEFINE row == MarkedPublished(old)
  <2>1. row \in Row /\ row.status = "published" /\ row.retries = old.retries
    BY <1>2 DEF MarkedPublished, Row
  <2>2. proc[w].pc = "published" /\ sent[e] >= 1
    BY <1>3, Typing DEF MarkPublished, At, Honest
  <2>3. Earned(row, e)
    BY <1>2, <2>1, <2>2 DEF Earned
  <2>4. Write(w, row)
    BY <1>3 DEF MarkPublished
  <2> HIDE DEF e, row
  <2> QED
    BY <1>1, <1>2, <2>1, <2>3, <2>4, WriteInv DEF e
<1>4. CASE MarkFailed(w)
  <2> DEFINE row == MarkedFailed(old)
  <2>0. old.retries \in Nat /\ refused[e] \in Nat /\ MaxPublishRetries \in Nat
    BY <1>2, Typing DEF Row
  <2>1. row \in Row /\ row.retries = old.retries + 1
        /\ row.status = IF old.retries + 1 >= MaxPublishRetries THEN "failed" ELSE "pending"
    BY <2>0 DEF MarkedFailed, Terminal, Row
  <2>2. proc[w].pc = "refused" /\ old.retries + 1 <= refused[e]
    BY <1>4, Typing DEF MarkFailed, At, Honest
  <2>3. Earned(row, e)
    BY <2>0, <2>1, <2>2 DEF Earned
  <2>4. Write(w, row)
    BY <1>4 DEF MarkFailed
  <2> HIDE DEF e, row
  <2> QED
    BY <1>1, <1>2, <2>1, <2>2, <2>3, <2>4, WriteInv DEF e
<1> QED
  BY <1>3, <1>4

(* broker.publish raises.                                                   *)
LEMMA PublishFailsInv == ASSUME Inv, NEW w \in Publishers, PublishFails(w) PROVE Inv'
<1>1. PICK e \in proc[w].todo :
        /\ proc' = [proc EXCEPT ![w].pc = "refused", ![w].current = e]
        /\ sent' \in {sent, [sent EXCEPT ![e] = @ + 1]}
        /\ refused' = [refused EXCEPT ![e] = @ + 1]
  BY DEF PublishFails
<1>2. outbox' = outbox /\ proc[w].pc = "publish" /\ faults' = faults + 1 /\ faults' \in 0..MaxFaults
  BY Typing DEF PublishFails, At, Fault
<1>3. e \in Events /\ e \in proc[w].batch /\ proc[w].written[e] = outbox[e]
      /\ outbox[e].status = "pending"
  BY <1>1, Typing DEF Shape
<1>4. proc'[w] = [proc[w] EXCEPT !.pc = "refused", !.current = e]
  BY <1>1, Typing DEF Inv, TypeOK
<1>5. /\ proc'[w].pc = "refused" /\ proc'[w].current = e /\ proc'[w].batch = proc[w].batch
      /\ proc'[w].todo = proc[w].todo /\ proc'[w].written = proc[w].written
  BY <1>4, Typing DEF Process
<1>6. \A v \in Publishers \ {w} : proc'[v] = proc[v]
  BY <1>1 DEF Inv, TypeOK
<1>7. proc'[w] \in Process
  BY <1>3, <1>4, Typing DEF Process
<1>8. proc' \in [Publishers -> Process]
  BY <1>1, <1>7, <1>6 DEF Inv, TypeOK
<1>9. /\ sent' \in [Events -> Nat] /\ refused' \in [Events -> Nat]
      /\ refused'[e] = refused[e] + 1
      /\ \A x \in Events : /\ sent[x] \in Nat /\ sent'[x] \in Nat /\ sent'[x] >= sent[x]
                             /\ refused[x] \in Nat /\ refused'[x] \in Nat /\ refused'[x] >= refused[x]
  BY <1>1, <1>3, Typing
<1>10. sent'[e] <= sent[e] + 1 /\ \A x \in Events \ {e} : sent'[x] = sent[x]
  BY <1>1, <1>3, Typing
<1>11. Shape(w)'
  <2>1. Shape(w)
    BY Typing
  <2> QED
    BY <1>1, <1>2, <1>5, <2>1 DEF Shape
<1>12. Honest(w)'
  <2>1. \A x \in proc[w].batch :
          Earned(proc[w].written[x], x) /\ x \in Events /\ proc[w].written[x] \in Row
    BY Typing DEF Honest
  <2>2. ASSUME NEW x \in proc[w].batch PROVE Earned(proc[w].written[x], x)'
    <3>1. Earned(proc[w].written[x], x) /\ proc[w].written[x].retries \in Nat
      BY <2>1 DEF Row
    <3>2. x \in Events /\ proc'[w].written[x] = proc[w].written[x] /\ MaxPublishRetries \in Nat
      BY <1>5, <2>1, Typing
    <3>3. Earned(proc[w].written[x], x)' <=>
            /\ proc[w].written[x].status = "published" => sent'[x] >= 1
            /\ proc[w].written[x].status = "failed" => refused'[x] >= MaxPublishRetries
            /\ proc[w].written[x].retries <= refused'[x]
      BY <3>2 DEF Earned
    <3> QED
      BY <1>9, <3>1, <3>2, <3>3 DEF Earned
  <2>3. proc[w].written[e].retries + 1 <= refused'[e]
    <3>1. proc[w].written[e].retries <= refused[e] /\ proc[w].written[e].retries \in Nat
      BY <1>3, <2>1 DEF Earned, Row
    <3> QED
      BY <1>3, <1>9, <3>1
  <2> QED
    BY <1>5, <2>2, <2>3 DEF Honest
<1>13. ASSUME NEW x \in Events PROVE Counted(x)'
  <2>1. sent[x] <= faults + IF Settled(x) THEN 1 ELSE 0
    BY DEF Inv, Counted
  <2>2. CASE x = e
    <3>1. ~Settled(e)
      <4>1. ~Holding(w, e)
        BY <1>2, <1>3 DEF Holding
      <4>2. \A v \in Publishers \ {w} : ~Holding(v, e)
        BY <1>3 DEF Holding, Inv, DisjointBatches
      <4> QED
        BY <1>3, <4>1, <4>2 DEF Settled
    <3>2. sent[e] <= faults
      BY <2>1, <2>2, <3>1, <1>9, Typing
    <3> QED
      BY <1>2, <1>9, <1>10, <2>2, <3>2, Typing DEF Counted
  <2>3. CASE x # e
    <3>1. \A v \in Publishers : Holding(v, x)' <=> Holding(v, x)
      BY <1>2, <1>5, <1>6, <2>3 DEF Holding
    <3>2. Settled(x)' <=> Settled(x)
      BY <1>2, <3>1 DEF Settled
    <3> QED
      BY <1>2, <1>9, <1>10, <2>1, <2>3, <3>2, Typing DEF Counted
  <2> QED
    BY <2>2, <2>3
<1> QED
  BY OwnStep, <1>2, <1>5, <1>6, <1>8, <1>9, <1>11, <1>12, <1>13

(* Every other way a transaction ends.                                     *)
LEMMA EndInv ==
  ASSUME Inv, NEW w \in Publishers,
         CommitBatch(w) \/ UpdateFails(w) \/ CommitFails(w) \/ Crash(w)
  PROVE  Inv'
<1> DEFINE Down == [IdleProcess EXCEPT !.pc = "down"]
<1>1. UNCHANGED <<sent, refused>>
  BY DEF CommitBatch, UpdateFails, CommitFails, Crash
<1>2. PICK p \in {IdleProcess, Down} : proc' = [proc EXCEPT ![w] = p]
  BY DEF CommitBatch, UpdateFails, CommitFails, Crash, Exit
<1>3. Absent \in Row /\ [e \in Events |-> Absent] \in [Events -> Row]
  BY DEF Absent, Row
<1>4. p \in Process /\ p.pc \in {"idle", "down"} /\ p.batch = {} /\ p.todo = {}
  BY <1>2, <1>3 DEF IdleProcess, Process
<1>5. proc'[w] = p /\ proc' \in [Publishers -> Process]
      /\ \A v \in Publishers \ {w} : proc'[v] = proc[v]
  BY <1>2, <1>4 DEF Inv, TypeOK
<1>6. \/ outbox' = Applied(w) /\ proc[w].pc = "publish" /\ faults' >= faults
      \/ outbox' = outbox /\ faults' = faults + 1
  BY Typing DEF CommitBatch, UpdateFails, CommitFails, Crash, Fault, At
<1>7. faults' \in 0..MaxFaults
  BY Typing DEF CommitBatch, UpdateFails, CommitFails, Crash, Fault, Inv, TypeOK
<1> HIDE DEF Down
<1> QED
  BY TransactionEnds, <1>1, <1>4, <1>5, <1>6, <1>7

(* A process starts again.                                                  *)
LEMMA RestartInv == ASSUME Inv, NEW w \in Publishers, Restart(w) PROVE Inv'
<1>1. UNCHANGED <<outbox, sent, refused, faults>> /\ proc' = [proc EXCEPT ![w] = IdleProcess]
      /\ proc[w].pc = "down" /\ proc[w].batch = {}
  BY Typing DEF Restart, At, Shape
<1>2. Absent \in Row /\ [e \in Events |-> Absent] \in [Events -> Row]
  BY DEF Absent, Row
<1>3. IdleProcess \in Process /\ IdleProcess.pc = "idle" /\ IdleProcess.batch = {}
      /\ IdleProcess.todo = {}
  BY <1>2 DEF IdleProcess, Process
<1>4. proc'[w] = IdleProcess /\ proc' \in [Publishers -> Process]
      /\ \A v \in Publishers \ {w} : proc'[v] = proc[v]
  BY <1>1, <1>3 DEF Inv, TypeOK
<1>5. Shape(w)' /\ Honest(w)'
  BY <1>3, <1>4 DEF Shape, Honest
<1>6. ASSUME NEW x \in Events PROVE Counted(x)'
  <2>1. Counted(x)
    BY DEF Inv
  <2>2. \A v \in Publishers : Holding(v, x)' <=> Holding(v, x)
    BY <1>1, <1>3, <1>4 DEF Holding
  <2>3. Settled(x)' <=> Settled(x)
    BY <1>1, <2>2 DEF Settled
  <2> QED
    BY <1>1, <2>1, <2>3 DEF Counted
<1>7. /\ sent' \in [Events -> Nat] /\ refused' \in [Events -> Nat] /\ faults' \in 0..MaxFaults
      /\ \A x \in Events : sent'[x] >= sent[x] /\ refused'[x] >= refused[x]
  BY <1>1, Typing DEF Inv, TypeOK
<1> QED
  BY OwnStep, <1>1, <1>3, <1>4, <1>5, <1>6, <1>7

(* A row is inserted, or becomes due.                                       *)
LEMMA RowInv == ASSUME Inv, NEW e \in Events, Insert(e) \/ BackoffElapses(e) PROVE Inv'
<1>0. outbox \in [Events -> Row] /\ refused[e] \in Nat /\ Earned(outbox[e], e)
  BY DEF Inv, TypeOK
<1>1. UNCHANGED <<proc, sent, refused, faults>>
  BY DEF Insert, BackoffElapses
<1>2. CASE Insert(e)
  <2>1. /\ outbox' = [outbox EXCEPT ![e] = [status |-> "pending", retries |-> 0, due |-> TRUE]]
        /\ outbox[e].status = "absent"
    BY <1>2 DEF Insert, Absent
  <2>2. [status |-> "pending", retries |-> 0, due |-> TRUE] \in Row
    BY DEF Row
  <2>3. outbox' \in [Events -> Row] /\ outbox'[e].status = "pending" /\ outbox'[e].retries = 0
        /\ \A x \in Events \ {e} : outbox'[x] = outbox[x]
    BY <1>0, <2>1, <2>2
  <2> QED
    BY <1>0, <1>1, <2>1, <2>3, UnlockedRow
<1>3. CASE BackoffElapses(e)
  <2>1. /\ outbox' = [outbox EXCEPT ![e].due = TRUE]
        /\ outbox[e].status = "pending" /\ ~outbox[e].due
    BY <1>3 DEF BackoffElapses
  <2>2. outbox[e] \in Row /\ [outbox[e] EXCEPT !.due = TRUE] \in Row
    BY <1>0 DEF Row
  <2>3. outbox' \in [Events -> Row] /\ outbox'[e] = [outbox[e] EXCEPT !.due = TRUE]
        /\ \A x \in Events \ {e} : outbox'[x] = outbox[x]
    BY <1>0, <2>1, <2>2
  <2>4. outbox'[e].status = "pending" /\ outbox'[e].retries = outbox[e].retries
    BY <2>1, <2>2, <2>3 DEF Row
  <2>5. outbox'[e].retries <= refused[e]
    BY <1>0, <2>4 DEF Earned
  <2> QED
    BY <1>1, <2>1, <2>3, <2>4, <2>5, UnlockedRow
<1> QED
  BY <1>2, <1>3

-----------------------------------------------------------------------------
(* The invariant is inductive.                                             *)
LEMMA NextInv == Inv /\ [Next]_vars => Inv'
<1> SUFFICES ASSUME Inv, [Next]_vars PROVE Inv'
  OBVIOUS
<1>1. ASSUME NEW e \in Events, Insert(e) \/ BackoffElapses(e) PROVE Inv'
  BY <1>1, RowInv
<1>2. ASSUME NEW w \in Publishers, Step(w) PROVE Inv'
  BY <1>2, LockBatchInv, PublishInv, MarkInv, EndInv DEF Step
<1>3. ASSUME NEW w \in Publishers, Restart(w) \/ PublishFails(w) PROVE Inv'
  BY <1>3, RestartInv, PublishFailsInv
<1>4. ASSUME NEW w \in Publishers, UpdateFails(w) \/ CommitFails(w) \/ Crash(w) PROVE Inv'
  BY <1>4, EndInv
<1>5. CASE UNCHANGED vars
  BY <1>5 DEF vars, Inv, TypeOK, DisjointBatches, Shape, Honest, Earned, Counted, Settled, Holding
<1> QED
  BY <1>1, <1>2, <1>3, <1>4, <1>5 DEF Next

(* Inv is an invariant.                                                     *)
LEMMA InvHolds == Spec => []Inv
<1> QED
  BY InitInv, NextInv, PTL DEF Spec

(* Every variable of the publishers always has its type.                   *)
THEOREM TypeCorrect == Spec => []TypeOK
<1>1. Inv => TypeOK
  BY DEF Inv
<1> QED
  BY <1>1, InvHolds, PTL

(* A committed "published" means the broker has the event, a committed     *)
(* "failed" that MAX_PUBLISH_RETRIES publishes of it raised, through any   *)
(* number of rollbacks, crashes and takeovers.                             *)
THEOREM OutcomesEarned == Spec => []OutcomesAreEarned
<1>1. Inv => OutcomesAreEarned
  BY DEF Inv, Earned, OutcomesAreEarned
<1> QED
  BY <1>1, InvHolds, PTL

(* Each fault costs at most one extra copy of an event, whatever number of *)
(* publishers take it up in turn.                                          *)
THEOREM DuplicatesCounted == Spec => []DuplicatesNeedFaults
<1>1. Inv => DuplicatesNeedFaults
  <2> SUFFICES ASSUME Inv, NEW e \in Events PROVE sent[e] <= 1 + faults
    BY DEF DuplicatesNeedFaults
  <2>1. sent[e] <= faults + IF Settled(e) THEN 1 ELSE 0
    BY DEF Inv, Counted
  <2>2. sent[e] \in Nat /\ faults \in Nat
    BY DEF Inv, TypeOK
  <2> QED
    BY <2>1, <2>2
<1> QED
  BY <1>1, InvHolds, PTL

(* No transaction changes the outcome of a row that has one: a final row is*)
(* in no batch, since whoever locked it saw it pending.                    *)
THEOREM Final == Spec => OutcomesAreFinal
<1> DEFINE Kept == \A e \in Events :
             outbox[e].status \in {"published", "failed"} => outbox'[e].status = outbox[e].status
<1>1. Inv /\ [Next]_vars => [Kept]_vars
  <2> SUFFICES ASSUME Inv, Next, NEW e \in Events,
                      outbox[e].status \in {"published", "failed"}
               PROVE  outbox'[e].status = outbox[e].status
    OBVIOUS
  <2>0. outbox \in [Events -> Row]
    BY DEF Inv, TypeOK
  <2>1. \A w \in Publishers : e \notin proc[w].batch
    BY DEF Inv, Shape
  <2>2. CASE \E x \in Events : Insert(x) \/ BackoffElapses(x)
    BY <2>0, <2>2 DEF Insert, BackoffElapses, Absent
  <2>3. ASSUME NEW w \in Publishers PROVE Applied(w)[e] = outbox[e]
    BY <2>1 DEF Applied
  <2>4. ASSUME NEW w \in Publishers,
               Step(w) \/ Restart(w) \/ PublishFails(w) \/ UpdateFails(w)
                 \/ CommitFails(w) \/ Crash(w)
        PROVE  outbox'[e] = outbox[e]
    BY <2>3, <2>4 DEF Step, LockBatch, Publish, MarkPublished, MarkFailed, CommitBatch, Restart,
                      PublishFails, UpdateFails, CommitFails, Crash
  <2> QED
    BY <2>2, <2>4 DEF Next
<1> QED
  BY <1>1, InvHolds, PTL DEF Spec, OutcomesAreFinal
=============================================================================
