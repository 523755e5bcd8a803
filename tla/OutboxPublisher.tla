--------------------------- MODULE OutboxPublisher --------------------------
(***************************************************************************)
(* Any number of outbox-publisher processes: OutboxPublisher._process_batch*)
(* and _publish_one with the OutboxRepo queries they use.                  *)
(*                                                                         *)
(* A process holds its batch's row locks (FOR UPDATE) until its            *)
(* transaction ends, and the UPDATEs of the batch stay invisible until     *)
(* then.  Publishing is outside the transaction.  An exception that leaves *)
(* _process_batch ends run() and rolls the batch back; so does a crash.    *)
(* Nothing in the repository starts the process again: Restart is left to  *)
(* the operator and no property counts on it.                              *)
(*                                                                         *)
(* Time is abstract: an event whose available_at lies in the future        *)
(* becomes due by BackoffElapses.  Which due events a LIMIT leaves out, and*)
(* the order within a batch, are arbitrary.                                *)
(***************************************************************************)
EXTENDS Naturals, FiniteSets

CONSTANTS
  Events,              \* ids of outbox rows; one payment each
  Publishers,          \* the outbox-publisher processes
  NoEvent,
  BatchSize,           \* settings.outbox_batch_size
  MaxPublishRetries,   \* MAX_PUBLISH_RETRIES
  MaxFaults            \* bound: number of faults in a behaviour

ASSUME OutboxConstants ==
  /\ NoEvent \notin Events
  /\ BatchSize \in Nat \ {0}
  /\ MaxPublishRetries \in Nat
  /\ MaxFaults \in Nat

VARIABLES
  outbox,    \* the committed outbox rows
  proc,      \* each process and its open transaction
  sent,      \* history: copies of each event the broker has accepted
  refused,   \* history: publish calls that raised, per event
  faults     \* faults so far

vars == <<outbox, proc, sent, refused, faults>>

Row == [status : {"absent", "pending", "published", "failed"},
        retries : Nat,
        due : BOOLEAN]

Absent == [status |-> "absent", retries |-> 0, due |-> FALSE]

(* batch: events whose rows the transaction has locked; todo: those of     *)
(* them not handled yet; written: the rows as the transaction sees them.   *)
Process == [pc : {"idle", "down", "publish", "published", "refused"},
            batch : SUBSET Events, todo : SUBSET Events,
            current : Events \cup {NoEvent},
            written : [Events -> Row]]

IdleProcess == [pc |-> "idle", batch |-> {}, todo |-> {}, current |-> NoEvent,
                written |-> [e \in Events |-> Absent]]

TypeOK ==
  /\ outbox \in [Events -> Row]
  /\ proc \in [Publishers -> Process]
  /\ sent \in [Events -> Nat]
  /\ refused \in [Events -> Nat]
  /\ faults \in 0..MaxFaults

Init ==
  /\ outbox = [e \in Events |-> Absent]
  /\ proc = [w \in Publishers |-> IdleProcess]
  /\ sent = [e \in Events |-> 0]
  /\ refused = [e \in Events |-> 0]
  /\ faults = 0

-----------------------------------------------------------------------------
At(w, pc) == proc[w].pc = pc

LockedRows == UNION {proc[w].batch : w \in Publishers}

SelectableUnlocked(e) ==        \* mutant: without FOR UPDATE SKIP LOCKED
  outbox[e].status = "pending" /\ outbox[e].due

SelectableAnyStatus(e) ==       \* mutant: the query does not look at the status
  outbox[e].status # "absent" /\ outbox[e].due /\ e \notin LockedRows

(* The WHERE and FOR UPDATE SKIP LOCKED of lock_pending_batch.             *)
Selectable(e) ==
  /\ outbox[e].status = "pending"
  /\ outbox[e].due
  /\ e \notin LockedRows

Batches ==
  LET S == {e \in Events : Selectable(e)} IN
  {B \in SUBSET S : Cardinality(B) = IF Cardinality(S) < BatchSize
                                       THEN Cardinality(S) ELSE BatchSize}

TerminalEarly(retries) == retries + 1 >= MaxPublishRetries    \* mutant: counts twice
Terminal(retries) == retries >= MaxPublishRetries

MarkedFailedUnknown(row) ==     \* mutant: a status outside the enum
  [status |-> IF Terminal(row.retries + 1) THEN "dead" ELSE "pending",
   retries |-> row.retries + 1, due |-> FALSE]

MarkedFailedAtOnce(row) ==      \* mutant: any refusal is terminal
  [status |-> "failed", retries |-> row.retries + 1, due |-> FALSE]

(* The row after mark_failed.                                              *)
MarkedFailed(row) ==
  [status |-> IF Terminal(row.retries + 1) THEN "failed" ELSE "pending",
   retries |-> row.retries + 1,
   due |-> FALSE]

(* The row after mark_published.                                           *)
MarkedPublished(row) == [row EXCEPT !.status = "published"]

(* The exception leaves _process_batch and run(): rollback, end of process.*)
Exit(w) == proc' = [proc EXCEPT ![w] = [IdleProcess EXCEPT !.pc = "down"]]

-----------------------------------------------------------------------------
(* PaymentsService.create commits the event of a new payment.              *)
Insert(e) ==
  /\ outbox[e] = Absent
  /\ outbox' = [outbox EXCEPT ![e] = [status |-> "pending", retries |-> 0, due |-> TRUE]]
  /\ UNCHANGED <<proc, sent, refused, faults>>

(* available_at passes.                                                    *)
BackoffElapses(e) ==
  /\ outbox[e].status = "pending"
  /\ ~outbox[e].due
  /\ outbox' = [outbox EXCEPT ![e].due = TRUE]
  /\ UNCHANGED <<proc, sent, refused, faults>>

(* BEGIN and lock_pending_batch.  An empty batch is committed and slept on.*)
LockBatch(w) ==
  /\ At(w, "idle")
  /\ \E B \in Batches \ {{}} :
       proc' = [proc EXCEPT ![w] = [pc |-> "publish", batch |-> B, todo |-> B,
                                    current |-> NoEvent, written |-> outbox]]
  /\ UNCHANGED <<outbox, sent, refused, faults>>

(* broker.publish returns: the broker has confirmed.                       *)
Publish(w) ==
  /\ At(w, "publish")
  /\ \E e \in proc[w].todo :
       /\ proc' = [proc EXCEPT ![w].pc = "published", ![w].current = e]
       /\ sent' = [sent EXCEPT ![e] = @ + 1]
  /\ UNCHANGED <<outbox, refused, faults>>

(* The UPDATE that follows a publish, and on to the next event.            *)
Write(w, row) ==
  LET e == proc[w].current IN
  proc' = [proc EXCEPT ![w].pc = "publish", ![w].todo = @ \ {e},
                       ![w].current = NoEvent, ![w].written[e] = row]

MarkPublished(w) ==
  /\ At(w, "published")
  /\ Write(w, MarkedPublished(proc[w].written[proc[w].current]))
  /\ UNCHANGED <<outbox, sent, refused, faults>>

MarkFailed(w) ==
  /\ At(w, "refused")
  /\ Write(w, MarkedFailed(proc[w].written[proc[w].current]))
  /\ UNCHANGED <<outbox, sent, refused, faults>>

(* The rows of the batch as they are after the transaction.                *)
Applied(w) == [e \in Events |-> IF e \in proc[w].batch THEN proc[w].written[e] ELSE outbox[e]]

CommitBatch(w) ==
  /\ At(w, "publish")
  /\ proc[w].todo = {}
  /\ outbox' = Applied(w)
  /\ proc' = [proc EXCEPT ![w] = IdleProcess]
  /\ UNCHANGED <<sent, refused, faults>>

-----------------------------------------------------------------------------
Fault == faults < MaxFaults /\ faults' = faults + 1

(* broker.publish raises; the broker may have accepted the message.        *)
PublishFails(w) ==
  /\ At(w, "publish")
  /\ Fault
  /\ \E e \in proc[w].todo :
       /\ proc' = [proc EXCEPT ![w].pc = "refused", ![w].current = e]
       /\ sent' \in {sent, [sent EXCEPT ![e] = @ + 1]}
       /\ refused' = [refused EXCEPT ![e] = @ + 1]
  /\ UNCHANGED outbox

(* mark_published or mark_failed raises.  The former is caught, but its    *)
(* handler's mark_failed runs in the aborted transaction and raises too.   *)
UpdateFails(w) ==
  /\ proc[w].pc \in {"published", "refused"}
  /\ Fault
  /\ Exit(w)
  /\ UNCHANGED <<outbox, sent, refused>>

(* COMMIT raises; it may have been applied.                                *)
CommitFails(w) ==
  /\ At(w, "publish")
  /\ proc[w].todo = {}
  /\ Fault
  /\ outbox' \in {outbox, Applied(w)}
  /\ Exit(w)
  /\ UNCHANGED <<sent, refused>>

(* The process dies; or it cannot connect or declare the topology at start;*)
(* or stop() was called by a signal, which takes effect between batches.   *)
Crash(w) ==
  /\ ~At(w, "down")
  /\ Fault
  /\ Exit(w)
  /\ UNCHANGED <<outbox, sent, refused>>

(* make up, or docker compose up, by hand.                                 *)
Restart(w) ==
  /\ At(w, "down")
  /\ proc' = [proc EXCEPT ![w] = IdleProcess]
  /\ UNCHANGED <<outbox, sent, refused, faults>>

-----------------------------------------------------------------------------
Step(w) ==
  LockBatch(w) \/ Publish(w) \/ MarkPublished(w) \/ MarkFailed(w) \/ CommitBatch(w)

Next ==
  \/ \E e \in Events : Insert(e) \/ BackoffElapses(e)
  \/ \E w \in Publishers :
       Step(w) \/ Restart(w) \/ PublishFails(w) \/ UpdateFails(w) \/ CommitFails(w) \/ Crash(w)

Spec == Init /\ [][Next]_vars

(* Processes that are up run, and time passes; restarts are not promised.  *)
FairSpec ==
  /\ Spec
  /\ \A w \in Publishers : WF_vars(Step(w))
  /\ \A e \in Events : WF_vars(BackoffElapses(e))

-----------------------------------------------------------------------------
(* A row says "published" only after the broker has accepted the event,    *)
(* and "failed" only after MAX_PUBLISH_RETRIES publishes of it raised,     *)
(* however batches were rolled back and taken up again in between.         *)
OutcomesAreEarned ==
  \A e \in Events :
    /\ outbox[e].status = "published" => sent[e] >= 1
    /\ outbox[e].status = "failed" => refused[e] >= MaxPublishRetries

(* An event is published a second time only because of a fault, and each   *)
(* fault costs at most one extra copy of any event.                        *)
DuplicatesNeedFaults == \A e \in Events : sent[e] <= 1 + faults

(* published and failed are final: no transaction returns a row to pending.*)
OutcomesAreFinal ==
  [][\A e \in Events :
       outbox[e].status \in {"published", "failed"} => outbox'[e].status = outbox[e].status]_vars

(* While one process survives, every event written with a payment is       *)
(* published, unless MAX_PUBLISH_RETRIES publishes of it were refused: rows*)
(* locked by a process that died are taken up by the others.               *)
EveryEventPublished ==
  \A e \in Events :
    outbox[e].status = "pending" ~>
      outbox[e].status = "published" \/ refused[e] >= MaxPublishRetries
=============================================================================
