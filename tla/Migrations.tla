----------------------------- MODULE Migrations -----------------------------
(***************************************************************************)
(* The containers of docker-compose.yml, each of which runs entrypoint.sh: *)
(* `alembic upgrade head`, then its command, giving up when alembic fails. *)
(* alembic (env.py) works in one transaction: it looks for its version     *)
(* table and row, creates the table if it finds none, executes upgrade()   *)
(* statement by statement, writes the row and commits.                     *)
(*                                                                         *)
(* PostgreSQL shows a transaction committed objects and its own.  CREATE   *)
(* waits for an uncommitted object of that name and fails on a committed   *)
(* one.  RUN_MIGRATIONS is left at its default.  The operator may take     *)
(* everything down, up again, and downgrade while everything is down.      *)
(***************************************************************************)
EXTENDS Naturals, Sequences, SequencesExt

CONSTANT MaxFaults     \* bound: containers that die or lose the database

VARIABLES
  catalog,   \* the committed database objects
  stamped,   \* whether alembic_version has the row 0001
  run,       \* each container: its progress and open transaction
  faults

vars == <<catalog, stamped, run, faults>>

Services == {"api", "consumer", "outbox-publisher"}

(* depends_on: condition: service_started                                  *)
StartsAfter(s) == IF s = "api" THEN {} ELSE {"api"}

-----------------------------------------------------------------------------
(* A table is [name, table |-> name, columns]; an index is on a table.     *)
Table(name, columns) == [name |-> name, table |-> name, columns |-> columns]
Index(name, table, columns) == [name |-> name, table |-> table, columns |-> columns]
Names(objects) == {o.name : o \in objects}

BaseFields == {"id", "created", "updated"}

(* What the queries of the program are written against.                    *)
PaymentsTable ==
  {Table("payments", BaseFields \cup
     {"amount", "currency", "description", "payment_metadata", "status", "idempotency_key",
      "webhook_url", "last_error", "processed_at", "webhook_delivered_at"}),
   Index("payments_idempotency_key_uq", "payments", {"idempotency_key"}),
   Index("payments_status_idx", "payments", {"status"}),
   Index("payments_created_idx", "payments", {"created"})}

OutboxTable ==
  {Table("outbox", BaseFields \cup
     {"event_type", "topic", "payload", "status", "retry_count", "last_error",
      "available_at", "published_at"}),
   Index("outbox_pending_available_idx", "outbox", {"status", "available_at"})}

Metadata == PaymentsTable \cup OutboxTable

VersionTable == Table("alembic_version", {"version_num"})
Pgcrypto == Table("pgcrypto", {})

upgrade ==
  <<Pgcrypto,
    Table("payments", {"id", "created", "updated", "amount", "currency", "description",
                       "payment_metadata", "status", "idempotency_key", "webhook_url",
                       "last_error", "processed_at", "webhook_delivered_at"}),
    Index("payments_idempotency_key_uq", "payments", {"idempotency_key"}),
    Index("payments_status_idx", "payments", {"status"}),
    Index("payments_created_idx", "payments", {"created"}),
    Table("outbox", {"id", "created", "updated", "event_type", "topic", "payload", "status",
                     "retry_count", "last_error", "available_at", "published_at"}),
    Index("outbox_pending_available_idx", "outbox", {"status", "available_at"})>>

downgradeKeeping ==      \* mutant: the second table is forgotten
  <<"outbox_pending_available_idx", "payments_created_idx",
    "payments_status_idx", "payments_idempotency_key_uq", "payments">>

(* The names downgrade() drops.                                            *)
downgrade ==
  <<"outbox_pending_available_idx", "outbox", "payments_created_idx",
    "payments_status_idx", "payments_idempotency_key_uq", "payments">>

Script == <<VersionTable>> \o upgrade

-----------------------------------------------------------------------------
(* next: the statement of Script to execute; made: its transaction's       *)
(* uncommitted objects.                                                    *)
Container == [pc : {"down", "heads", "ensure", "upgrade", "serving", "exited"},
              next : 1..Len(Script) + 1, made : SUBSET ToSet(Script)]

Stopped == [pc |-> "down", next |-> 1, made |-> {}]

TypeOK ==
  /\ catalog \subseteq ToSet(Script)
  /\ stamped \in BOOLEAN
  /\ run \in [Services -> Container]
  /\ faults \in 0..MaxFaults

Init ==
  /\ catalog = {}
  /\ stamped = FALSE
  /\ run = [s \in Services |-> Stopped]
  /\ faults = 0

At(s, pc) == run[s].pc = pc
Goto(s, pc, next) == run' = [run EXCEPT ![s].pc = pc, ![s].next = next]

ExitedServing(s) ==      \* mutant: entrypoint.sh without set -e
  run' = [run EXCEPT ![s] = [Stopped EXCEPT !.pc = "serving"]]

ExitedOpen(s) ==         \* mutant: the session outlives its container
  run' = [run EXCEPT ![s].pc = "exited"]

(* set -e: the container stops, and its transaction is rolled back.        *)
Exited(s) == run' = [run EXCEPT ![s] = [Stopped EXCEPT !.pc = "exited"]]

(* docker compose up starts what does not run.                             *)
Start(s) ==
  /\ run[s].pc \in {"down", "exited"}
  /\ \A a \in StartsAfter(s) : ~At(a, "down")
  /\ Goto(s, "heads", 1)
  /\ UNCHANGED <<catalog, stamped, faults>>

(* get_current_heads: at 0001 there is nothing to migrate.                 *)
ReadHeads(s) ==
  /\ At(s, "heads")
  /\ Goto(s, IF stamped THEN "serving" ELSE "ensure", 1)
  /\ UNCHANGED <<catalog, stamped, faults>>

(* _ensure_version_table: CREATE only if a second look finds no table.     *)
EnsureVersionTable(s) ==
  /\ At(s, "ensure")
  /\ Goto(s, "upgrade", IF VersionTable \in catalog THEN 2 ELSE 1)
  /\ UNCHANGED <<catalog, stamped, faults>>

(* The objects a statement of s meets, and those it has to wait for.       *)
Visible(s) == catalog \cup run[s].made
Pending(s) == UNION {run[t].made : t \in Services \ {s}}

Legal(o, objects) ==
  /\ o.name \notin Names(objects)
  /\ o.name # o.table => \E t \in objects : t.name = o.table /\ o.columns \subseteq t.columns

StatementAutocommit(s) ==    \* mutant: env.py without begin_transaction
  LET o == Script[run[s].next] IN
  /\ At(s, "upgrade")
  /\ run[s].next <= Len(Script)
  /\ IF Legal(o, catalog) \/ o = Pgcrypto
       THEN Goto(s, "upgrade", run[s].next + 1) /\ catalog' = catalog \cup {o}
       ELSE Exited(s) /\ UNCHANGED catalog
  /\ UNCHANGED <<stamped, faults>>

Statement(s) ==
  LET o == Script[run[s].next]
      created == [run EXCEPT ![s].next = @ + 1, ![s].made = @ \cup {o}]
  IN
  /\ At(s, "upgrade")
  /\ run[s].next <= Len(Script)
  /\ o.name \notin Names(Pending(s))
  /\ CASE Legal(o, Visible(s))             -> run' = created
       [] o = Pgcrypto /\ o \in Visible(s) -> Goto(s, "upgrade", run[s].next + 1)
       [] OTHER                            -> Exited(s)
  /\ UNCHANGED <<catalog, stamped, faults>>

(* The version row is written, everything is committed, alembic returns and*)
(* the command replaces the shell.                                         *)
Commit(s) ==
  /\ At(s, "upgrade")
  /\ run[s].next = Len(Script) + 1
  /\ catalog' = Visible(s)
  /\ stamped' = TRUE
  /\ run' = [run EXCEPT ![s] = [Stopped EXCEPT !.pc = "serving"]]
  /\ UNCHANGED faults

(* The container dies, or alembic loses the database.                      *)
Die(s) ==
  /\ run[s].pc \notin {"down", "exited"}
  /\ faults < MaxFaults
  /\ faults' = faults + 1
  /\ Exited(s)
  /\ UNCHANGED <<catalog, stamped>>

(* make down.                                                              *)
Down ==
  /\ run' = [s \in Services |-> Stopped]
  /\ UNCHANGED <<catalog, stamped, faults>>

(* alembic downgrade base, with no service up.                             *)
Downgrade ==
  /\ stamped
  /\ \A s \in Services : At(s, "down")
  /\ catalog' = {o \in catalog : {o.name, o.table} \cap ToSet(downgrade) = {}}
  /\ stamped' = FALSE
  /\ UNCHANGED <<run, faults>>

Step(s) == ReadHeads(s) \/ EnsureVersionTable(s) \/ Statement(s) \/ Commit(s)

Next == (\E s \in Services : Start(s) \/ Step(s) \/ Die(s)) \/ Down \/ Downgrade

Spec == Init /\ [][Next]_vars

-----------------------------------------------------------------------------
(* Makefile, target up: all the services are brought up.  With no fault,   *)
(* none of them should have exited.                                        *)
AllServicesUp == faults = 0 => \A s \in Services : ~At(s, "exited")
=============================================================================
