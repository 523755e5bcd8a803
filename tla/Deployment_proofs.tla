-------------------------- MODULE Deployment_proofs -------------------------
(***************************************************************************)
(* Proofs about the start-up of the service: first that no message meets a *)
(* missing binding, for any number of publishers, messages and crashes     *)
(* (Topology), then, for the deployment of the compose file and any number *)
(* of crashes, downs and downgrades, what the migrations leave behind and  *)
(* what the processes that run can rely on.                                *)
(***************************************************************************)
EXTENDS Deployment, SequenceTheorems, TLAPS

-----------------------------------------------------------------------------
(* Topology.                                                               *)

(* The invariant: types, a publisher's progress is what exists, and a      *)
(* message that the broker has finds everything declared.                  *)
TopologyInv == TypeOK /\ DeclaredInOrder /\ MessagesComeLast /\ NothingDropped

(* Every role declares known queues.                                        *)
LEMMA DeclarationsTyped ==
  /\ \A i \in 1..7 : Declarations[i] \in Everything
  /\ \A i \in 1..3 : Subscription[i] \in Everything
  /\ \A q \in {"new", "retry", "dlq"} : Binding(q) \in Everything
<1>1. /\ Declarations[1] = Exchange
      /\ Declarations[2] = Queue("new")
      /\ Declarations[5] = Binding("new")
      /\ Declarations[6] = Binding("retry")
      /\ Declarations[7] = Binding("dlq")
  BY DEF Declarations
<1>2. \A i \in 1..7 : Declarations[i] \in Everything
  BY DEF Everything
<1>3. /\ Subscription[1] = Queue("new")
      /\ Subscription[2] = Exchange
      /\ Subscription[3] = Binding("new")
  BY DEF Subscription
<1> QED BY <1>1, <1>2, <1>3

(* A publisher that publishes has declared everything.                     *)
LEMMA PublishingIsLast ==
  ASSUME NEW p \in Publishers, DeclaredInOrder, Publishing(p)
  PROVE  Everything \subseteq exists
BY DEF DeclaredInOrder, Publishing, Everything

(* Once everything is declared, every key is routed to its queue.          *)
LEMMA RoutedHome ==
  ASSUME Everything \subseteq exists, NEW q \in {"new", "retry", "dlq"}
  PROVE  Routed(q) = q
BY DeclarationsTyped DEF Routed

(* The initial state satisfies the invariant.                               *)
LEMMA TopologyInit == Init => TopologyInv
<1> SUFFICES ASSUME Init PROVE TopologyInv
  OBVIOUS
<1>1. TypeOK
  BY TopologyConstants DEF Init, TypeOK
<1>2. DeclaredInOrder
  BY DEF Init, DeclaredInOrder
<1>3. MessagesComeLast /\ NothingDropped
  BY DEF Init, MessagesComeLast, NothingDropped, InBroker
<1> QED BY <1>1, <1>2, <1>3 DEF TopologyInv

(* A message that moves to a real queue, to a task or away for good, once  *)
(* everything is declared.                                                 *)
LEMMA MovePreserves ==
  ASSUME TopologyInv, Everything \subseteq exists,
         NEW m \in Messages, NEW from,
         NEW to \in {"new", "retry", "dlq", "unacked", "done"},
         MoveTo(m, from, to)
  PROVE  TopologyInv'
BY DEF TopologyInv, TypeOK, DeclaredInOrder, MessagesComeLast, NothingDropped, MoveTo, InBroker

(* Every step keeps it.                                                     *)
LEMMA TopologyStep == TopologyInv /\ [Next]_vars => TopologyInv'
<1> SUFFICES ASSUME TopologyInv, [Next]_vars PROVE TopologyInv'
  OBVIOUS
<1> USE TopologyConstants
<1>1. ASSUME NEW p \in Publishers, PublisherDeclares(p) PROVE TopologyInv'
  <2>1. started[p] \in 0..7 /\ started[p] < 7
    BY <1>1 DEF PublisherDeclares, TopologyInv, TypeOK
  <2>2. Declarations[started[p] + 1] \in Everything
    BY <2>1, DeclarationsTyped
  <2>3. TypeOK'
    BY <1>1, <2>1, <2>2 DEF PublisherDeclares, TopologyInv, TypeOK
  <2>4. DeclaredInOrder'
    BY <1>1, <2>1 DEF PublisherDeclares, TopologyInv, TypeOK, DeclaredInOrder
  <2>5. MessagesComeLast' /\ NothingDropped'
    BY <1>1 DEF PublisherDeclares, TopologyInv, MessagesComeLast, NothingDropped
  <2> QED BY <2>3, <2>4, <2>5 DEF TopologyInv
<1>2. ASSUME NEW p \in Publishers, PublisherCrashes(p) PROVE TopologyInv'
  BY <1>2 DEF PublisherCrashes, Fault, TopologyInv, TypeOK, DeclaredInOrder,
              MessagesComeLast, NothingDropped
<1>3. ASSUME NEW p \in Publishers, NEW m \in Messages, PublishEvent(p, m) PROVE TopologyInv'
  <2>1. Everything \subseteq exists
    BY <1>3, PublishingIsLast DEF PublishEvent, TopologyInv
  <2> QED BY <1>3, <2>1, RoutedHome, MovePreserves DEF PublishEvent
<1>4. CASE ConsumerSubscribes
  <2>1. Subscription[subscribed + 1] \in Everything
    BY <1>4, DeclarationsTyped DEF ConsumerSubscribes, TopologyInv, TypeOK
  <2> QED BY <1>4, <2>1 DEF ConsumerSubscribes, TopologyInv, TypeOK, DeclaredInOrder,
                            MessagesComeLast, NothingDropped
<1>5. CASE ConsumerDeclares
  <2>1. Declarations[hook + 1] \in Everything
    BY <1>5, DeclarationsTyped DEF ConsumerDeclares, TopologyInv, TypeOK
  <2> QED BY <1>5, <2>1 DEF ConsumerDeclares, TopologyInv, TypeOK, DeclaredInOrder,
                            MessagesComeLast, NothingDropped
<1>6. CASE ConsumerCrashes
  BY <1>6 DEF ConsumerCrashes, Fault, TopologyInv, TypeOK, DeclaredInOrder,
              MessagesComeLast, NothingDropped, InBroker
<1>7. ASSUME NEW m \in Messages, Receive(m) \/ Settle(m) \/ RetryTtl(m) PROVE TopologyInv'
  <2>1. place[m] \in InBroker
    BY <1>7 DEF Receive, Settle, RetryTtl, MoveTo, InBroker
  <2>2. Everything \subseteq exists
    BY <2>1 DEF TopologyInv, MessagesComeLast
  <2> QED BY <1>7, <2>2, RoutedHome, MovePreserves DEF Receive, Settle, RetryTtl
<1>8. CASE UNCHANGED vars
  BY <1>8 DEF vars, TopologyInv, TypeOK, DeclaredInOrder, MessagesComeLast, NothingDropped
<1> QED BY <1>1, <1>2, <1>3, <1>4, <1>5, <1>6, <1>7, <1>8 DEF Next

(* Topology!NothingDropped: whatever the order in which publishers and the *)
(* consumer start, die and start again, every message published, retried   *)
(* or rejected reaches the queue it is meant for.                          *)
THEOREM NeverDropped == Spec => []NothingDropped
<1>1. TopologyInv => NothingDropped
  BY DEF TopologyInv
<1> QED BY TopologyInit, TopologyStep, <1>1, PTL DEF Spec

-----------------------------------------------------------------------------
(* Migrations.                                                             *)

Script == Compose!Script
Metadata == Compose!Metadata
VersionTable == Compose!VersionTable
Pgcrypto == Compose!Pgcrypto
Container == Compose!Container
Legal(o, objs) == Compose!Legal(o, objs)

(* A sequence with one more element in front.                              *)
LEMMA InFront ==
  ASSUME NEW U, NEW u \in Seq(U), NEW v \in U, Len(u) = 7
  PROVE  /\ Len(<<v>> \o u) = 8 /\ DOMAIN (<<v>> \o u) = 1..8
         /\ \A i \in 1..8 : (<<v>> \o u)[i] = IF i = 1 THEN v ELSE u[i - 1]
<1>1. <<v>> \in Seq(U) /\ Len(<<v>>) = 1 /\ <<v>>[1] = v
  OBVIOUS
<1>2. /\ <<v>> \o u \in Seq(U) /\ Len(<<v>> \o u) = Len(<<v>>) + Len(u)
      /\ \A i \in 1..Len(<<v>>) + Len(u) :
           (<<v>> \o u)[i] = IF i <= Len(<<v>>) THEN <<v>>[i] ELSE u[i - Len(<<v>>)]
  BY <1>1, ConcatProperties
<1> DEFINE w == <<v>> \o u
<1> HIDE DEF w
<1>3. w \in Seq(U) /\ Len(w) = 8 /\ DOMAIN w = 1..8
  BY <1>1, <1>2 DEF w
<1>4. \A i \in 1..8 : w[i] = IF i = 1 THEN v ELSE u[i - 1]
  <2> TAKE i \in 1..8
  <2>1. w[i] = IF i <= 1 THEN <<v>>[i] ELSE u[i - 1]
    BY <1>1, <1>2 DEF w
  <2> QED BY <1>1, <2>1
<1> QED BY <1>3, <1>4 DEF w

(* What the script of alembic creates, in its order.                       *)
LEMMA ScriptIs ==
  /\ Len(Script) = 8
  /\ Script[1] = VersionTable /\ Script[2] = Pgcrypto
  /\ Script[3] = Compose!upgrade[2] /\ Script[4] = Compose!upgrade[3]
  /\ Script[5] = Compose!upgrade[4] /\ Script[6] = Compose!upgrade[5]
  /\ Script[7] = Compose!upgrade[6] /\ Script[8] = Compose!upgrade[7]
  /\ Compose!ToSet(Script) = {Script[i] : i \in 1..8}
<1> DEFINE u == Compose!upgrade
           U == {u[i] : i \in 1..7} \cup {VersionTable}
<1>1. Len(u) = 7 /\ u \in Seq(U) /\ u[1] = Pgcrypto /\ VersionTable \in U
  BY DEF Compose!upgrade, Pgcrypto
<1>2. Script = <<VersionTable>> \o u
  BY DEF Script, Compose!Script, VersionTable
<1> HIDE DEF u, U
<1>3. /\ Len(<<VersionTable>> \o u) = 8 /\ DOMAIN (<<VersionTable>> \o u) = 1..8
      /\ \A i \in 1..8 : (<<VersionTable>> \o u)[i] = IF i = 1 THEN VersionTable ELSE u[i - 1]
  BY <1>1, InFront
<1>4. Len(Script) = 8 /\ DOMAIN Script = 1..8
  BY <1>2, <1>3
<1>5. \A i \in 1..8 : Script[i] = IF i = 1 THEN VersionTable ELSE u[i - 1]
  BY <1>2, <1>3
<1>6. Compose!ToSet(Script) = {Script[i] : i \in 1..8}
  BY <1>4 DEF Compose!ToSet
<1> QED BY <1>1, <1>4, <1>5, <1>6 DEF u

(* The name of every object, and the table an index is on.                 *)
LEMMA ScriptNames ==
  /\ Script[1].name = "alembic_version" /\ Script[1].table = "alembic_version"
  /\ Script[2].name = "pgcrypto" /\ Script[2].table = "pgcrypto"
  /\ Script[3].name = "payments" /\ Script[3].table = "payments"
  /\ Script[4].name = "payments_idempotency_key_uq" /\ Script[4].table = "payments"
  /\ Script[5].name = "payments_status_idx" /\ Script[5].table = "payments"
  /\ Script[6].name = "payments_created_idx" /\ Script[6].table = "payments"
  /\ Script[7].name = "outbox" /\ Script[7].table = "outbox"
  /\ Script[8].name = "outbox_pending_available_idx" /\ Script[8].table = "outbox"
  /\ Script[4].columns \subseteq Script[3].columns
  /\ Script[5].columns \subseteq Script[3].columns
  /\ Script[6].columns \subseteq Script[3].columns
  /\ Script[8].columns \subseteq Script[7].columns
<1>1. /\ Script[1] = VersionTable /\ Script[2] = Pgcrypto
      /\ Script[3] = Compose!upgrade[2] /\ Script[4] = Compose!upgrade[3]
      /\ Script[5] = Compose!upgrade[4] /\ Script[6] = Compose!upgrade[5]
      /\ Script[7] = Compose!upgrade[6] /\ Script[8] = Compose!upgrade[7]
  BY ScriptIs
<1>2. /\ Script[1].name = "alembic_version" /\ Script[1].table = "alembic_version"
      /\ Script[2].name = "pgcrypto" /\ Script[2].table = "pgcrypto"
  BY <1>1 DEF VersionTable, Compose!VersionTable, Pgcrypto, Compose!Pgcrypto, Compose!Table
<1>3. /\ Compose!upgrade[2].name = "payments" /\ Compose!upgrade[2].table = "payments"
      /\ Compose!upgrade[3].name = "payments_idempotency_key_uq"
      /\ Compose!upgrade[3].table = "payments"
      /\ Compose!upgrade[4].name = "payments_status_idx" /\ Compose!upgrade[4].table = "payments"
      /\ Compose!upgrade[5].name = "payments_created_idx" /\ Compose!upgrade[5].table = "payments"
      /\ Compose!upgrade[6].name = "outbox" /\ Compose!upgrade[6].table = "outbox"
      /\ Compose!upgrade[7].name = "outbox_pending_available_idx"
      /\ Compose!upgrade[7].table = "outbox"
  BY DEF Compose!upgrade, Compose!Table, Compose!Index
<1>4. /\ Compose!upgrade[3].columns \subseteq Compose!upgrade[2].columns
      /\ Compose!upgrade[4].columns \subseteq Compose!upgrade[2].columns
      /\ Compose!upgrade[5].columns \subseteq Compose!upgrade[2].columns
      /\ Compose!upgrade[7].columns \subseteq Compose!upgrade[6].columns
  BY DEF Compose!upgrade, Compose!Table, Compose!Index
<1> QED BY <1>1, <1>2, <1>3, <1>4

(* No two objects have the same name.                                      *)
LEMMA NamesDiffer ==
  ASSUME NEW i \in 1..8, NEW j \in 1..8, Script[i].name = Script[j].name
  PROVE  i = j
BY ScriptNames

(* What the models declare is what the script creates from its third       *)
(* statement on.                                                           *)
LEMMA MetadataIs == Metadata = {Script[i] : i \in 3..8}
<1>1. /\ Script[3] = Compose!upgrade[2] /\ Script[4] = Compose!upgrade[3]
      /\ Script[5] = Compose!upgrade[4] /\ Script[6] = Compose!upgrade[5]
      /\ Script[7] = Compose!upgrade[6] /\ Script[8] = Compose!upgrade[7]
  BY ScriptIs
<1>2. {Script[i] : i \in 3..8}
        = {Script[3], Script[4], Script[5], Script[6], Script[7], Script[8]}
  <2>1. 3..8 = {3, 4, 5, 6, 7, 8}
    OBVIOUS
  <2> QED BY <2>1
<1>3. Compose!PaymentsTable
        = {Compose!upgrade[2], Compose!upgrade[3], Compose!upgrade[4], Compose!upgrade[5]}
  <2>1. Compose!BaseFields \cup
          {"amount", "currency", "description", "payment_metadata", "status", "idempotency_key",
           "webhook_url", "last_error", "processed_at", "webhook_delivered_at"}
        = {"id", "created", "updated", "amount", "currency", "description", "payment_metadata",
           "status", "idempotency_key", "webhook_url", "last_error", "processed_at",
           "webhook_delivered_at"}
    BY DEF Compose!BaseFields
  <2> QED BY <2>1 DEF Compose!PaymentsTable, Compose!upgrade
<1>4. Compose!OutboxTable = {Compose!upgrade[6], Compose!upgrade[7]}
  <2>1. Compose!BaseFields \cup
          {"event_type", "topic", "payload", "status", "retry_count", "last_error",
           "available_at", "published_at"}
        = {"id", "created", "updated", "event_type", "topic", "payload", "status",
           "retry_count", "last_error", "available_at", "published_at"}
    BY DEF Compose!BaseFields
  <2> QED BY <2>1 DEF Compose!OutboxTable, Compose!upgrade
<1> QED BY <1>1, <1>2, <1>3, <1>4 DEF Metadata, Compose!Metadata

(* downgrade() drops the tables of the models and their indexes, and       *)
(* nothing else.                                                           *)
LEMMA DowngradeDrops ==
  /\ \A i \in 3..8 : {Script[i].name, Script[i].table} \cap Compose!ToSet(Compose!downgrade) # {}
  /\ {"outbox", "payments"} \subseteq Compose!ToSet(Compose!downgrade)
<1>1. /\ DOMAIN Compose!downgrade = 1..6
      /\ Compose!downgrade[2] = "outbox" /\ Compose!downgrade[6] = "payments"
  BY DEF Compose!downgrade
<1>2. {"outbox", "payments"} \subseteq Compose!ToSet(Compose!downgrade)
  BY <1>1 DEF Compose!ToSet
<1>3. \A i \in 3..8 : Script[i].table \in {"outbox", "payments"}
  BY ScriptNames
<1> QED BY <1>2, <1>3

-----------------------------------------------------------------------------
(* What a container knows of the schema: everything before the statement   *)
(* it is at is there, committed or its own; its own objects are statements *)
(* it has executed; and it is at the first statement of a version table    *)
(* that exists only if another container has finished meanwhile.           *)
Sound(c) ==
  /\ c \in Container
  /\ c.pc = "upgrade" => /\ \A k \in 1..c.next - 1 : Script[k] \in catalog \cup c.made
                         /\ \A o \in c.made : \E k \in 1..c.next - 1 : o = Script[k]
                         /\ c.next = 1 /\ VersionTable \in catalog => stamped
  /\ c.pc # "upgrade" => c.made = {}
  /\ c.pc = "serving" => stamped

(* The version row stands for the whole script, its absence for none of    *)
(* the tables.                                                             *)
CatalogInv ==
  /\ catalog \subseteq {Script[i] : i \in 1..8}
  /\ stamped \in BOOLEAN
  /\ stamped => \A i \in 1..8 : Script[i] \in catalog
  /\ ~ stamped => catalog \subseteq {Script[1], Script[2]}

MigrationInv ==
  /\ CatalogInv
  /\ run \in [Services -> Container]
  /\ \A s \in Services : Sound(run[s])

(* Containers and their fields.                                            *)
LEMMA ContainerIs ==
  /\ Container = [pc : {"down", "heads", "ensure", "upgrade", "serving", "exited"},
                  next : 1..9, made : SUBSET {Script[i] : i \in 1..8}]
  /\ Compose!Stopped = [pc |-> "down", next |-> 1, made |-> {}]
  /\ Len(Compose!Script) = 8 /\ Compose!Script = Script
BY ScriptIs DEF Container, Compose!Container, Compose!Stopped, Script

(* A step of one container that leaves the catalog alone.                  *)
LEMMA OneContainer ==
  ASSUME MigrationInv, NEW s \in Services, NEW c, run' = [run EXCEPT ![s] = c],
         UNCHANGED <<catalog, stamped>>, Sound(c)
  PROVE  MigrationInv'
<1>1. c \in Container
  BY DEF Sound
<1>2. run' \in [Services -> Container]
  BY <1>1 DEF MigrationInv
<1>3. ASSUME NEW t \in Services PROVE Sound(run[t])'
  <2>1. Sound(run'[t])
    BY DEF MigrationInv
  <2> QED BY <2>1 DEF Sound
<1> QED BY <1>2, <1>3 DEF MigrationInv, CatalogInv

(* Goto changes two fields, Exited puts a stopped container in place.      *)
LEMMA GotoIs ==
  ASSUME MigrationInv, NEW s \in Services, NEW pc, NEW next, Compose!Goto(s, pc, next)
  PROVE  run' = [run EXCEPT ![s] = [pc |-> pc, next |-> next, made |-> run[s].made]]
<1> DEFINE y == [run[s] EXCEPT !.pc = pc, !.next = next]
           r == [[run EXCEPT ![s].pc = pc] EXCEPT ![s].next = next]
<1>1. run \in [Services -> Container] /\ run[s] \in Container
  BY DEF MigrationInv
<1>2. y = [pc |-> pc, next |-> next, made |-> run[s].made]
  <2>1. y = [run[s] EXCEPT !.pc = pc, !.next = next]
    OBVIOUS
  <2> HIDE DEF y
  <2> QED BY <1>1, <2>1, ContainerIs
<1>3. run' = [run EXCEPT ![s] = y]
  BY <1>1 DEF Compose!Goto
<1> HIDE DEF y
<1> QED BY <1>2, <1>3

(* The fields of a stopped container.                                      *)
LEMMA ExitedIs ==
  ASSUME NEW s \in Services, Compose!Exited(s)
  PROVE  run' = [run EXCEPT ![s] = [pc |-> "exited", next |-> 1, made |-> {}]]
<1>1. [Compose!Stopped EXCEPT !.pc = "exited"] = [pc |-> "exited", next |-> 1, made |-> {}]
  BY ContainerIs
<1> QED BY <1>1 DEF Compose!Exited

(* A container that is not migrating is sound if its fields are.           *)
LEMMA SoundIdle ==
  ASSUME NEW pc \in {"down", "heads", "ensure", "serving", "exited"}, NEW n \in 1..9,
         pc = "serving" => stamped
  PROVE  Sound([pc |-> pc, next |-> n, made |-> {}])
BY ContainerIs DEF Sound

-----------------------------------------------------------------------------
(* A container that starts has no transaction.                             *)
LEMMA StartMigrates ==
  ASSUME MigrationInv, NEW s \in Services, Compose!Start(s)
  PROVE  MigrationInv'
<1>1. Compose!Goto(s, "heads", 1) /\ UNCHANGED <<catalog, stamped>> /\ run[s].made = {}
  BY DEF Compose!Start, MigrationInv, Sound
<1> DEFINE c == [pc |-> "heads", next |-> 1, made |-> {}]
<1>2. run' = [run EXCEPT ![s] = c]
  BY <1>1, GotoIs
<1>3. Sound(c)
  BY SoundIdle
<1> HIDE DEF c
<1> QED BY <1>1, <1>2, <1>3, OneContainer

(* get_current_heads: a container serves only what is stamped.             *)
LEMMA HeadsMigrates ==
  ASSUME MigrationInv, NEW s \in Services, Compose!ReadHeads(s)
  PROVE  MigrationInv'
<1> DEFINE pc == IF stamped THEN "serving" ELSE "ensure"
<1>1. Compose!Goto(s, pc, 1) /\ UNCHANGED <<catalog, stamped>> /\ run[s].made = {}
  BY DEF Compose!ReadHeads, Compose!At, MigrationInv, Sound
<1>2. pc \in {"down", "heads", "ensure", "serving", "exited"} /\ (pc = "serving" => stamped)
  OBVIOUS
<1> HIDE DEF pc
<1> DEFINE c == [pc |-> pc, next |-> 1, made |-> {}]
<1>3. run' = [run EXCEPT ![s] = c]
  BY <1>1, GotoIs
<1>4. Sound(c)
  BY <1>2, ContainerIs DEF Sound
<1> HIDE DEF c
<1> QED BY <1>1, <1>3, <1>4, OneContainer

(* _ensure_version_table: a container that finds the table skips it.       *)
LEMMA EnsureMigrates ==
  ASSUME MigrationInv, NEW s \in Services, Compose!EnsureVersionTable(s)
  PROVE  MigrationInv'
<1> DEFINE n == IF VersionTable \in catalog THEN 2 ELSE 1
           c == [pc |-> "upgrade", next |-> n, made |-> {}]
<1>1. Compose!Goto(s, "upgrade", n) /\ UNCHANGED <<catalog, stamped>> /\ run[s].made = {}
  BY DEF Compose!EnsureVersionTable, Compose!At, MigrationInv, Sound, VersionTable
<1>2. run' = [run EXCEPT ![s] = c]
  BY <1>1, GotoIs
<1>3. Sound(c)
  <2>1. c.pc = "upgrade" /\ c.next = n /\ c.made = {} /\ c \in Container
    BY ContainerIs
  <2>2. CASE VersionTable \in catalog
    <3>1. n = 2
      BY <2>2
    <3>2. \A k \in 1..n - 1 : Script[k] \in catalog
      BY <2>2, <3>1, ScriptIs
    <3> HIDE DEF n, c
    <3> QED BY <2>1, <3>1, <3>2 DEF Sound
  <2>3. CASE VersionTable \notin catalog
    <3>1. n = 1
      BY <2>3
    <3> HIDE DEF n, c
    <3> QED BY <2>1, <2>3, <3>1 DEF Sound
  <2> QED BY <2>2, <2>3
<1> QED BY <1>1, <1>2, <1>3, OneContainer

-----------------------------------------------------------------------------
(* A container at a statement: the three ways it goes.                     *)
Creates(s) ==
  run' = [run EXCEPT ![s] = [pc |-> "upgrade", next |-> run[s].next + 1,
                             made |-> run[s].made \cup {Script[run[s].next]}]]
Skips(s) ==
  /\ Script[run[s].next] = Pgcrypto /\ Pgcrypto \in catalog \cup run[s].made
  /\ run' = [run EXCEPT ![s] = [pc |-> "upgrade", next |-> run[s].next + 1,
                                made |-> run[s].made]]
Fails(s) ==
  /\ ~ Legal(Script[run[s].next], catalog \cup run[s].made)
  /\ ~ (Script[run[s].next] = Pgcrypto /\ Pgcrypto \in catalog \cup run[s].made)
  /\ run' = [run EXCEPT ![s] = [pc |-> "exited", next |-> 1, made |-> {}]]

(* Statement is one of them.                                               *)
LEMMA StatementIs ==
  ASSUME MigrationInv, NEW s \in Services, Compose!Statement(s)
  PROVE  /\ run[s].pc = "upgrade" /\ run[s].next \in 1..8
         /\ UNCHANGED <<catalog, stamped, crashes>>
         /\ Creates(s) \/ Skips(s) \/ Fails(s)
<1> DEFINE n == run[s].next
           v == catalog \cup run[s].made
<1>1. run \in [Services -> Container] /\ run[s] \in Container
  BY DEF MigrationInv
<1>2. /\ run[s].pc = "upgrade" /\ n \in 1..8
      /\ UNCHANGED <<catalog, stamped, crashes>>
  BY <1>1, ContainerIs DEF Compose!Statement, Compose!At
<1>3. Compose!Visible(s) = v
  BY DEF Compose!Visible
<1>4. \/ /\ Legal(Script[n], v)
         /\ run' = [run EXCEPT ![s].next = @ + 1, ![s].made = @ \cup {Script[n]}]
      \/ /\ ~ Legal(Script[n], v) /\ Script[n] = Pgcrypto /\ Pgcrypto \in v
         /\ Compose!Goto(s, "upgrade", n + 1)
      \/ /\ ~ Legal(Script[n], v) /\ ~ (Script[n] = Pgcrypto /\ Pgcrypto \in v)
         /\ Compose!Exited(s)
  <2> DEFINE o == Script[n]
             created == [run EXCEPT ![s].next = @ + 1, ![s].made = @ \cup {o}]
             legal == Compose!Legal(o, v)
             again == o = Compose!Pgcrypto /\ o \in v
  <2>1. (CASE legal -> run' = created
           [] again -> Compose!Goto(s, "upgrade", n + 1)
           [] OTHER -> Compose!Exited(s))
    <3>1. (CASE Compose!Legal(Compose!Script[n], Compose!Visible(s)) ->
                 run' = [run EXCEPT ![s].next = @ + 1, ![s].made = @ \cup {Compose!Script[n]}]
             [] Compose!Script[n] = Compose!Pgcrypto /\ Compose!Script[n] \in Compose!Visible(s) ->
                 Compose!Goto(s, "upgrade", n + 1)
             [] OTHER -> Compose!Exited(s))
      BY DEF Compose!Statement
    <3>2. Compose!Script = Script
      BY ContainerIs
    <3> QED BY <1>3, <3>1, <3>2
  <2>2. legal \in BOOLEAN /\ again \in BOOLEAN /\ ~ (legal /\ again)
    BY DEF Compose!Legal, Compose!Names
  <2> HIDE DEF legal, again, created
  <2>3. \/ legal /\ run' = created
        \/ ~ legal /\ again /\ Compose!Goto(s, "upgrade", n + 1)
        \/ ~ legal /\ ~ again /\ Compose!Exited(s)
    BY <2>1, <2>2
  <2> QED BY <2>3 DEF legal, again, created, Legal, Pgcrypto
<1>5. ASSUME run' = [run EXCEPT ![s].next = @ + 1, ![s].made = @ \cup {Script[n]}]
      PROVE  Creates(s)
  <2> DEFINE m == n + 1
             d == run[s].made \cup {Script[n]}
             y == [run[s] EXCEPT !.next = m, !.made = d]
  <2>1. run' = [run EXCEPT ![s] = y]
    BY <1>1, <1>5
  <2> HIDE DEF m, d
  <2>2. y = [pc |-> "upgrade", next |-> m, made |-> d]
    <3>1. y = [run[s] EXCEPT !.next = m, !.made = d]
      OBVIOUS
    <3> HIDE DEF y
    <3> QED BY <1>1, <1>2, <3>1, ContainerIs
  <2> HIDE DEF y
  <2> QED BY <2>1, <2>2 DEF Creates, m, d
<1>6. ASSUME Compose!Goto(s, "upgrade", n + 1), Script[n] = Pgcrypto, Pgcrypto \in v
      PROVE  Skips(s)
  <2>1. run' = [run EXCEPT ![s] = [pc |-> "upgrade", next |-> n + 1, made |-> run[s].made]]
    BY <1>6, GotoIs
  <2> QED BY <1>6, <2>1 DEF Skips
<1>7. ASSUME Compose!Exited(s), ~ Legal(Script[n], v), ~ (Script[n] = Pgcrypto /\ Pgcrypto \in v)
      PROVE  Fails(s)
  <2>1. run' = [run EXCEPT ![s] = [pc |-> "exited", next |-> 1, made |-> {}]]
    BY <1>7, ExitedIs
  <2> QED BY <1>7, <2>1 DEF Fails
<1> QED BY <1>2, <1>4, <1>5, <1>6, <1>7

(* A statement keeps the invariant.                                        *)
LEMMA StatementMigrates ==
  ASSUME MigrationInv, NEW s \in Services, Compose!Statement(s)
  PROVE  MigrationInv'
<1> DEFINE n == run[s].next
           made == run[s].made
<1>1. /\ run[s].pc = "upgrade" /\ n \in 1..8
      /\ UNCHANGED <<catalog, stamped>>
      /\ Creates(s) \/ Skips(s) \/ Fails(s)
  BY StatementIs
<1>2. /\ made \subseteq {Script[i] : i \in 1..8}
      /\ \A k \in 1..n - 1 : Script[k] \in catalog \cup made
      /\ \A o \in made : \E k \in 1..n - 1 : o = Script[k]
  BY <1>1, ContainerIs DEF MigrationInv, Sound
<1>3. n + 1 \in 1..9 /\ n + 1 # 1 /\ (n + 1) - 1 = n /\ Script[n] \in {Script[i] : i \in 1..8}
  BY <1>1
<1>4. CASE Creates(s)
  <2> DEFINE c == [pc |-> "upgrade", next |-> n + 1, made |-> made \cup {Script[n]}]
  <2>1. run' = [run EXCEPT ![s] = c]
    BY <1>4 DEF Creates
  <2>2. \A k \in 1..n : Script[k] \in catalog \cup (made \cup {Script[n]})
    <3> TAKE k \in 1..n
    <3>1. k = n \/ k \in 1..n - 1
      BY <1>1
    <3> QED BY <1>2, <3>1
  <2>3. \A o \in made \cup {Script[n]} : \E k \in 1..n : o = Script[k]
    <3>1. \A k \in 1..n - 1 : k \in 1..n
      BY <1>1
    <3>2. n \in 1..n
      BY <1>1
    <3> QED BY <1>2, <3>1, <3>2
  <2>4. c \in Container
    BY <1>2, <1>3, ContainerIs
  <2>5. c.pc = "upgrade" /\ c.next = n + 1 /\ c.made = made \cup {Script[n]}
    OBVIOUS
  <2> HIDE DEF c, n, made
  <2>6. Sound(c)
    BY <1>3, <2>2, <2>3, <2>4, <2>5 DEF Sound
  <2> QED BY <1>1, <2>1, <2>6, OneContainer
<1>5. CASE Skips(s)
  <2> DEFINE c == [pc |-> "upgrade", next |-> n + 1, made |-> made]
  <2>1. run' = [run EXCEPT ![s] = c]
    BY <1>5 DEF Skips
  <2>2. \A k \in 1..n : Script[k] \in catalog \cup made
    <3> TAKE k \in 1..n
    <3>1. k = n \/ k \in 1..n - 1
      BY <1>1
    <3> QED BY <1>2, <1>5, <3>1 DEF Skips
  <2>3. \A o \in made : \E k \in 1..n : o = Script[k]
    <3>1. \A k \in 1..n - 1 : k \in 1..n
      BY <1>1
    <3> QED BY <1>2, <3>1
  <2>4. c \in Container
    BY <1>2, <1>3, ContainerIs
  <2>5. c.pc = "upgrade" /\ c.next = n + 1 /\ c.made = made
    OBVIOUS
  <2> HIDE DEF c, n, made
  <2>6. Sound(c)
    BY <1>3, <2>2, <2>3, <2>4, <2>5 DEF Sound
  <2> QED BY <1>1, <2>1, <2>6, OneContainer
<1>6. CASE Fails(s)
  <2> DEFINE c == [pc |-> "exited", next |-> 1, made |-> {}]
  <2>1. run' = [run EXCEPT ![s] = c]
    BY <1>6 DEF Fails
  <2>2. Sound(c)
    BY SoundIdle
  <2> HIDE DEF c
  <2> QED BY <1>1, <2>1, <2>2, OneContainer
<1> QED BY <1>1, <1>4, <1>5, <1>6

(* COMMIT: everything before the end of the script is there.               *)
LEMMA CommitMigrates ==
  ASSUME MigrationInv, NEW s \in Services, Compose!Commit(s)
  PROVE  MigrationInv'
<1> DEFINE made == run[s].made
           c == [pc |-> "serving", next |-> 1, made |-> {}]
<1>1. run[s].pc = "upgrade" /\ run[s].next = 9 /\ stamped' = TRUE
  BY ContainerIs DEF Compose!Commit, Compose!At
<1>2. catalog' = catalog \cup made
  BY DEF Compose!Commit, Compose!Visible
<1>3. run' = [run EXCEPT ![s] = c]
  <2>1. [Compose!Stopped EXCEPT !.pc = "serving"] = c
    BY ContainerIs
  <2> HIDE DEF c
  <2> QED BY <2>1 DEF Compose!Commit
<1>4. /\ made \subseteq {Script[i] : i \in 1..8}
      /\ \A i \in 1..8 : Script[i] \in catalog'
  <2>1. \A k \in 1..run[s].next - 1 : Script[k] \in catalog \cup made
    BY <1>1 DEF MigrationInv, Sound
  <2>2. run[s].next - 1 = 8
    BY <1>1
  <2>3. run[s] \in Container
    BY DEF MigrationInv
  <2> QED BY <1>2, <2>1, <2>2, <2>3, ContainerIs
<1>5. CatalogInv'
  BY <1>1, <1>2, <1>4 DEF CatalogInv, MigrationInv
<1>6. c \in Container /\ Sound(c)'
  <2>1. c \in Container
    BY ContainerIs
  <2>2. c.pc = "serving" /\ c.made = {}
    OBVIOUS
  <2> HIDE DEF c
  <2> QED BY <1>1, <2>1, <2>2 DEF Sound
<1> HIDE DEF c
<1>7. run' \in [Services -> Container]
  BY <1>3, <1>6 DEF MigrationInv
<1>8. ASSUME NEW t \in Services PROVE Sound(run[t])'
  <2>1. CASE t = s
    <3>1. run'[t] = c
      BY <1>3, <2>1 DEF MigrationInv
    <3> QED BY <1>6, <3>1 DEF Sound
  <2>2. CASE t # s
    <3>1. run'[t] = run[t] /\ Sound(run[t])
      BY <1>3, <2>2 DEF MigrationInv
    <3>2. catalog \subseteq catalog' /\ stamped'
      BY <1>1, <1>2
    <3> QED BY <3>1, <3>2 DEF Sound
  <2> QED BY <2>1, <2>2
<1> QED BY <1>5, <1>7, <1>8 DEF MigrationInv

(* A container that dies or is taken down has no transaction.              *)
LEMMA DieMigrates ==
  ASSUME MigrationInv, NEW s \in Services, Compose!Die(s)
  PROVE  MigrationInv'
<1> DEFINE c == [pc |-> "exited", next |-> 1, made |-> {}]
<1>1. UNCHANGED <<catalog, stamped>> /\ Compose!Exited(s)
  BY DEF Compose!Die
<1>2. run' = [run EXCEPT ![s] = c]
  BY <1>1, ExitedIs
<1>3. Sound(c)
  BY SoundIdle
<1> HIDE DEF c
<1> QED BY <1>1, <1>2, <1>3, OneContainer

(* make down.                                                              *)
LEMMA DownMigrates ==
  ASSUME MigrationInv, Compose!Down
  PROVE  MigrationInv'
<1>1. UNCHANGED <<catalog, stamped>> /\ run' = [s \in Services |-> Compose!Stopped]
  BY DEF Compose!Down, Services
<1>2. Compose!Stopped \in Container /\ Sound(Compose!Stopped)
  BY ContainerIs DEF Sound
<1>3. Sound(Compose!Stopped)'
  BY <1>1, <1>2, ContainerIs DEF Sound
<1>4. run' \in [Services -> Container]
  BY <1>1, <1>2
<1>5. ASSUME NEW s \in Services PROVE Sound(run[s])'
  <2>1. run'[s] = Compose!Stopped
    BY <1>1
  <2> QED BY <1>3, <2>1 DEF Sound
<1> QED BY <1>1, <1>4, <1>5 DEF MigrationInv, CatalogInv

(* alembic downgrade base, with every container down.                      *)
LEMMA DowngradeMigrates ==
  ASSUME MigrationInv, Compose!Downgrade
  PROVE  MigrationInv'
<1>1. /\ stamped' = FALSE /\ run' = run
      /\ \A s \in Services : run[s].pc = "down"
      /\ catalog' = {o \in catalog :
                       {o.name, o.table} \cap Compose!ToSet(Compose!downgrade) = {}}
  BY DEF Compose!Downgrade, Compose!At, Services
<1>2. catalog' \subseteq {Script[1], Script[2]}
  <2> SUFFICES ASSUME NEW o \in catalog' PROVE o \in {Script[1], Script[2]}
    OBVIOUS
  <2>1. PICK i \in 1..8 : o = Script[i]
    BY <1>1 DEF MigrationInv, CatalogInv
  <2>2. i \notin 3..8
    BY <1>1, <2>1, DowngradeDrops
  <2>3. i = 1 \/ i = 2
    BY <2>2
  <2> QED BY <2>1, <2>3
<1>3. CatalogInv'
  BY <1>1, <1>2 DEF MigrationInv, CatalogInv
<1>4. ASSUME NEW s \in Services PROVE Sound(run[s])'
  BY <1>1 DEF MigrationInv, Sound
<1> QED BY <1>1, <1>3, <1>4 DEF MigrationInv

(* Nothing is stamped and every container is down.                         *)
LEMMA InitMigrates == Compose!Init => MigrationInv
<1> SUFFICES ASSUME Compose!Init PROVE MigrationInv
  OBVIOUS
<1>1. catalog = {} /\ stamped = FALSE /\ run = [s \in Services |-> Compose!Stopped]
  BY DEF Compose!Init, Services
<1>2. Compose!Stopped \in Container /\ Sound(Compose!Stopped)
  BY ContainerIs DEF Sound
<1> QED BY <1>1, <1>2 DEF MigrationInv, CatalogInv

-----------------------------------------------------------------------------
(* A statement that fails meets an object that another container has       *)
(* committed: its own transaction made nothing of that name, and the table *)
(* of an index is there.                                                   *)
LEMMA FailureIsRace ==
  ASSUME MigrationInv, NEW s \in Services, run[s].pc = "upgrade", run[s].next \in 1..8, Fails(s)
  PROVE  Metadata \subseteq catalog
<1> DEFINE n == run[s].next
           v == catalog \cup run[s].made
           o == Script[n]
<1>1. CASE stamped
  BY <1>1, MetadataIs DEF MigrationInv, CatalogInv
<1>2. CASE ~ stamped
  <2>1. /\ \A k \in 1..n - 1 : Script[k] \in v
        /\ \A d \in run[s].made : \E k \in 1..n - 1 : d = Script[k]
        /\ n = 1 => VersionTable \notin catalog
    BY <1>2 DEF MigrationInv, Sound
  <2>2. o.name # o.table => \E t \in v : t.name = o.table /\ o.columns \subseteq t.columns
    <3>1. n \in {4, 5, 6} => Script[3] \in v
      BY <2>1
    <3>2. n = 8 => Script[7] \in v
      BY <2>1
    <3>3. n \in {1, 2, 3, 7} => o.name = o.table
      BY ScriptNames
    <3>4. n \in {4, 5, 6} => Script[3].name = o.table /\ o.columns \subseteq Script[3].columns
      BY ScriptNames
    <3>5. n = 8 => Script[7].name = o.table /\ o.columns \subseteq Script[7].columns
      BY ScriptNames
    <3>6. n \in {1, 2, 3, 7} \/ n \in {4, 5, 6} \/ n = 8
      OBVIOUS
    <3> HIDE DEF v
    <3> QED BY <3>1, <3>2, <3>3, <3>4, <3>5, <3>6
  <2>3. ~ Legal(o, v)
    BY DEF Fails
  <2>4. PICK d \in v : d.name = o.name
    BY <2>2, <2>3 DEF Legal, Compose!Legal, Compose!Names
  <2>5. d \notin run[s].made
    <3> SUFFICES ASSUME d \in run[s].made PROVE FALSE
      OBVIOUS
    <3>1. PICK k \in 1..n - 1 : d = Script[k]
      BY <2>1
    <3>2. k \in 1..8 /\ k # n
      OBVIOUS
    <3> QED BY <2>4, <3>1, <3>2, NamesDiffer
  <2>6. d \in {Script[1], Script[2]}
    BY <1>2, <2>5 DEF MigrationInv, CatalogInv
  <2>7. n \in {1, 2} /\ o \in catalog
    <3>1. PICK i \in {1, 2} : d = Script[i]
      BY <2>6
    <3>2. i \in 1..8
      OBVIOUS
    <3>3. i = n
      BY <2>4, <3>1, <3>2, NamesDiffer
    <3> QED BY <2>5, <3>1, <3>3
  <2>8. CASE n = 1
    BY <2>1, <2>7, <2>8, ScriptIs
  <2>9. CASE n = 2
    BY <2>7, <2>9, ScriptIs DEF Fails
  <2> QED BY <2>7, <2>8, <2>9
<1> QED BY <1>1, <1>2

(* What a migration step does to the containers.                           *)
LEMMA StepIs ==
  ASSUME MigrationInv, NEW s \in Services, Compose!Step(s)
  PROVE  /\ MigrationInv' /\ crashes' = crashes
         /\ \A t \in Services \ {s} : run'[t] = run[t]
         /\ run[s].pc \in {"heads", "ensure", "upgrade"} /\ run'[s].pc # "down"
         /\ run'[s].pc = "exited" => Metadata \subseteq catalog
<1>0. run \in [Services -> Container]
  BY DEF MigrationInv
<1>1. CASE Compose!ReadHeads(s)
  <2>1. /\ run[s].pc = "heads" /\ crashes' = crashes
        /\ Compose!Goto(s, IF stamped THEN "serving" ELSE "ensure", 1)
    BY <1>1 DEF Compose!ReadHeads, Compose!At
  <2>2. run' = [run EXCEPT ![s] = [pc |-> IF stamped THEN "serving" ELSE "ensure",
                                   next |-> 1, made |-> run[s].made]]
    BY <2>1, GotoIs
  <2>3. run'[s].pc = IF stamped THEN "serving" ELSE "ensure"
    BY <1>0, <2>2
  <2> QED BY <1>0, <1>1, <2>1, <2>2, <2>3, HeadsMigrates
<1>2. CASE Compose!EnsureVersionTable(s)
  <2> DEFINE n == IF Compose!VersionTable \in catalog THEN 2 ELSE 1
  <2>1. /\ run[s].pc = "ensure" /\ crashes' = crashes /\ Compose!Goto(s, "upgrade", n)
    BY <1>2 DEF Compose!EnsureVersionTable, Compose!At
  <2> HIDE DEF n
  <2>2. run' = [run EXCEPT ![s] = [pc |-> "upgrade", next |-> n, made |-> run[s].made]]
    BY <2>1, GotoIs
  <2>3. run'[s].pc = "upgrade"
    BY <1>0, <2>2
  <2> QED BY <1>0, <1>2, <2>1, <2>2, <2>3, EnsureMigrates
<1>3. CASE Compose!Statement(s)
  <2>1. /\ run[s].pc = "upgrade" /\ run[s].next \in 1..8 /\ crashes' = crashes
        /\ Creates(s) \/ Skips(s) \/ Fails(s)
    BY <1>3, StatementIs
  <2>2. /\ \A t \in Services \ {s} : run'[t] = run[t]
        /\ run'[s].pc \in {"upgrade", "exited"}
        /\ run'[s].pc = "exited" => Fails(s)
    BY <1>0, <2>1 DEF Creates, Skips, Fails
  <2> QED BY <1>3, <2>1, <2>2, StatementMigrates, FailureIsRace
<1>4. CASE Compose!Commit(s)
  <2>1. /\ run[s].pc = "upgrade" /\ crashes' = crashes
        /\ run' = [run EXCEPT ![s] = [Compose!Stopped EXCEPT !.pc = "serving"]]
    BY <1>4 DEF Compose!Commit, Compose!At
  <2>2. [Compose!Stopped EXCEPT !.pc = "serving"].pc = "serving"
    BY ContainerIs
  <2>3. run'[s].pc = "serving" /\ \A t \in Services \ {s} : run'[t] = run[t]
    BY <1>0, <2>1, <2>2
  <2> QED BY <1>4, <2>1, <2>3, CommitMigrates
<1> QED BY <1>1, <1>2, <1>3, <1>4 DEF Compose!Step

-----------------------------------------------------------------------------
(* Assembly.                                                               *)

(* What the outbox publisher needs, and nothing but that.                  *)
PublisherNeeds == {"OutboxPublisher", "RabbitBroker", "RabbitExchange", "OutboxRepo",
                   "AsyncEngine", "Settings"}

(* No provider of those asks for anything else.                            *)
LEMMA NeedsAreClosed ==
  ASSUME NEW o \in PublisherNeeds
  PROVE  Deps[o] \subseteq PublisherNeeds
<1>1. ASSUME NEW p \in Providers, o \in DOMAIN p PROVE p[o] \subseteq PublisherNeeds
  <2>1. CASE p = SettingsDeps
    BY <1>1, <2>1 DEF SettingsDeps, PublisherNeeds
  <2>2. CASE p = DBDeps
    BY <1>1, <2>2 DEF DBDeps, PublisherNeeds
  <2>3. CASE p = HttpDeps
    BY <1>1, <2>3 DEF HttpDeps, PublisherNeeds
  <2>4. CASE p = RedisDeps
    BY <1>1, <2>4 DEF RedisDeps, PublisherNeeds
  <2>5. CASE p = BrokerDeps
    BY <1>1, <2>5 DEF BrokerDeps, PublisherNeeds
  <2>6. CASE p = LogicDeps
    BY <1>1, <2>6 DEF LogicDeps, PublisherNeeds
  <2>7. CASE p = AppDeps
    BY <1>1, <2>7 DEF AppDeps, PublisherNeeds
  <2>8. CASE p = MiddlewareDeps
    BY <1>1, <2>8 DEF MiddlewareDeps, PublisherNeeds
  <2>9. CASE p = ConsumerDeps
    BY <1>1, <2>9 DEF ConsumerDeps, PublisherNeeds
  <2>10. CASE p = WorkerDeps
    BY <1>1, <2>10 DEF WorkerDeps, PublisherNeeds
  <2> QED BY <2>1, <2>2, <2>3, <2>4, <2>5, <2>6, <2>7, <2>8, <2>9, <2>10 DEF Providers
<1>2. o \in UNION {DOMAIN p : p \in Providers}
  <2>1. \E p \in {SettingsDeps, DBDeps, BrokerDeps, WorkerDeps} : o \in DOMAIN p
    BY DEF PublisherNeeds, SettingsDeps, DBDeps, BrokerDeps, WorkerDeps
  <2> QED BY <2>1 DEF Providers
<1>3. Deps[o] = UNION {p[o] : p \in {q \in Providers : o \in DOMAIN q}}
  BY <1>2 DEF Deps
<1> QED BY <1>1, <1>3

(* What a process has built contains its root and what the root asks for   *)
(* down to two steps.                                                      *)
LEMMA BuiltHas ==
  ASSUME NEW s \in Services
  PROVE  Asked(Asked({Root[s]})) \subseteq Built[s]
<1>1. \A S : S \subseteq Asked(S)
  BY DEF Asked
<1>2. Built[s] = Asked(Asked(Asked(Asked(Asked(Asked({Root[s]}))))))
  BY DEF Built, Root, Services, Compose!Services
<1> DEFINE A == Asked(Asked({Root[s]}))
<1> HIDE DEF A
<1>3. A \subseteq Asked(Asked(Asked(Asked(A))))
  BY <1>1
<1> QED BY <1>2, <1>3 DEF A

(* The consumer builds the retry middleware, which its root asks for.      *)
LEMMA BuiltIs ==
  /\ \A s \in Services : Built[s] # {}
  /\ "RetryMiddleware" \in Built["consumer"]
  /\ Built["outbox-publisher"] \subseteq PublisherNeeds
<1>1. Services = {"api", "consumer", "outbox-publisher"}
  BY DEF Services, Compose!Services
<1>2. /\ DOMAIN Root = Services
      /\ Root["consumer"] = "ConsumerApp" /\ Root["outbox-publisher"] = "OutboxPublisher"
  BY <1>1 DEF Root
<1>3. \A s \in Services : Built[s] # {}
  <2> TAKE s \in Services
  <2>1. Root[s] \in Asked(Asked({Root[s]}))
    BY DEF Asked
  <2> QED BY <2>1, BuiltHas
<1>4. "RetryMiddleware" \in Built["consumer"]
  <2>1. /\ ConsumerDeps \in Providers
        /\ DOMAIN ConsumerDeps = {"PaymentConsumer", "ConsumerApp"}
        /\ "PaymentConsumer" \in ConsumerDeps["ConsumerApp"]
        /\ "RetryMiddleware" \in ConsumerDeps["PaymentConsumer"]
    BY DEF Providers, ConsumerDeps
  <2>2. \A o \in DOMAIN ConsumerDeps : ConsumerDeps[o] \subseteq Deps[o]
    <3> TAKE o \in DOMAIN ConsumerDeps
    <3>1. Deps[o] = UNION {p[o] : p \in {q \in Providers : o \in DOMAIN q}}
      BY <2>1 DEF Deps
    <3>2. ConsumerDeps \in {q \in Providers : o \in DOMAIN q}
      BY <2>1
    <3> QED BY <3>1, <3>2
  <2>3. "PaymentConsumer" \in Asked({"ConsumerApp"})
    BY <2>1, <2>2 DEF Asked
  <2>4. "RetryMiddleware" \in Asked(Asked({"ConsumerApp"}))
    <3>1. "RetryMiddleware" \in Deps["PaymentConsumer"]
      BY <2>1, <2>2
    <3> QED BY <2>3, <3>1 DEF Asked
  <2>5. "consumer" \in Services
    BY <1>1
  <2> QED BY <1>2, <2>4, <2>5, BuiltHas
<1>5. Built["outbox-publisher"] \subseteq PublisherNeeds
  <2>1. \A S : S \subseteq PublisherNeeds => Asked(S) \subseteq PublisherNeeds
    BY NeedsAreClosed DEF Asked
  <2>2. {Root["outbox-publisher"]} \subseteq PublisherNeeds
    BY <1>2 DEF PublisherNeeds
  <2>3. Asked(Asked(Asked(Asked(Asked(Asked({Root["outbox-publisher"]}))))))
          \subseteq PublisherNeeds
    BY <2>1, <2>2
  <2> QED BY <1>1, <1>2, <2>3 DEF Built
<1> QED BY <1>3, <1>4, <1>5

-----------------------------------------------------------------------------
(* The whole deployment.                                                   *)

(* A container that has been started found its servers up.                 *)
Waited == \A s \in Services : run[s].pc # "down" => AwaitedServers(s) \subseteq healthy

(* A process that runs has built its objects and was migrated before.      *)
Assembled ==
  /\ objects \in [Services -> {{}} \cup {Built[s] : s \in Services}]
  /\ \A s \in Services : objects[s] # {} => objects[s] = Built[s] /\ run[s].pc = "serving"

(* Only a consumer that runs holds a message.                              *)
Handled == (\E m \in Messages : place[m] = "unacked") => Running("consumer")

(* The inductive invariant.                                                *)
DeploymentInv == TopologyInv /\ MigrationInv /\ Waited /\ Assembled /\ Handled

(* The services are those of the compose file.                             *)
LEMMA ServicesAre ==
  /\ Services = {"api", "consumer", "outbox-publisher"}
  /\ Publishers = {"outbox-publisher"}
BY DeploymentConstants DEF Services, Compose!Services

(* It holds when nothing has been started.                                 *)
LEMMA DeploymentInitInv == DeploymentInit => DeploymentInv
<1> SUFFICES ASSUME DeploymentInit PROVE DeploymentInv
  OBVIOUS
<1>1. TopologyInv /\ MigrationInv
  BY TopologyInit, InitMigrates DEF DeploymentInit
<1>2. \A s \in Services : run[s].pc = "down"
  BY ContainerIs DEF DeploymentInit, Compose!Init, Services
<1>3. objects = [s \in Services |-> {}] /\ \A m \in Messages : place[m] = "outbox"
  BY DEF DeploymentInit, Init
<1>4. Waited /\ Assembled /\ Handled
  BY <1>2, <1>3 DEF Waited, Assembled, Handled
<1> QED BY <1>1, <1>4 DEF DeploymentInv

(* A server becomes healthy.                                               *)
LEMMA HealthyStep ==
  ASSUME DeploymentInv, NEW v \in Servers, ServerHealthy(v)
  PROVE  DeploymentInv'
<1>1. healthy' = healthy \cup {v} /\ UNCHANGED <<vars, composeVars, objects>>
  BY DEF ServerHealthy
<1>2. TopologyInv'
  BY <1>1, TopologyStep DEF DeploymentInv
<1>3. MigrationInv'
  BY <1>1 DEF DeploymentInv, MigrationInv, CatalogInv, Sound, composeVars
<1>4. Waited' /\ Assembled' /\ Handled'
  BY <1>1 DEF DeploymentInv, Waited, Assembled, Handled, Running, AwaitedServers,
              composeVars, vars
<1> QED BY <1>2, <1>3, <1>4 DEF DeploymentInv

(* A container starts when its servers are up.                             *)
LEMMA StartStep ==
  ASSUME DeploymentInv, NEW s \in Services, Start(s)
  PROVE  DeploymentInv'
<1>1. /\ AwaitedServers(s) \subseteq healthy /\ Compose!Start(s)
      /\ UNCHANGED <<topologyVars, healthy, objects>>
  BY DEF Start
<1>2. run[s].pc \in {"down", "exited"} /\ Compose!Goto(s, "heads", 1) /\ crashes' = crashes
  BY <1>1 DEF Compose!Start
<1>3. MigrationInv /\ run \in [Services -> Container]
  BY DEF DeploymentInv, MigrationInv
<1>4. run' = [run EXCEPT ![s] = [pc |-> "heads", next |-> 1, made |-> run[s].made]]
  BY <1>2, <1>3, GotoIs
<1>5. TopologyInv'
  <2>1. UNCHANGED vars
    BY <1>1, <1>2 DEF topologyVars, vars
  <2> QED BY <2>1, TopologyStep DEF DeploymentInv
<1>6. MigrationInv'
  BY <1>1, <1>3, StartMigrates
<1>7. Waited'
  BY <1>1, <1>3, <1>4 DEF DeploymentInv, Waited, AwaitedServers
<1>8. objects[s] = {}
  BY <1>2 DEF DeploymentInv, Assembled
<1>9. Assembled' /\ Handled'
  BY <1>1, <1>3, <1>4, <1>8 DEF DeploymentInv, Assembled, Handled, Running, topologyVars
<1> QED BY <1>5, <1>6, <1>7, <1>9 DEF DeploymentInv

(* A container takes a step of its migration.                              *)
LEMMA MigrateStep ==
  ASSUME DeploymentInv, NEW s \in Services, Migrate(s)
  PROVE  DeploymentInv'
<1>1. Compose!Step(s) /\ UNCHANGED <<topologyVars, healthy, objects>>
  BY DEF Migrate
<1>2. /\ MigrationInv' /\ crashes' = crashes
      /\ \A t \in Services \ {s} : run'[t] = run[t]
      /\ run[s].pc \in {"heads", "ensure", "upgrade"} /\ run'[s].pc # "down"
  BY <1>1, StepIs DEF DeploymentInv
<1>3. TopologyInv'
  <2>1. UNCHANGED vars
    BY <1>1, <1>2 DEF topologyVars, vars
  <2> QED BY <2>1, TopologyStep DEF DeploymentInv
<1>4. Waited'
  BY <1>1, <1>2 DEF DeploymentInv, Waited, AwaitedServers
<1>5. objects[s] = {}
  BY <1>2 DEF DeploymentInv, Assembled
<1>6. Assembled' /\ Handled'
  BY <1>1, <1>2, <1>5 DEF DeploymentInv, Assembled, Handled, Running, topologyVars
<1> QED BY <1>2, <1>3, <1>4, <1>6 DEF DeploymentInv

(* A process builds its objects.                                           *)
LEMMA AssembleStep ==
  ASSUME DeploymentInv, NEW s \in Services, Assemble(s)
  PROVE  DeploymentInv'
<1>1. /\ run[s].pc = "serving" /\ objects' = [objects EXCEPT ![s] = Built[s]]
      /\ UNCHANGED <<vars, healthy, composeVars>>
  BY DEF Assemble, Compose!At
<1>2. TopologyInv'
  BY <1>1, TopologyStep DEF DeploymentInv
<1>3. MigrationInv'
  BY <1>1 DEF DeploymentInv, MigrationInv, CatalogInv, Sound, composeVars
<1>4. Waited'
  BY <1>1 DEF DeploymentInv, Waited, AwaitedServers, composeVars
<1>5. Assembled'
  BY <1>1 DEF DeploymentInv, Assembled, composeVars
<1>6. Handled'
  <2>1. "consumer" \in Services /\ Built["consumer"] # {}
    BY ServicesAre, BuiltIs
  <2>2. objects["consumer"] # {} => objects'["consumer"] # {}
    BY <1>1, <2>1, BuiltIs DEF DeploymentInv, Assembled
  <2> QED BY <1>1, <2>2 DEF DeploymentInv, Handled, Running, vars
<1> QED BY <1>2, <1>3, <1>4, <1>5, <1>6 DEF DeploymentInv

(* Publishers, the consumer and the broker pass messages on.               *)
LEMMA RunStep ==
  ASSUME DeploymentInv,
         (\E p \in Publishers : PublisherRuns(p)) \/ ConsumerRuns \/ BrokerRuns
  PROVE  DeploymentInv'
<1>1. UNCHANGED <<healthy, composeVars, objects>>
  BY DEF PublisherRuns, ConsumerRuns, BrokerRuns
<1>2. Next
  BY DEF PublisherRuns, ConsumerRuns, BrokerRuns, Next
<1>3. TopologyInv'
  BY <1>2, TopologyStep DEF DeploymentInv
<1>4. MigrationInv'
  BY <1>1 DEF DeploymentInv, MigrationInv, CatalogInv, Sound, composeVars
<1>5. Waited' /\ Assembled'
  BY <1>1 DEF DeploymentInv, Waited, Assembled, AwaitedServers, composeVars
<1>6. Handled'
  <2>1. CASE ConsumerRuns
    BY <1>1, <2>1 DEF ConsumerRuns, Handled, Running
  <2>2. CASE (\E p \in Publishers : PublisherRuns(p)) \/ BrokerRuns
    <3>1. \A m \in Messages : place'[m] = "unacked" => place[m] = "unacked"
      <4>1. place \in [Messages -> {"outbox", "done", "dropped", "gone"} \cup InBroker]
        BY DEF DeploymentInv, TopologyInv, TypeOK
      <4>2. Routed("new") \in {"new", "dropped"}
        BY DEF Routed
      <4>3. ASSUME NEW m \in Messages, NEW from, MoveTo(m, from, Routed("new"))
            PROVE  \A k \in Messages : place'[k] = "unacked" => place[k] = "unacked"
        BY <4>1, <4>2, <4>3 DEF MoveTo
      <4>4. ASSUME NEW p \in Publishers, PublisherDeclares(p)
            PROVE  place' = place
        BY <4>4 DEF PublisherDeclares
      <4> QED BY <2>2, <4>3, <4>4 DEF PublisherRuns, BrokerRuns, PublishEvent, RetryTtl
    <3> QED BY <1>1, <3>1 DEF DeploymentInv, Handled, Running
  <2> QED BY <2>1, <2>2
<1> QED BY <1>3, <1>4, <1>5, <1>6 DEF DeploymentInv

(* A container dies: its objects are gone, and the message it had is back. *)
LEMMA DieStep ==
  ASSUME DeploymentInv, NEW s \in Services, Die(s)
  PROVE  DeploymentInv' /\ crashes' # crashes
<1>1. /\ Compose!Die(s) /\ objects' = [objects EXCEPT ![s] = {}] /\ healthy' = healthy
      /\ CASE s \in Publishers -> PublisherCrashes(s)
           [] s = "consumer"   -> ConsumerCrashes
           [] OTHER            -> UNCHANGED topologyVars
  BY DEF Die
<1>2. MigrationInv /\ run \in [Services -> Container]
  BY DEF DeploymentInv, MigrationInv
<1>3. run[s].pc # "down" /\ crashes < MaxCrashes /\ crashes' = crashes + 1 /\ Compose!Exited(s)
  BY <1>1 DEF Compose!Die
<1>4. run' = [run EXCEPT ![s] = [pc |-> "exited", next |-> 1, made |-> {}]]
  BY <1>3, ExitedIs
<1>5. MigrationInv'
  BY <1>1, <1>2, DieMigrates
<1>6. \/ s \in Publishers /\ PublisherCrashes(s)
      \/ s = "consumer" /\ ConsumerCrashes
      \/ s = "api" /\ UNCHANGED topologyVars
  BY <1>1, ServicesAre
<1>7. crashes \in Nat /\ crashes' \in 0..MaxCrashes /\ crashes' # crashes
  BY <1>3, TopologyConstants DEF DeploymentInv, TopologyInv, TypeOK
<1>8. TopologyInv'
  <2>1. CASE s \in Publishers /\ PublisherCrashes(s)
    BY <2>1, TopologyStep DEF DeploymentInv, Next
  <2>2. CASE s = "consumer" /\ ConsumerCrashes
    BY <2>2, TopologyStep DEF DeploymentInv, Next
  <2>3. CASE s = "api" /\ UNCHANGED topologyVars
    BY <1>7, <2>3 DEF DeploymentInv, TopologyInv, TypeOK, DeclaredInOrder, MessagesComeLast,
                      NothingDropped, topologyVars
  <2> QED BY <1>6, <2>1, <2>2, <2>3
<1>9. Waited'
  BY <1>1, <1>2, <1>3, <1>4 DEF DeploymentInv, Waited, AwaitedServers
<1>10. Assembled'
  BY <1>1, <1>2, <1>4 DEF DeploymentInv, Assembled
<1>11. Handled'
  <2>1. CASE s = "consumer"
    <3>1. ConsumerCrashes
      BY <1>6, <2>1, ServicesAre
    <3>2. \A m \in Messages : place'[m] # "unacked"
      BY <3>1 DEF ConsumerCrashes
    <3> QED BY <3>2 DEF Handled
  <2>2. CASE s # "consumer"
    <3>1. place' = place
      BY <1>6, <2>2 DEF PublisherCrashes, topologyVars
    <3>2. objects'["consumer"] = objects["consumer"]
      BY <1>1, <2>2, ServicesAre DEF DeploymentInv, Assembled
    <3> QED BY <3>1, <3>2 DEF DeploymentInv, Handled, Running
  <2> QED BY <2>1, <2>2
<1> QED BY <1>5, <1>7, <1>8, <1>9, <1>10, <1>11 DEF DeploymentInv

(* make down: only what PostgreSQL has stored stays.                       *)
LEMMA DownStep ==
  ASSUME DeploymentInv, Down
  PROVE  DeploymentInv'
<1>1. /\ Compose!Down /\ healthy' = {} /\ objects' = [s \in Services |-> {}]
      /\ started' = [p \in Publishers |-> 0] /\ subscribed' = 0 /\ hook' = 0
      /\ place' = [m \in Messages |-> IF place[m] \in InBroker THEN "gone" ELSE place[m]]
      /\ exists' = {}
  BY DEF Down
<1>2. run' = [s \in Services |-> Compose!Stopped] /\ crashes' = crashes
  BY <1>1 DEF Compose!Down, Services
<1>3. TopologyInv'
  <2>1. TypeOK'
    BY <1>1, <1>2 DEF DeploymentInv, TopologyInv, TypeOK
  <2>2. DeclaredInOrder'
    BY <1>1 DEF DeclaredInOrder
  <2>3. MessagesComeLast' /\ NothingDropped'
    BY <1>1 DEF DeploymentInv, TopologyInv, MessagesComeLast, NothingDropped, InBroker
  <2> QED BY <2>1, <2>2, <2>3 DEF TopologyInv
<1>4. MigrationInv'
  BY <1>1, DownMigrates DEF DeploymentInv
<1>5. Waited' /\ Assembled' /\ Handled'
  <2>1. \A s \in Services : run'[s].pc = "down"
    BY <1>2, ContainerIs
  <2>2. \A m \in Messages : place'[m] # "unacked"
    BY <1>1 DEF InBroker
  <2> QED BY <1>1, <2>1, <2>2 DEF Waited, Assembled, Handled
<1> QED BY <1>3, <1>4, <1>5 DEF DeploymentInv

(* A downgrade happens while nothing runs.                                 *)
LEMMA DowngradeStep ==
  ASSUME DeploymentInv, Downgrade
  PROVE  DeploymentInv'
<1>1. Compose!Downgrade /\ UNCHANGED <<topologyVars, healthy, objects>>
  BY DEF Downgrade
<1>2. run' = run /\ crashes' = crashes
  BY <1>1 DEF Compose!Downgrade
<1>3. TopologyInv'
  <2>1. UNCHANGED vars
    BY <1>1, <1>2 DEF topologyVars, vars
  <2> QED BY <2>1, TopologyStep DEF DeploymentInv
<1>4. MigrationInv'
  BY <1>1, DowngradeMigrates DEF DeploymentInv
<1>5. Waited' /\ Assembled' /\ Handled'
  BY <1>1, <1>2 DEF DeploymentInv, Waited, Assembled, Handled, Running, AwaitedServers,
                    topologyVars
<1> QED BY <1>3, <1>4, <1>5 DEF DeploymentInv

(* The invariant is inductive.                                             *)
LEMMA DeploymentNextInv == DeploymentInv /\ [DeploymentNext]_allVars => DeploymentInv'
<1> SUFFICES ASSUME DeploymentInv, [DeploymentNext]_allVars PROVE DeploymentInv'
  OBVIOUS
<1>1. CASE \E v \in Servers : ServerHealthy(v)
  BY <1>1, HealthyStep
<1>2. CASE \E s \in Services : Start(s) \/ Migrate(s) \/ Assemble(s) \/ Die(s)
  BY <1>2, StartStep, MigrateStep, AssembleStep, DieStep
<1>3. CASE (\E p \in Publishers : PublisherRuns(p)) \/ ConsumerRuns \/ BrokerRuns
  BY <1>3, RunStep
<1>4. CASE Down
  BY <1>4, DownStep
<1>5. CASE Downgrade
  BY <1>5, DowngradeStep
<1>6. CASE UNCHANGED allVars
  <2>1. UNCHANGED vars /\ UNCHANGED <<healthy, composeVars, objects>>
    BY <1>6 DEF allVars
  <2>2. TopologyInv'
    BY <2>1, TopologyStep DEF DeploymentInv
  <2>3. MigrationInv'
    BY <2>1 DEF DeploymentInv, MigrationInv, CatalogInv, Sound, composeVars
  <2>4. Waited' /\ Assembled' /\ Handled'
    BY <2>1 DEF DeploymentInv, Waited, Assembled, Handled, Running, AwaitedServers,
                composeVars, vars
  <2> QED BY <2>2, <2>3, <2>4 DEF DeploymentInv
<1> QED BY <1>1, <1>2, <1>3, <1>4, <1>5, <1>6 DEF DeploymentNext

-----------------------------------------------------------------------------
(* docker-compose.yml and entrypoint.sh: no message of a deployment meets a*)
(* missing binding, however often containers die and everything is taken   *)
(* down and up again.                                                      *)
THEOREM DeploymentNeverDrops == DeploymentSpec => []NothingDropped
<1>1. DeploymentInv => NothingDropped
  BY DEF DeploymentInv, TopologyInv
<1> QED BY DeploymentInitInv, DeploymentNextInv, <1>1, PTL DEF DeploymentSpec

(* entrypoint.sh, env.py: a service that runs finds the whole schema.      *)
THEOREM ServesWithSchema == DeploymentSpec => []SchemaBeforeServing
<1>1. ASSUME DeploymentInv PROVE SchemaBeforeServing
  <2> SUFFICES ASSUME NEW s \in Services, Running(s) PROVE Metadata \subseteq catalog
    BY DEF SchemaBeforeServing, Metadata
  <2>1. run[s].pc = "serving"
    BY <1>1 DEF DeploymentInv, Assembled, Running
  <2>2. stamped
    BY <1>1, <2>1 DEF DeploymentInv, MigrationInv, Sound
  <2> QED BY <1>1, <2>2, MetadataIs DEF DeploymentInv, MigrationInv, CatalogInv
<1> QED BY DeploymentInitInv, DeploymentNextInv, <1>1, PTL DEF DeploymentSpec

(* 0001_initial.py in one transaction: the tables are there exactly when   *)
(* the version row is.                                                     *)
THEOREM SchemaIsWhole == DeploymentSpec => []NoPartialSchema
<1>1. ASSUME DeploymentInv PROVE NoPartialSchema
  <2>1. CASE stamped
    BY <1>1, <2>1, MetadataIs DEF DeploymentInv, MigrationInv, CatalogInv, NoPartialSchema,
                                  Metadata
  <2>2. CASE ~ stamped
    <3>1. \A o \in Metadata, d \in catalog : o.name # d.name
      <4> SUFFICES ASSUME NEW o \in Metadata, NEW d \in catalog, o.name = d.name PROVE FALSE
        OBVIOUS
      <4>1. PICK i \in 3..8 : o = Script[i]
        BY MetadataIs
      <4>2. PICK j \in {1, 2} : d = Script[j]
        BY <1>1, <2>2 DEF DeploymentInv, MigrationInv, CatalogInv
      <4>3. i \in 1..8 /\ j \in 1..8 /\ i # j
        OBVIOUS
      <4> QED BY <4>1, <4>2, <4>3, NamesDiffer
    <3> QED BY <2>2, <3>1 DEF NoPartialSchema, Compose!Names, Metadata
  <2> QED BY <2>1, <2>2
<1> QED BY DeploymentInitInv, DeploymentNextInv, <1>1, PTL DEF DeploymentSpec

(* docker-compose.yml, depends_on, against di.py: whatever a process has   *)
(* built, the server it talks to is up.  Without RabbitMQ it would exit,   *)
(* without Redis dead-letter its first messages; that the publisher does   *)
(* not wait for Redis does no harm, as nothing it builds needs it.         *)
ServersAwaited ==
  \A s \in Services : \A o \in objects[s] \cap DOMAIN Talks : Talks[o] \in healthy

(* It holds at the first start and at every later one.                     *)
THEOREM ServersUp == DeploymentSpec => []ServersAwaited
<1>1. ASSUME DeploymentInv PROVE ServersAwaited
  <2> SUFFICES ASSUME NEW s \in Services, NEW o \in objects[s] \cap DOMAIN Talks
               PROVE  Talks[o] \in healthy
    BY DEF ServersAwaited
  <2>1. objects[s] = Built[s] /\ run[s].pc = "serving"
    BY <1>1 DEF DeploymentInv, Assembled
  <2>2. AwaitedServers(s) \subseteq healthy
    BY <1>1, <2>1 DEF DeploymentInv, Waited
  <2>3. /\ DOMAIN Talks = {"AsyncEngine", "RabbitBroker", "Redis"}
        /\ Talks["AsyncEngine"] = "postgres" /\ Talks["RabbitBroker"] = "rabbitmq"
        /\ Talks["Redis"] = "redis"
    BY DEF Talks
  <2>4. CASE s = "outbox-publisher"
    <3>1. o # "Redis"
      BY <2>1, <2>4, BuiltIs DEF PublisherNeeds
    <3> QED BY <2>2, <2>3, <2>4, <3>1 DEF AwaitedServers
  <2>5. CASE s # "outbox-publisher"
    BY <2>2, <2>3, <2>5 DEF AwaitedServers, Servers
  <2> QED BY <2>4, <2>5
<1> QED BY DeploymentInitInv, DeploymentNextInv, <1>1, PTL DEF DeploymentSpec

(* di.py: whoever takes a message has built its retry middleware.          *)
THEOREM RetriesWired == DeploymentSpec => []RetriesAreWired
<1>1. ASSUME DeploymentInv PROVE RetriesAreWired
  <2> SUFFICES ASSUME NEW m \in Messages, place[m] = "unacked"
               PROVE  "RetryMiddleware" \in objects["consumer"]
    BY DEF RetriesAreWired
  <2>1. objects["consumer"] # {}
    BY <1>1 DEF DeploymentInv, Handled, Running
  <2>2. objects["consumer"] = Built["consumer"]
    BY <1>1, <2>1, ServicesAre DEF DeploymentInv, Assembled
  <2> QED BY <2>2, BuiltIs
<1> QED BY DeploymentInitInv, DeploymentNextInv, <1>1, PTL DEF DeploymentSpec

(* entrypoint.sh, set -e: a start-up that fails without a fault has met a  *)
(* schema that another container has just committed.                       *)
THEOREM FailuresOnlyRace == DeploymentSpec => FailuresAreRaces
<1> DEFINE Race(s) == run'[s].pc = "exited" /\ run[s].pc # "exited" /\ crashes' = crashes
                        => Metadata \subseteq catalog
<1>1. ASSUME DeploymentInv, [DeploymentNext]_allVars
      PROVE  [\A s \in Services : Race(s)]_allVars
  <2> SUFFICES ASSUME DeploymentNext, NEW s \in Services PROVE Race(s)
    BY <1>1
  <2>0. MigrationInv /\ run \in [Services -> Container]
    BY <1>1 DEF DeploymentInv, MigrationInv
  <2>1. CASE \E v \in Servers : ServerHealthy(v)
    BY <2>1 DEF ServerHealthy, composeVars
  <2>2. ASSUME NEW t \in Services, Start(t) PROVE Race(s)
    <3>1. Compose!Goto(t, "heads", 1)
      BY <2>2 DEF Start, Compose!Start
    <3>2. run' = [run EXCEPT ![t] = [pc |-> "heads", next |-> 1, made |-> run[t].made]]
      BY <2>0, <3>1, GotoIs
    <3> QED BY <2>0, <3>2
  <2>3. ASSUME NEW t \in Services, Migrate(t) PROVE Race(s)
    BY <2>0, <2>3, StepIs DEF Migrate
  <2>4. ASSUME NEW t \in Services, Assemble(t) PROVE Race(s)
    BY <2>4 DEF Assemble, composeVars
  <2>5. ASSUME NEW t \in Services, Die(t) PROVE Race(s)
    BY <1>1, <2>5, DieStep
  <2>6. CASE (\E p \in Publishers : PublisherRuns(p)) \/ ConsumerRuns \/ BrokerRuns
    BY <2>6 DEF PublisherRuns, ConsumerRuns, BrokerRuns, composeVars
  <2>7. CASE Down
    BY <2>7, ContainerIs DEF Down, Compose!Down, Services
  <2>8. CASE Downgrade
    BY <2>8 DEF Downgrade, Compose!Downgrade
  <2> HIDE DEF Race
  <2> QED BY <2>1, <2>2, <2>3, <2>4, <2>5, <2>6, <2>7, <2>8 DEF DeploymentNext
<1>2. ASSUME DeploymentInv, [DeploymentNext]_allVars
      PROVE  [\A s \in Services :
                run'[s].pc = "exited" /\ run[s].pc # "exited" /\ crashes' = crashes
                  => Compose!Metadata \subseteq catalog]_allVars
  BY <1>1, <1>2 DEF Metadata
<1> QED BY DeploymentInitInv, DeploymentNextInv, <1>2, PTL DEF DeploymentSpec, FailuresAreRaces
=============================================================================
