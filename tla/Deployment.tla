------------------------------ MODULE Deployment ----------------------------
(***************************************************************************)
(* The deployment of docker-compose.yml from `make up` on: servers become  *)
(* healthy, containers start, migrate the database (Migrations), build     *)
(* their objects (Assembly), declare the topology and pass messages on     *)
(* (Topology), in every order the compose file allows, while containers die*)
(* and the operator takes everything down and up again.                    *)
(*                                                                         *)
(* Servers do not die by themselves, and keep what they have stored until  *)
(* make down; PostgreSQL keeps it also then.                               *)
(***************************************************************************)
EXTENDS Topology, Assembly

(* The compose file has one publisher.                                     *)
ASSUME DeploymentConstants == Publishers = {"outbox-publisher"}

VARIABLES
  healthy,                 \* the servers whose health check has passed
  catalog, stamped, run,   \* see Migrations
  objects                  \* the objects of each process that runs

topologyVars == <<exists, subscribed, hook, started, place>>
composeVars == <<catalog, stamped, run>>
allVars == <<vars, healthy, composeVars, objects>>

Compose == INSTANCE Migrations WITH faults <- crashes, MaxFaults <- MaxCrashes

Services == Compose!Services
Servers == {"postgres", "rabbitmq", "redis"}

(* depends_on: condition: service_healthy                                  *)
AwaitedServers(s) ==
  IF s = "outbox-publisher" THEN {"postgres", "rabbitmq"} ELSE Servers

DeploymentInit ==
  /\ Init
  /\ Compose!Init
  /\ healthy = {}
  /\ objects = [s \in Services |-> {}]

-----------------------------------------------------------------------------
Running(s) == objects[s] # {}

ServerHealthy(v) ==
  /\ v \notin healthy
  /\ healthy' = healthy \cup {v}
  /\ UNCHANGED <<vars, composeVars, objects>>

Start(s) ==
  /\ AwaitedServers(s) \subseteq healthy
  /\ Compose!Start(s)
  /\ UNCHANGED <<topologyVars, healthy, objects>>

Migrate(s) ==
  /\ Compose!Step(s)
  /\ UNCHANGED <<topologyVars, healthy, objects>>

(* The command resolves its root object and runs it.                       *)
Assemble(s) ==
  /\ Compose!At(s, "serving")
  /\ ~Running(s)
  /\ objects' = [objects EXCEPT ![s] = Built[s]]
  /\ UNCHANGED <<vars, healthy, composeVars>>

PublisherRuns(p) ==
  /\ Running(p)
  /\ PublisherDeclares(p) \/ \E m \in Messages : PublishEvent(p, m)
  /\ UNCHANGED <<healthy, composeVars, objects>>

ConsumerRuns ==
  /\ Running("consumer")
  /\ \/ ConsumerSubscribes \/ ConsumerDeclares
     \/ \E m \in Messages : Receive(m) \/ Settle(m)
  /\ UNCHANGED <<healthy, composeVars, objects>>

BrokerRuns ==
  /\ \E m \in Messages : RetryTtl(m)
  /\ UNCHANGED <<healthy, composeVars, objects>>

(* A container dies, or a provider method, a declaration or alembic raises.*)
Die(s) ==
  /\ Compose!Die(s)
  /\ objects' = [objects EXCEPT ![s] = {}]
  /\ CASE s \in Publishers -> PublisherCrashes(s)
       [] s = "consumer"   -> ConsumerCrashes
       [] OTHER            -> UNCHANGED topologyVars
  /\ UNCHANGED healthy

(* make down removes the containers.  PostgreSQL finds its volume again.   *)
(* RabbitMQ does not: its data directory is named after the node, the node *)
(* after the container's hostname, and the compose file sets no hostname,  *)
(* so the next container starts with an empty one: what was declared and   *)
(* every stored message are gone.                                          *)
Down ==
  /\ Compose!Down
  /\ healthy' = {}
  /\ objects' = [s \in Services |-> {}]
  /\ started' = [p \in Publishers |-> 0]
  /\ subscribed' = 0
  /\ hook' = 0
  /\ exists' = {}
  /\ place' = [m \in Messages |-> IF place[m] \in InBroker THEN "gone" ELSE place[m]]

Downgrade ==
  /\ "postgres" \in healthy
  /\ Compose!Downgrade
  /\ UNCHANGED <<topologyVars, healthy, objects>>

DeploymentNext ==
  \/ \E v \in Servers : ServerHealthy(v)
  \/ \E s \in Services : Start(s) \/ Migrate(s) \/ Assemble(s) \/ Die(s)
  \/ \E p \in Publishers : PublisherRuns(p)
  \/ ConsumerRuns \/ BrokerRuns
  \/ Down \/ Downgrade

(* Containers that are up run.                                             *)
DeploymentSpec ==
  /\ DeploymentInit /\ [][DeploymentNext]_allVars
  /\ \A s \in Services : WF_allVars(Migrate(s))

-----------------------------------------------------------------------------
(* A service that runs finds every table, column and index the models      *)
(* declare, whichever container migrated and whatever failed before.       *)
SchemaBeforeServing == \A s \in Services : Running(s) => Compose!Metadata \subseteq catalog

(* Nobody ever sees half a schema: the tables are there exactly when the   *)
(* version row is, through crashes in the middle of a migration.           *)
NoPartialSchema ==
  IF stamped
    THEN Compose!Metadata \subseteq catalog
    ELSE Compose!Names(Compose!Metadata) \cap Compose!Names(catalog) = {}

(* A start-up that fails with nothing wrong has only lost the race to a    *)
(* migration that committed: bringing the services up again suffices, also *)
(* after a downgrade.                                                      *)
FailuresAreRaces ==
  [][\A s \in Services :
       run'[s].pc = "exited" /\ run[s].pc # "exited" /\ crashes' = crashes
         => Compose!Metadata \subseteq catalog]_allVars

(* No migration waits for ever for the objects of another one, dead or     *)
(* alive.                                                                  *)
NobodyWaitsForever ==
  \A s \in Services : Compose!At(s, "upgrade") ~> ~Compose!At(s, "upgrade")

(* A message is taken only by a consumer whose RetryMiddleware, a class    *)
(* FastStream instantiates by itself, has been given its settings, although*)
(* nothing but a parameter nobody reads asks for it: without them it lets  *)
(* every retryable error through to the DLQ.                               *)
RetriesAreWired ==
  \A m \in Messages : place[m] = "unacked" => "RetryMiddleware" \in objects["consumer"]
=============================================================================
