------------------------------ MODULE Assembly ------------------------------
(***************************************************************************)
(* What the container of app/di.py builds for each of the three processes: *)
(* the commands of manage.py resolve one root object, and with it, once per*)
(* process, everything it depends on.  The dependencies of an object are   *)
(* the annotated parameters of its provider method.                        *)
(***************************************************************************)
SettingsDeps == [Settings |-> {}]

DBDeps == [AsyncEngine  |-> {"Settings"},
           PaymentsRepo |-> {"AsyncEngine"},
           OutboxRepo   |-> {"AsyncEngine"}]

HttpDeps == [HttpClient |-> {"Settings"}]

RedisDeps == [Redis |-> {"Settings"}, RedisLocks |-> {"Redis"}]

BrokerDeps == [RabbitBroker   |-> {"Settings"},
               RabbitExchange |-> {"Settings"},
               RabbitQueue    |-> {"Settings"}]

LogicDeps ==
  [PaymentsService        |-> {"PaymentsRepo", "OutboxRepo", "RedisLocks"},
   WebhookService         |-> {"HttpClient", "Settings"},
   PaymentGatewayEmulator |-> {"Settings"},
   CreatePaymentHandler   |-> {"PaymentsService"},
   GetPaymentHandler      |-> {"PaymentsService"},
   ListPaymentsHandler    |-> {"PaymentsService"},
   ProcessPaymentHandler  |-> {"PaymentsService", "PaymentsRepo", "PaymentGatewayEmulator",
                               "WebhookService", "RedisLocks", "Settings"}]

AppDeps ==
  [PaymentsRouter |-> {"CreatePaymentHandler", "GetPaymentHandler", "ListPaymentsHandler"},
   AppBuilder     |-> {"Settings", "PaymentsRouter"}]

MiddlewareDeps == [RetryMiddleware |-> {"RabbitBroker", "RabbitExchange", "Settings"}]

ConsumerDepsUnwired ==     \* mutant: the unused parameter _retry is removed
  [PaymentConsumer |-> {"RabbitBroker", "RabbitExchange", "RabbitQueue",
                        "ProcessPaymentHandler", "Settings"},
   ConsumerApp     |-> {"RabbitBroker", "PaymentConsumer", "Settings"}]

ConsumerDeps ==
  [PaymentConsumer |-> {"RabbitBroker", "RabbitExchange", "RabbitQueue",
                        "ProcessPaymentHandler", "Settings", "RetryMiddleware"},
   ConsumerApp     |-> {"RabbitBroker", "PaymentConsumer", "Settings"}]

WorkerDeps ==
  [OutboxPublisher |-> {"RabbitBroker", "RabbitExchange", "OutboxRepo", "Settings"}]

Providers == {SettingsDeps, DBDeps, HttpDeps, RedisDeps, BrokerDeps, LogicDeps, AppDeps,
              MiddlewareDeps, ConsumerDeps, WorkerDeps}

(* What the provider of an object asks for.                                *)
Deps == [o \in UNION {DOMAIN p : p \in Providers} |->
           UNION {p[o] : p \in {q \in Providers : o \in DOMAIN q}}]

(* What start-api, start-consumer and start-outbox-publisher ask for.      *)
Root == [s \in {"api", "consumer", "outbox-publisher"} |->
           CASE s = "api"      -> "AppBuilder"
             [] s = "consumer" -> "ConsumerApp"
             [] OTHER          -> "OutboxPublisher"]

(* Some objects with what they depend on directly.                         *)
Asked(objs) == objs \cup UNION {Deps[o] : o \in objs}

(* The objects a process has built when its root runs: from the root down  *)
(* to Settings, six steps at most.                                         *)
Built == [s \in DOMAIN Root |-> Asked(Asked(Asked(Asked(Asked(Asked({Root[s]}))))))]

(* Nothing they depend on is missing.                                      *)
ASSUME Resolved == \A s \in DOMAIN Root : Asked(Built[s]) = Built[s]

(* The servers that objects talk to.                                       *)
Talks == [AsyncEngine |-> "postgres", RabbitBroker |-> "rabbitmq", Redis |-> "redis"]
=============================================================================
