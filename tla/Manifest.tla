------------------------------ MODULE Manifest ------------------------------
(***************************************************************************)
(* The service manifest: src/internal/manifest/manifest.go and yaml.go, and *)
(* the patches `zengo add` and `zengo version freeze` apply to it           *)
(* (src/internal/scaffold/add.go, src/cmd/zengo/commands.go).               *)
(*                                                                          *)
(* A file holds a message; an absent sub-message is Nil.  The tools work on *)
(* a struct of their own, with Go's field names, and write a message made   *)
(* from it: a field that one of the two conversions forgets is lost on the  *)
(* next `zengo add`.  A list of addresses is one value, "" when it is empty;*)
(* the map of API keys is its set of pairs.                                 *)
(***************************************************************************)
EXTENDS Integers, FiniteSets, TlsConfig

MaxUint16 == 65535

\* A sub-message or pointer, converted when it is there.
IfSet(x, Convert(_)) == IF x = Nil THEN Nil ELSE Convert(x)

\* A message as it is decoded: the source of a material is one of its oneof or
\* not set, and a port is a number.  Nothing is asked of the other fields.
IsMaterial(src) == src # Nil => src.source \in {"path", "inline", "unset"}
IsServerTLS(src) ==
    src # Nil => \A m \in {src.cert, src.key, src.ca, src.client_ca} : IsMaterial(m)
IsClientTLS(src) == src # Nil => \A m \in {src.ca, src.cert, src.key} : IsMaterial(m)

IsManifest(pb) ==
    pb.transports # Nil =>
        LET grpc == pb.transports.grpc  rest == pb.transports.rest IN
        /\ grpc # Nil => grpc.port \in Int /\ IsServerTLS(grpc.tls)
        /\ rest # Nil => /\ rest.port \in Int /\ IsServerTLS(rest.tls)
                         /\ IsClientTLS(rest.grpc_client_tls)

-----------------------------------------------------------------------------
(* From the message.                                                        *)

CompatibilityModeFromProto(mode) ==
    CASE mode = "DISABLED" -> "disabled" [] mode = "ENABLED" -> "enabled" [] OTHER -> ""

DbFromProto(db) ==
    [Postgres  |-> IfSet(db.postgres, LAMBDA p :
                        [ConfigFrom |-> p.config_from, Queries |-> p.queries]),
     Cassandra |-> IfSet(db.cassandra, LAMBDA c :
                        [ConfigFrom |-> c.config_from, Keyspace |-> c.keyspace, CQL |-> c.cql]),
     Oracle    |-> IfSet(db.oracle, LAMBDA o :
                        [ConfigFrom |-> o.config_from, Queries |-> o.queries])]

KafkaFromProto(k) == [BrokersFromConfig |-> k.brokers_from_config, Brokers |-> k.brokers]
NatsFromProto(n) == [ConfigFrom |-> n.config_from, URLs |-> n.urls]
RabbitMQFromProto(r) == [ConfigFrom |-> r.config_from, URLs |-> r.urls]

QueueFromProto(q) ==
    [Kafka    |-> IfSet(q.kafka, KafkaFromProto),
     Nats     |-> IfSet(q.nats, NatsFromProto),
     RabbitMQ |-> IfSet(q.rabbitmq, RabbitMQFromProto)]

CacheFromProto(c) == [Redis |-> IfSet(c.redis, LAMBDA r : [ConfigFrom |-> r.config_from])]
StorageFromProto(s) == [S3 |-> IfSet(s.s3, LAMBDA x : [ConfigFrom |-> x.config_from])]

GrpcFromProto(g) == [Port |-> g.port, TLS |-> ServerOptionsFromProto(g.tls)]
RestFromProto(r) ==
    [Port |-> r.port, TLS |-> ServerOptionsFromProto(r.tls),
     GRPCClientTLS |-> ClientOptionsFromProto(r.grpc_client_tls)]

\* Service, Transports and Observability are values: absent is the zero value.
FromProto(pb) ==
    [Service |-> IF pb.service = Nil THEN [Name |-> "", Module |-> ""]
                 ELSE [Name |-> pb.service.name, Module |-> pb.service.module],
     GRPC |-> IF pb.transports = Nil THEN Nil ELSE IfSet(pb.transports.grpc, GrpcFromProto),
     REST |-> IF pb.transports = Nil THEN Nil ELSE IfSet(pb.transports.rest, RestFromProto),
     Observability |->
        LET o == pb.observability IN
        IF o = Nil THEN [Metrics |-> FALSE, Tracing |-> FALSE, Health |-> FALSE,
                         TracingConfigFrom |-> "", LoggingConfigFrom |-> ""]
        ELSE [Metrics |-> o.metrics, Tracing |-> o.tracing, Health |-> o.health,
              TracingConfigFrom |-> o.tracing_config_from,
              LoggingConfigFrom |-> o.logging_config_from],
     Auth |-> IfSet(pb.auth, LAMBDA a : [Enabled |-> a.enabled, APIKeys |-> a.api_keys]),
     DB |-> IfSet(pb.db, DbFromProto),
     Queue |-> IfSet(pb.queue, QueueFromProto),
     Cache |-> IfSet(pb.cache, CacheFromProto),
     Storage |-> IfSet(pb.storage, StorageFromProto),
     Compatibility |-> IfSet(pb.compatibility, LAMBDA c :
                            CompatibilityModeFromProto(c.legacy_versions))]

-----------------------------------------------------------------------------
(* To the message.                                                          *)

CompatibilityModeToProto(mode) ==
    CASE mode = "disabled" -> "DISABLED" [] mode = "enabled" -> "ENABLED"
      [] OTHER -> "UNSPECIFIED"

PortToInt32(port) == IF port < 0 \/ port > MaxUint16 THEN 0 ELSE port

\* A section whose members are all absent is left out.
AnySet(section) == section # Nil /\ \E f \in DOMAIN section : section[f] # Nil

QueueToProto(q) ==
    [kafka    |-> IfSet(q.Kafka, LAMBDA k :
                       [brokers_from_config |-> k.BrokersFromConfig, brokers |-> k.Brokers]),
     nats     |-> IfSet(q.Nats, LAMBDA n : [config_from |-> n.ConfigFrom, urls |-> n.URLs]),
     rabbitmq |-> IfSet(q.RabbitMQ, LAMBDA r : [config_from |-> r.ConfigFrom, urls |-> r.URLs])]

DbToProto(db) ==
    [postgres  |-> IfSet(db.Postgres, LAMBDA p :
                        [config_from |-> p.ConfigFrom, queries |-> p.Queries]),
     cassandra |-> IfSet(db.Cassandra, LAMBDA c :
                        [config_from |-> c.ConfigFrom, keyspace |-> c.Keyspace, cql |-> c.CQL]),
     oracle    |-> IfSet(db.Oracle, LAMBDA o :
                        [config_from |-> o.ConfigFrom, queries |-> o.Queries])]

ToProto(m) ==
    [service |-> [name |-> m.Service.Name, module |-> m.Service.Module],
     observability |->
        [metrics |-> m.Observability.Metrics, tracing |-> m.Observability.Tracing,
         health |-> m.Observability.Health,
         tracing_config_from |-> m.Observability.TracingConfigFrom,
         logging_config_from |-> m.Observability.LoggingConfigFrom],
     transports |->
        IF m.GRPC = Nil /\ m.REST = Nil THEN Nil
        ELSE [grpc |-> IfSet(m.GRPC, LAMBDA g :
                            [port |-> PortToInt32(g.Port), tls |-> ServerOptionsToProto(g.TLS)]),
              rest |-> IfSet(m.REST, LAMBDA r :
                            [port |-> PortToInt32(r.Port), tls |-> ServerOptionsToProto(r.TLS),
                             grpc_client_tls |-> ClientOptionsToProto(r.GRPCClientTLS)])],
     db |-> IF AnySet(m.DB) THEN DbToProto(m.DB) ELSE Nil,
     queue |-> IF AnySet(m.Queue) THEN QueueToProto(m.Queue) ELSE Nil,
     cache |-> IF AnySet(m.Cache) THEN [redis |-> [config_from |-> m.Cache.Redis.ConfigFrom]]
               ELSE Nil,
     storage |-> IF AnySet(m.Storage) THEN [s3 |-> [config_from |-> m.Storage.S3.ConfigFrom]]
                 ELSE Nil,
     auth |-> IfSet(m.Auth, LAMBDA a : [enabled |-> a.Enabled, api_keys |-> a.APIKeys]),
     compatibility |-> IfSet(m.Compatibility, LAMBDA c :
                            [legacy_versions |-> CompatibilityModeToProto(c)])]

-----------------------------------------------------------------------------
ValidPort(port) == port = 0 \/ (port >= 0 /\ port <= MaxUint16)

Valid(m) ==
    /\ m.Service.Name # ""
    /\ m.Service.Module # ""
    /\ m.REST # Nil => m.GRPC # Nil
    /\ m.REST # Nil /\ m.GRPC # Nil => (m.GRPC.TLS # Nil => m.REST.GRPCClientTLS # Nil)
    /\ m.GRPC # Nil => ValidPort(m.GRPC.Port)
    /\ m.REST # Nil => ValidPort(m.REST.Port)

\* resolveManifestPath: a path that is given is taken, and otherwise there must be
\* one candidate only.
ResolveManifestPath(path, found) ==
    IF path # "" THEN path
    ELSE IF Cardinality(found) = 1 THEN CHOOSE p \in found : TRUE ELSE Failed

\* loadProto: the message of the file that is found, Nil where there is none.
LoadProto(path, found, pb) ==
    IF ResolveManifestPath(path, found) = Failed \/ pb = Nil THEN Failed ELSE pb

Load(pb) == IF pb = Failed THEN Failed
            ELSE IF Valid(FromProto(pb)) THEN FromProto(pb) ELSE Failed

\* Update: what is written back of a struct that was patched, or Failed and the
\* file is left alone.
Update(patched) == IF Valid(patched) THEN ToProto(patched) ELSE Failed

-----------------------------------------------------------------------------
(* What the generators read from it.                                        *)

ConfigKey(from, default) == IF from = "" THEN default ELSE from

GRPCPort(m) == IF m.GRPC # Nil /\ m.GRPC.Port > 0 THEN m.GRPC.Port ELSE 9090
RESTPort(m) == IF m.REST # Nil /\ m.REST.Port > 0 THEN m.REST.Port ELSE 8080
AuthEnabled(m) == IF m.Auth = Nil THEN FALSE ELSE m.Auth.Enabled
InitRequired(m) == m.Observability.Metrics \/ m.Observability.Tracing

NeedsConfigLoader(m) ==
    \/ AnySet(m.DB)
    \/ m.Queue # Nil /\ m.Queue.Kafka # Nil
    \/ AnySet(m.Cache)
    \/ AnySet(m.Storage)
    \/ InitRequired(m)

\* main.go.tmpl: what a generated main.go sets up.  The template writes one map
\* literal for each API key, and two of them in a row are not Go.
GenerateMain(m) ==
    LET postgres == IF m.DB = Nil THEN Nil ELSE m.DB.Postgres
        kafka == IF m.Queue = Nil THEN Nil ELSE m.Queue.Kafka
        auth == AuthEnabled(m) /\ m.GRPC # Nil
    IN  IF auth /\ Cardinality(m.Auth.APIKeys) > 1 THEN Failed
        ELSE [Service |-> m.Service,
              Loader |-> NeedsConfigLoader(m),
              Postgres |-> IF postgres = Nil THEN Nil ELSE ConfigKey(postgres.ConfigFrom, "postgres"),
              Kafka |-> IF kafka = Nil THEN Nil
                        ELSE <<ConfigKey(kafka.BrokersFromConfig, "kafka"), kafka.Brokers>>,
              GRPC |-> IF m.GRPC = Nil THEN Nil ELSE <<GRPCPort(m), m.GRPC.TLS>>,
              Auth |-> IF auth THEN m.Auth.APIKeys ELSE Nil,
              REST |-> IF m.REST = Nil \/ m.GRPC = Nil THEN Nil
                       ELSE <<RESTPort(m), m.REST.TLS, m.REST.GRPCClientTLS>>,
              Metrics |-> m.Observability.Metrics, Health |-> m.Observability.Health,
              Logging |-> IF InitRequired(m) THEN ConfigKey(m.Observability.LoggingConfigFrom, "logging")
                          ELSE Nil,
              Tracing |-> IF m.Observability.Tracing
                          THEN ConfigKey(m.Observability.TracingConfigFrom, "tracing") ELSE Nil]

LegacyCompatibilityMode(m) == IF m.Compatibility = Nil THEN "" ELSE m.Compatibility

-----------------------------------------------------------------------------
(* zengo add: what each target makes of the struct.                         *)

NoDB == [Postgres |-> Nil, Cassandra |-> Nil, Oracle |-> Nil]
NoQueue == [Kafka |-> Nil, Nats |-> Nil, RabbitMQ |-> Nil]
OrElse(section, empty) == IF section = Nil THEN empty ELSE section

\* An integration that is missing is created; of one that is there only the
\* blanks are filled.
Fill(section, default) ==
    IF section = Nil THEN default
    ELSE [f \in DOMAIN default |-> IF section[f] = "" THEN default[f] ELSE section[f]]

\* A section with one of its integrations added.
AddDB(m, name, default) ==
    LET db == OrElse(m.DB, NoDB) IN [m EXCEPT !.DB = [db EXCEPT ![name] = Fill(@, default)]]
AddQueue(m, name, default) ==
    LET queue == OrElse(m.Queue, NoQueue)
    IN  [m EXCEPT !.Queue = [queue EXCEPT ![name] = Fill(@, default)]]

AddPostgres(m) == AddDB(m, "Postgres", [ConfigFrom |-> "", Queries |-> "queries/"])
AddCassandra(m) == AddDB(m, "Cassandra", [ConfigFrom |-> "", Keyspace |-> "app", CQL |-> "cql/"])
AddKafka(m) == AddQueue(m, "Kafka", [BrokersFromConfig |-> "kafka", Brokers |-> "localhost:9092"])
AddNats(m) == AddQueue(m, "Nats", [ConfigFrom |-> "nats", URLs |-> ""])
AddRabbitMQ(m) == AddQueue(m, "RabbitMQ", [ConfigFrom |-> "rabbitmq", URLs |-> ""])
AddRedis(m) ==
    LET cache == OrElse(m.Cache, [Redis |-> Nil])
    IN  [m EXCEPT !.Cache = [cache EXCEPT !.Redis = Fill(@, [ConfigFrom |-> "redis"])]]
AddS3(m) ==
    LET storage == OrElse(m.Storage, [S3 |-> Nil])
    IN  [m EXCEPT !.Storage = [storage EXCEPT !.S3 = Fill(@, [ConfigFrom |-> "s3"])]]

\* A port that is not set gets its default.
WithPort(transport, port) == [transport EXCEPT !.Port = IF @ = 0 THEN port ELSE @]
AddGRPC(m) ==
    [m EXCEPT !.GRPC = IF @ = Nil THEN [Port |-> 9090, TLS |-> Nil] ELSE WithPort(@, 9090)]
AddREST(m) ==
    [m EXCEPT !.REST = IF @ = Nil THEN [Port |-> 8080, TLS |-> Nil, GRPCClientTLS |-> Nil]
                       ELSE WithPort(@, 8080)]

AddObservability(m) ==
    [m EXCEPT !.Observability =
        [Metrics |-> TRUE, Tracing |-> TRUE, Health |-> TRUE,
         TracingConfigFrom |-> IF @.TracingConfigFrom = "" THEN "tracing" ELSE @.TracingConfigFrom,
         LoggingConfigFrom |-> IF @.LoggingConfigFrom = "" THEN "logging" ELSE @.LoggingConfigFrom]]

AddAuth(m) ==
    [m EXCEPT !.Auth = [Enabled |-> TRUE,
        APIKeys |-> IF @ = Nil THEN {<<"dev", "dev-token">>}
                    ELSE IF @.APIKeys = {} THEN {<<"dev", "dev-token">>} ELSE @.APIKeys]]

\* freezeVersion: from now on the legacy versions are generated.
EnableCompatibility(m) == [m EXCEPT !.Compatibility = "enabled"]

\* normalizeAddTarget: the names a target goes by.
NormalizeAddTarget(raw) ==
    CASE raw \in {"postgres", "db/postgres"} -> "db/postgres"
      [] raw \in {"kafka", "queue/kafka"} -> "queue/kafka"
      [] raw \in {"nats", "queue/nats"} -> "queue/nats"
      [] raw \in {"rabbitmq", "queue/rabbitmq"} -> "queue/rabbitmq"
      [] raw \in {"grpc", "transport/grpc"} -> "transport/grpc"
      [] raw \in {"rest", "transport/rest"} -> "transport/rest"
      [] raw \in {"observability", "obs", "metrics", "tracing", "health"} -> "observability"
      [] raw \in {"redis", "cache/redis", "config/redis"} -> "cache/redis"
      [] raw \in {"s3", "storage/s3", "config/s3"} -> "storage/s3"
      [] raw \in {"cassandra", "db/cassandra"} -> "db/cassandra"
      [] OTHER -> raw

\* Add: the manifest after the target, Failed for one that is unknown or whose
\* result is refused; and the files a target brings along when they are missing.
Add(pb, raw) ==
    LET target == NormalizeAddTarget(raw)
        m == FromProto(pb)
    IN
    IF Load(pb) = Failed THEN Failed
    ELSE CASE target = "db/postgres"    -> Update(AddPostgres(m))
           [] target = "queue/kafka"    -> Update(AddKafka(m))
           [] target = "queue/nats"     -> Update(AddNats(m))
           [] target = "queue/rabbitmq" -> Update(AddRabbitMQ(m))
           [] target = "transport/grpc" -> Update(AddGRPC(m))
           [] target = "transport/rest" -> Update(AddREST(m))
           [] target = "observability"  -> Update(AddObservability(m))
           [] target = "auth"           -> Update(AddAuth(m))
           [] target = "cache/redis"    -> Update(AddRedis(m))
           [] target = "storage/s3"     -> Update(AddS3(m))
           [] target = "db/cassandra"   -> Update(AddCassandra(m))
           [] OTHER -> Failed

TemplatesOf(raw) ==
    LET target == NormalizeAddTarget(raw) IN
    CASE target = "db/postgres"  -> {"configs/postgres.yaml", "queries/app.sql", "sqlc.yaml"}
      [] target = "queue/kafka"  -> {"configs/kafka.yaml"}
      [] target = "queue/nats"   -> {"configs/nats.textproto"}
      [] target = "observability" -> {"configs/logging.yaml", "configs/tracing.yaml"}
      [] target = "cache/redis"  -> {"configs/redis.yaml"}
      [] target = "storage/s3"   -> {"configs/s3.yaml"}
      [] target = "db/cassandra" -> {"configs/cassandra.yaml"}
      [] OTHER -> {}

-----------------------------------------------------------------------------
(* What a manifest means: its struct, a section without members counted as  *)
(* an absent one.  The member of the struct a target is about.              *)

Meaning(pb) ==
    LET m == FromProto(pb)
        Plain(section) == IF AnySet(section) THEN section ELSE Nil
    IN  [m EXCEPT !.DB = Plain(@), !.Queue = Plain(@), !.Cache = Plain(@), !.Storage = Plain(@)]

SectionOf(raw) ==
    LET target == NormalizeAddTarget(raw) IN
    CASE target = "db/postgres" -> "DB" [] target = "db/cassandra" -> "DB"
      [] target \in {"queue/kafka", "queue/nats", "queue/rabbitmq"} -> "Queue"
      [] target = "transport/grpc" -> "GRPC" [] target = "transport/rest" -> "REST"
      [] target = "observability" -> "Observability" [] target = "auth" -> "Auth"
      [] target = "cache/redis" -> "Cache" [] target = "storage/s3" -> "Storage"
      [] OTHER -> ""
=============================================================================
