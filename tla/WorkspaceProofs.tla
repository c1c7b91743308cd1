-------------------------- MODULE WorkspaceProofs --------------------------
(* Proofs about Workspace, for any revisions of the hub, any versions, any   *)
(* manifests, commands and edits.                                            *)
EXTENDS Workspace, SequenceTheorems, TLAPS

TargetSet == {"gen/api", "gen/zengo", "gen/db", "gen/cql", ".cursor/rules",
              "docs/PROTO_REGISTRY.md", "cmd/main.go", "gen/openapi", "migrations/001_init.sql"}
HubNumbers == {0, 1} \cup DOMAIN Hubs

\* What people write: a version that is there is a sequence of revisions, and a
\* manifest that is there can be decoded.
SrcInv ==
    /\ DOMAIN src = {"manifest", "hub", "frozen", "manual", "twin", "queries", "cql", "files"}
    /\ src.hub \in HubNumbers
    /\ DOMAIN src.frozen = Versions
    /\ \A v \in Versions : src.frozen[v] = Nil \/ src.frozen[v] \in Seq(HubNumbers)
    /\ src.manifest # Nil => M!IsManifest(src.manifest)

Migration == "migrations/001_init.sql"
HandFiles == {"cmd/main.go", Migration}

\* What each output looks like: nothing, or a value with all its parts.
IsFile(x) == x = [Header |-> x.Header, Body |-> x.Body] /\ x.Header \in BOOLEAN
IsZengo(x) ==
    /\ x = [register |-> x.register, schema |-> x.schema, convert |-> x.convert, runtime |-> x.runtime]
    /\ x.register = [seg \in Segments |-> x.register[seg]]
    /\ x.convert = [v \in Versions |-> x.convert[v]]
IsOpenAPI(x) ==
    /\ x = [raw |-> x.raw, docs |-> x.docs]
    /\ x.raw = [seg \in DOMAIN x.raw |-> x.raw[seg]]
    /\ x.docs # Nil => ~NothingToSplit(x.docs)
Shaped(t, x) ==
    /\ t = "gen/api" => x = [seg \in Segments |-> x[seg]]
    /\ t = "gen/zengo" => IsZengo(x)
    /\ t = "gen/openapi" => IsOpenAPI(x)
    /\ t = "gen/db" => x = Nil \/ x = [queries |-> x.queries, schema |-> x.schema]
    /\ t \in HandFiles => x = Nil \/ IsFile(x)

OutInv == out = [t \in TargetSet |-> out[t]] /\ \A t \in TargetSet : Shaped(t, out[t])

\* Which command is at which point; a command that may write a main.go in any
\* case is one that says so.
ToolInv ==
    /\ DOMAIN tool = DOMAIN Idle
    /\ tool.pc = "done" => tool.cmd = "none"
    /\ tool.pc = "restore" => tool.cmd = "check"
    /\ tool.pc = "copy" => tool.cmd = "freeze" /\ tool.version \in Versions
    /\ tool.force /\ tool.pc # "done" => Claimed("cmd/main.go")
    /\ tool.cmd = "check" =>
          tool.targets \subseteq TargetSet /\ \A t \in tool.targets : Shaped(t, tool.snapshot[t])

CopyInv == tool.pc = "copy" => src.frozen[tool.version] \in Seq(HubNumbers)

IInv == edits \in Nat /\ SrcInv /\ OutInv /\ ToolInv /\ CopyInv

-----------------------------------------------------------------------------
(* TLS options survive being written to a message and read again.            *)

LEMMA MaterialKept ==
    ASSUME M!NilIsNoRecord, NEW src0, M!IsMaterial(src0)
    PROVE  LET m == M!MaterialFromProto(src0) IN
           /\ M!MaterialFromProto(M!MaterialToProto(m)) = m
           /\ M!IsMaterial(M!MaterialToProto(m))
<1> DEFINE m == M!MaterialFromProto(src0)
           back == M!MaterialToProto(m)
<1>1. CASE m = Nil
  <2>1. back = Nil
    BY <1>1 DEF M!MaterialToProto
  <2>2. M!MaterialFromProto(Nil) = Nil
    BY DEF M!MaterialFromProto
  <2>. QED
    BY <1>1, <2>1, <2>2 DEF M!IsMaterial
<1>2. CASE m # Nil
  <2>1. src0 # Nil /\ src0.text # "" /\ src0.source \in {"path", "inline"}
    BY <1>2 DEF M!MaterialFromProto, M!IsMaterial
  <2>2. m = [path |-> IF src0.source = "path" THEN src0.text ELSE "",
             pem  |-> IF src0.source = "inline" THEN src0.text ELSE ""]
    BY <1>2 DEF M!MaterialFromProto
  <2> HIDE DEF m
  <2>3. back = [source |-> src0.source, text |-> src0.text]
    BY <1>2, <2>1, <2>2 DEF M!MaterialToProto
  <2>4. back # Nil /\ back.source = src0.source /\ back.text = src0.text
    BY <2>3 DEF M!NilIsNoRecord
  <2> HIDE DEF back
  <2>5. M!MaterialFromProto(back) = m
    BY <2>1, <2>2, <2>4 DEF M!MaterialFromProto
  <2>. QED
    BY <2>1, <2>4, <2>5 DEF M!IsMaterial, m, back
<1>. QED
  BY <1>1, <1>2

\* The options of a message are Nil or the record of what its fields become.
ServerTLS(opts) ==
    opts = Nil \/ /\ M!ServerOptionsToProto(opts) # Nil
                  /\ M!ServerOptionsFromProto(M!ServerOptionsToProto(opts)) = opts
                  /\ M!IsServerTLS(M!ServerOptionsToProto(opts))
ClientTLS(opts) ==
    opts = Nil \/ /\ M!ClientOptionsToProto(opts) # Nil
                  /\ M!ClientOptionsFromProto(M!ClientOptionsToProto(opts)) = opts
                  /\ M!IsClientTLS(M!ClientOptionsToProto(opts))

LEMMA ServerKept ==
    ASSUME M!NilIsNoRecord, NEW src0, M!IsServerTLS(src0)
    PROVE  ServerTLS(M!ServerOptionsFromProto(src0))
<1> DEFINE opts == M!ServerOptionsFromProto(src0)
           back == M!ServerOptionsToProto(opts)
           Kept(a, b) == M!MaterialFromProto(b) = a /\ M!IsMaterial(b)
<1> SUFFICES ASSUME opts # Nil PROVE ServerTLS(opts)
  BY DEF ServerTLS
<1>1. /\ src0 # Nil
      /\ opts = [cert      |-> M!MaterialFromProto(src0.cert),
                 key       |-> M!MaterialFromProto(src0.key),
                 ca        |-> M!MaterialFromProto(src0.ca),
                 client_ca |-> M!MaterialFromProto(src0.client_ca),
                 name      |-> src0.name,
                 auth      |-> M!ClientAuthModeFromProto(src0.auth)]
      /\ ~(/\ opts.cert = Nil /\ opts.key = Nil /\ opts.ca = Nil
           /\ opts.client_ca = Nil /\ opts.name = "" /\ opts.auth = "none")
  BY DEF M!ServerOptionsFromProto
<1> HIDE DEF opts
<1>2. /\ opts.cert = M!MaterialFromProto(src0.cert) /\ opts.key = M!MaterialFromProto(src0.key)
      /\ opts.ca = M!MaterialFromProto(src0.ca)
      /\ opts.client_ca = M!MaterialFromProto(src0.client_ca)
      /\ opts.auth = M!ClientAuthModeFromProto(src0.auth)
      /\ opts = [cert |-> opts.cert, key |-> opts.key, ca |-> opts.ca,
                 client_ca |-> opts.client_ca, name |-> opts.name, auth |-> opts.auth]
  BY <1>1
<1>3. /\ M!IsMaterial(src0.cert) /\ M!IsMaterial(src0.key) /\ M!IsMaterial(src0.ca)
      /\ M!IsMaterial(src0.client_ca)
  BY <1>1 DEF M!IsServerTLS
<1>4. /\ back = [cert      |-> M!MaterialToProto(opts.cert),
                 key       |-> M!MaterialToProto(opts.key),
                 ca        |-> M!MaterialToProto(opts.ca),
                 client_ca |-> M!MaterialToProto(opts.client_ca),
                 name      |-> opts.name,
                 auth      |-> M!ClientAuthModeToProto(opts.auth)]
      /\ back # Nil
  BY DEF M!ServerOptionsToProto, M!NilIsNoRecord
<1>5. /\ back.cert = M!MaterialToProto(opts.cert) /\ back.key = M!MaterialToProto(opts.key)
      /\ back.ca = M!MaterialToProto(opts.ca)
      /\ back.client_ca = M!MaterialToProto(opts.client_ca)
      /\ back.name = opts.name /\ back.auth = M!ClientAuthModeToProto(opts.auth)
  BY <1>4
<1> HIDE DEF back
<1>6. /\ Kept(opts.cert, back.cert) /\ Kept(opts.key, back.key) /\ Kept(opts.ca, back.ca)
      /\ Kept(opts.client_ca, back.client_ca)
  BY <1>2, <1>3, <1>5, MaterialKept
<1>7. M!ClientAuthModeFromProto(back.auth) = opts.auth
  BY <1>2, <1>5 DEF M!ClientAuthModeFromProto, M!ClientAuthModeToProto, M!ClientAuthModes
<1> DEFINE again == [cert      |-> M!MaterialFromProto(back.cert),
                     key       |-> M!MaterialFromProto(back.key),
                     ca        |-> M!MaterialFromProto(back.ca),
                     client_ca |-> M!MaterialFromProto(back.client_ca),
                     name      |-> back.name,
                     auth      |-> M!ClientAuthModeFromProto(back.auth)]
<1>8. again = opts
  BY <1>2, <1>5, <1>6, <1>7
<1>9. M!ServerOptionsFromProto(back) =
        IF again.cert = Nil /\ again.key = Nil /\ again.ca = Nil
           /\ again.client_ca = Nil /\ again.name = "" /\ again.auth = "none" THEN Nil ELSE again
  BY <1>4 DEF M!ServerOptionsFromProto
<1> HIDE DEF again
<1>10. M!ServerOptionsFromProto(back) = opts
  BY <1>1, <1>8, <1>9
<1>11. M!IsServerTLS(back)
  BY <1>6 DEF M!IsServerTLS
<1>. QED
  BY <1>4, <1>10, <1>11 DEF ServerTLS, back

LEMMA ClientKept ==
    ASSUME M!NilIsNoRecord, NEW src0, M!IsClientTLS(src0)
    PROVE  ClientTLS(M!ClientOptionsFromProto(src0))
<1> DEFINE opts == M!ClientOptionsFromProto(src0)
           back == M!ClientOptionsToProto(opts)
           none == [ca |-> Nil, cert |-> Nil, key |-> Nil, name |-> "", skip |-> FALSE]
           Kept(a, b) == M!MaterialFromProto(b) = a /\ M!IsMaterial(b)
<1> SUFFICES ASSUME opts # Nil PROVE ClientTLS(opts)
  BY DEF ClientTLS
<1>1. /\ src0 # Nil
      /\ opts = [ca   |-> M!MaterialFromProto(src0.ca),
                 cert |-> M!MaterialFromProto(src0.cert),
                 key  |-> M!MaterialFromProto(src0.key),
                 name |-> src0.name, skip |-> src0.skip]
      /\ opts # none
  BY DEF M!ClientOptionsFromProto
<1> HIDE DEF opts
<1>2. /\ opts.cert = M!MaterialFromProto(src0.cert) /\ opts.key = M!MaterialFromProto(src0.key)
      /\ opts.ca = M!MaterialFromProto(src0.ca)
      /\ opts = [ca |-> opts.ca, cert |-> opts.cert, key |-> opts.key,
                 name |-> opts.name, skip |-> opts.skip]
  BY <1>1
<1>3. M!IsMaterial(src0.cert) /\ M!IsMaterial(src0.key) /\ M!IsMaterial(src0.ca)
  BY <1>1 DEF M!IsClientTLS
<1> HIDE DEF none
<1>4. /\ back = [ca   |-> M!MaterialToProto(opts.ca),
                 cert |-> M!MaterialToProto(opts.cert),
                 key  |-> M!MaterialToProto(opts.key),
                 name |-> opts.name, skip |-> opts.skip]
      /\ back # Nil
  BY DEF M!ClientOptionsToProto, M!NilIsNoRecord
<1>5. /\ back.cert = M!MaterialToProto(opts.cert) /\ back.key = M!MaterialToProto(opts.key)
      /\ back.ca = M!MaterialToProto(opts.ca)
      /\ back.name = opts.name /\ back.skip = opts.skip
  BY <1>4
<1> HIDE DEF back
<1>6. Kept(opts.cert, back.cert) /\ Kept(opts.key, back.key) /\ Kept(opts.ca, back.ca)
  BY <1>2, <1>3, <1>5, MaterialKept
<1> DEFINE again == [ca   |-> M!MaterialFromProto(back.ca),
                     cert |-> M!MaterialFromProto(back.cert),
                     key  |-> M!MaterialFromProto(back.key),
                     name |-> back.name, skip |-> back.skip]
<1>8. again = opts
  BY <1>2, <1>5, <1>6
<1>9. M!ClientOptionsFromProto(back) = IF again = none THEN Nil ELSE again
  BY <1>4 DEF M!ClientOptionsFromProto, none
<1> HIDE DEF again
<1>10. M!ClientOptionsFromProto(back) = opts
  BY <1>1, <1>8, <1>9
<1>11. M!IsClientTLS(back)
  BY <1>6 DEF M!IsClientTLS
<1>. QED
  BY <1>4, <1>10, <1>11 DEF ClientTLS, back

-----------------------------------------------------------------------------
(* So does the rest of the struct, but for a section without members.        *)

IsDB(db) ==
    db = Nil \/ /\ db = [Postgres |-> db.Postgres, Cassandra |-> db.Cassandra, Oracle |-> db.Oracle]
                /\ db.Postgres = Nil
                   \/ db.Postgres = [ConfigFrom |-> db.Postgres.ConfigFrom, Queries |-> db.Postgres.Queries]
                /\ db.Cassandra = Nil
                   \/ db.Cassandra = [ConfigFrom |-> db.Cassandra.ConfigFrom,
                                      Keyspace |-> db.Cassandra.Keyspace, CQL |-> db.Cassandra.CQL]
                /\ db.Oracle = Nil
                   \/ db.Oracle = [ConfigFrom |-> db.Oracle.ConfigFrom, Queries |-> db.Oracle.Queries]
IsQueue(q) ==
    q = Nil \/ /\ q = [Kafka |-> q.Kafka, Nats |-> q.Nats, RabbitMQ |-> q.RabbitMQ]
               /\ q.Kafka = Nil
                  \/ q.Kafka = [BrokersFromConfig |-> q.Kafka.BrokersFromConfig, Brokers |-> q.Kafka.Brokers]
               /\ q.Nats = Nil \/ q.Nats = [ConfigFrom |-> q.Nats.ConfigFrom, URLs |-> q.Nats.URLs]
               /\ q.RabbitMQ = Nil
                  \/ q.RabbitMQ = [ConfigFrom |-> q.RabbitMQ.ConfigFrom, URLs |-> q.RabbitMQ.URLs]
IsCache(c) ==
    c = Nil \/ /\ c = [Redis |-> c.Redis]
               /\ c.Redis = Nil \/ c.Redis = [ConfigFrom |-> c.Redis.ConfigFrom]
IsStorage(s) ==
    s = Nil \/ /\ s = [S3 |-> s.S3]
               /\ s.S3 = Nil \/ s.S3 = [ConfigFrom |-> s.S3.ConfigFrom]
IsGRPC(g) ==
    g = Nil \/ /\ g = [Port |-> g.Port, TLS |-> g.TLS]
               /\ g.Port \in Int /\ ServerTLS(g.TLS)
IsREST(r) ==
    r = Nil \/ /\ r = [Port |-> r.Port, TLS |-> r.TLS, GRPCClientTLS |-> r.GRPCClientTLS]
               /\ r.Port \in Int /\ ServerTLS(r.TLS) /\ ClientTLS(r.GRPCClientTLS)
IsAuth(a) == a = Nil \/ a = [Enabled |-> a.Enabled, APIKeys |-> a.APIKeys]
IsObservability(o) ==
    o = [Metrics |-> o.Metrics, Tracing |-> o.Tracing, Health |-> o.Health,
         TracingConfigFrom |-> o.TracingConfigFrom, LoggingConfigFrom |-> o.LoggingConfigFrom]
IsCompatibility(c) == c \in {Nil, "", "enabled", "disabled"}

\* The struct that the tools work on.
IsStruct(m) ==
    /\ m = [Service |-> m.Service, GRPC |-> m.GRPC, REST |-> m.REST,
            Observability |-> m.Observability, Auth |-> m.Auth, DB |-> m.DB, Queue |-> m.Queue,
            Cache |-> m.Cache, Storage |-> m.Storage, Compatibility |-> m.Compatibility]
    /\ m.Service = [Name |-> m.Service.Name, Module |-> m.Service.Module]
    /\ IsGRPC(m.GRPC) /\ IsREST(m.REST) /\ IsObservability(m.Observability) /\ IsAuth(m.Auth)
    /\ IsDB(m.DB) /\ IsQueue(m.Queue) /\ IsCache(m.Cache) /\ IsStorage(m.Storage)
    /\ IsCompatibility(m.Compatibility)

Plain(section) == IF M!AnySet(section) THEN section ELSE Nil

\* The sections, those without members counted as absent.
Plainly(m) ==
    [Service |-> m.Service, GRPC |-> m.GRPC, REST |-> m.REST,
     Observability |-> m.Observability, Auth |-> m.Auth, DB |-> Plain(m.DB),
     Queue |-> Plain(m.Queue), Cache |-> Plain(m.Cache), Storage |-> Plain(m.Storage),
     Compatibility |-> m.Compatibility]

LEMMA DbKept ==
    ASSUME M!NilIsNoRecord, NEW db, IsDB(db), M!AnySet(db)
    PROVE  M!DbToProto(db) # Nil /\ M!DbFromProto(M!DbToProto(db)) = db
<1> DEFINE pb == M!DbToProto(db)
<1>1. db # Nil /\ IsDB(db)
  BY DEF M!AnySet
<1>2. /\ pb # Nil
      /\ pb.postgres = IF db.Postgres = Nil THEN Nil
                       ELSE [config_from |-> db.Postgres.ConfigFrom, queries |-> db.Postgres.Queries]
      /\ pb.cassandra = IF db.Cassandra = Nil THEN Nil
                        ELSE [config_from |-> db.Cassandra.ConfigFrom,
                              keyspace |-> db.Cassandra.Keyspace, cql |-> db.Cassandra.CQL]
      /\ pb.oracle = IF db.Oracle = Nil THEN Nil
                     ELSE [config_from |-> db.Oracle.ConfigFrom, queries |-> db.Oracle.Queries]
  BY DEF M!DbToProto, M!IfSet, M!NilIsNoRecord
<1> HIDE DEF pb
<1> DEFINE back == M!DbFromProto(pb)
<1>3. back.Postgres = db.Postgres
  BY <1>1, <1>2 DEF M!DbFromProto, M!IfSet, M!NilIsNoRecord, IsDB
<1>4. back.Cassandra = db.Cassandra
  BY <1>1, <1>2 DEF M!DbFromProto, M!IfSet, M!NilIsNoRecord, IsDB
<1>5. back.Oracle = db.Oracle
  BY <1>1, <1>2 DEF M!DbFromProto, M!IfSet, M!NilIsNoRecord, IsDB
<1>6. back = [Postgres |-> back.Postgres, Cassandra |-> back.Cassandra, Oracle |-> back.Oracle]
  BY DEF M!DbFromProto
<1> HIDE DEF back
<1>. QED
  BY <1>1, <1>2, <1>3, <1>4, <1>5, <1>6 DEF IsDB, back, pb

LEMMA QueueKept ==
    ASSUME M!NilIsNoRecord, NEW q, IsQueue(q), M!AnySet(q)
    PROVE  M!QueueToProto(q) # Nil /\ M!QueueFromProto(M!QueueToProto(q)) = q
<1> DEFINE pb == M!QueueToProto(q)
<1>1. q # Nil /\ IsQueue(q)
  BY DEF M!AnySet
<1>2. /\ pb # Nil
      /\ pb.kafka = IF q.Kafka = Nil THEN Nil
                    ELSE [brokers_from_config |-> q.Kafka.BrokersFromConfig, brokers |-> q.Kafka.Brokers]
      /\ pb.nats = IF q.Nats = Nil THEN Nil
                   ELSE [config_from |-> q.Nats.ConfigFrom, urls |-> q.Nats.URLs]
      /\ pb.rabbitmq = IF q.RabbitMQ = Nil THEN Nil
                       ELSE [config_from |-> q.RabbitMQ.ConfigFrom, urls |-> q.RabbitMQ.URLs]
  BY DEF M!QueueToProto, M!IfSet, M!NilIsNoRecord
<1> HIDE DEF pb
<1> DEFINE back == M!QueueFromProto(pb)
<1>3. back.Kafka = q.Kafka
  BY <1>1, <1>2 DEF M!QueueFromProto, M!KafkaFromProto, M!IfSet, M!NilIsNoRecord, IsQueue
<1>4. back.Nats = q.Nats
  BY <1>1, <1>2 DEF M!QueueFromProto, M!NatsFromProto, M!IfSet, M!NilIsNoRecord, IsQueue
<1>5. back.RabbitMQ = q.RabbitMQ
  BY <1>1, <1>2 DEF M!QueueFromProto, M!RabbitMQFromProto, M!IfSet, M!NilIsNoRecord, IsQueue
<1>6. back = [Kafka |-> back.Kafka, Nats |-> back.Nats, RabbitMQ |-> back.RabbitMQ]
  BY DEF M!QueueFromProto
<1> HIDE DEF back
<1>. QED
  BY <1>1, <1>2, <1>3, <1>4, <1>5, <1>6 DEF IsQueue, back, pb

\* What is read from a message is such a struct.
LEMMA Structs ==
    ASSUME M!NilIsNoRecord, NEW pb, M!IsManifest(pb)
    PROVE  IsStruct(M!FromProto(pb))
<1> DEFINE m == M!FromProto(pb)
<1>1. m = [Service |-> m.Service, GRPC |-> m.GRPC, REST |-> m.REST,
           Observability |-> m.Observability, Auth |-> m.Auth, DB |-> m.DB, Queue |-> m.Queue,
           Cache |-> m.Cache, Storage |-> m.Storage, Compatibility |-> m.Compatibility]
  BY DEF M!FromProto
<1>2. m.Service = [Name |-> m.Service.Name, Module |-> m.Service.Module]
  <2>1. m.Service = IF pb.service = Nil THEN [Name |-> "", Module |-> ""]
                    ELSE [Name |-> pb.service.name, Module |-> pb.service.module]
    BY DEF M!FromProto
  <2>2. \E a, b : m.Service = [Name |-> a, Module |-> b]
    BY <2>1
  <2> HIDE DEF m
  <2>. QED
    BY <2>2
<1>3. IsGRPC(m.GRPC)
  <2> DEFINE g == pb.transports.grpc
  <2>1. m.GRPC = IF pb.transports = Nil THEN Nil
                 ELSE IF g = Nil THEN Nil ELSE M!GrpcFromProto(g)
    BY DEF M!FromProto, M!IfSet
  <2>2. CASE pb.transports # Nil /\ g # Nil
    <3>1. g.port \in Int /\ ServerTLS(M!ServerOptionsFromProto(g.tls))
      BY <2>2, ServerKept DEF M!IsManifest
    <3> HIDE DEF g
    <3>2. /\ M!GrpcFromProto(g).Port = g.port
          /\ M!GrpcFromProto(g).TLS = M!ServerOptionsFromProto(g.tls)
          /\ M!GrpcFromProto(g) = [Port |-> M!GrpcFromProto(g).Port, TLS |-> M!GrpcFromProto(g).TLS]
      BY DEF M!GrpcFromProto
    <3>3. IsGRPC(M!GrpcFromProto(g))
      BY <3>1, <3>2 DEF IsGRPC
    <3>. QED
      BY <2>1, <2>2, <3>3
  <2>3. CASE ~(pb.transports # Nil /\ g # Nil)
    BY <2>1, <2>3 DEF IsGRPC
  <2>. QED
    BY <2>2, <2>3
<1>4. IsREST(m.REST)
  <2> DEFINE r == pb.transports.rest
             rest == M!RestFromProto(r)
  <2>1. m.REST = IF pb.transports = Nil THEN Nil ELSE IF r = Nil THEN Nil ELSE rest
    BY DEF M!FromProto, M!IfSet
  <2>2. CASE pb.transports # Nil /\ r # Nil
    <3>1. /\ r.port \in Int /\ ServerTLS(M!ServerOptionsFromProto(r.tls))
          /\ ClientTLS(M!ClientOptionsFromProto(r.grpc_client_tls))
      BY <2>2, ServerKept, ClientKept DEF M!IsManifest
    <3> HIDE DEF r
    <3>2. /\ rest.Port = r.port
          /\ rest.TLS = M!ServerOptionsFromProto(r.tls)
          /\ rest.GRPCClientTLS = M!ClientOptionsFromProto(r.grpc_client_tls)
          /\ rest = [Port |-> rest.Port, TLS |-> rest.TLS, GRPCClientTLS |-> rest.GRPCClientTLS]
      BY DEF M!RestFromProto
    <3> HIDE DEF rest
    <3>3. IsREST(rest)
      BY <3>1, <3>2 DEF IsREST
    <3>. QED
      BY <2>1, <2>2, <3>3
  <2>3. CASE ~(pb.transports # Nil /\ r # Nil)
    BY <2>1, <2>3 DEF IsREST
  <2>. QED
    BY <2>2, <2>3
<1>5. IsObservability(m.Observability)
  <2> DEFINE o == pb.observability
  <2>1. m.Observability =
          IF o = Nil THEN [Metrics |-> FALSE, Tracing |-> FALSE, Health |-> FALSE,
                           TracingConfigFrom |-> "", LoggingConfigFrom |-> ""]
          ELSE [Metrics |-> o.metrics, Tracing |-> o.tracing, Health |-> o.health,
                TracingConfigFrom |-> o.tracing_config_from,
                LoggingConfigFrom |-> o.logging_config_from]
    BY DEF M!FromProto
  <2>2. \E a, b, c, d, e : m.Observability = [Metrics |-> a, Tracing |-> b, Health |-> c,
                                             TracingConfigFrom |-> d, LoggingConfigFrom |-> e]
    BY <2>1
  <2> HIDE DEF m, o
  <2>. QED
    BY <2>2 DEF IsObservability
<1>6. IsAuth(m.Auth)
  <2>1. m.Auth = IF pb.auth = Nil THEN Nil
                 ELSE [Enabled |-> pb.auth.enabled, APIKeys |-> pb.auth.api_keys]
    BY DEF M!FromProto, M!IfSet
  <2> HIDE DEF m
  <2>. QED
    BY <2>1 DEF IsAuth
<1>7. IsDB(m.DB)
  <2>1. m.DB = IF pb.db = Nil THEN Nil ELSE M!DbFromProto(pb.db)
    BY DEF M!FromProto, M!IfSet
  <2>2. ASSUME NEW db PROVE IsDB(M!DbFromProto(db))
    <3> DEFINE d == M!DbFromProto(db)
    <3>1. /\ d = [Postgres |-> d.Postgres, Cassandra |-> d.Cassandra, Oracle |-> d.Oracle]
          /\ d.Postgres = IF db.postgres = Nil THEN Nil
                          ELSE [ConfigFrom |-> db.postgres.config_from, Queries |-> db.postgres.queries]
          /\ d.Cassandra = IF db.cassandra = Nil THEN Nil
                           ELSE [ConfigFrom |-> db.cassandra.config_from,
                                 Keyspace |-> db.cassandra.keyspace, CQL |-> db.cassandra.cql]
          /\ d.Oracle = IF db.oracle = Nil THEN Nil
                        ELSE [ConfigFrom |-> db.oracle.config_from, Queries |-> db.oracle.queries]
      BY DEF M!DbFromProto, M!IfSet
    <3> HIDE DEF d
    <3>2. IsDB(d)
      BY <3>1 DEF IsDB
    <3>. QED
      BY <3>2 DEF d
  <2>. QED
    BY <2>1, <2>2 DEF IsDB
<1>8. IsQueue(m.Queue)
  <2>1. m.Queue = IF pb.queue = Nil THEN Nil ELSE M!QueueFromProto(pb.queue)
    BY DEF M!FromProto, M!IfSet
  <2>2. ASSUME NEW queue PROVE IsQueue(M!QueueFromProto(queue))
    <3> DEFINE q == M!QueueFromProto(queue)
    <3>1. /\ q = [Kafka |-> q.Kafka, Nats |-> q.Nats, RabbitMQ |-> q.RabbitMQ]
          /\ q.Kafka = IF queue.kafka = Nil THEN Nil
                       ELSE [BrokersFromConfig |-> queue.kafka.brokers_from_config,
                             Brokers |-> queue.kafka.brokers]
          /\ q.Nats = IF queue.nats = Nil THEN Nil
                      ELSE [ConfigFrom |-> queue.nats.config_from, URLs |-> queue.nats.urls]
          /\ q.RabbitMQ = IF queue.rabbitmq = Nil THEN Nil
                          ELSE [ConfigFrom |-> queue.rabbitmq.config_from, URLs |-> queue.rabbitmq.urls]
      BY DEF M!QueueFromProto, M!KafkaFromProto, M!NatsFromProto, M!RabbitMQFromProto, M!IfSet
    <3> HIDE DEF q
    <3>2. IsQueue(q)
      BY <3>1 DEF IsQueue
    <3>. QED
      BY <3>2 DEF q
  <2>. QED
    BY <2>1, <2>2 DEF IsQueue
<1>9. IsCache(m.Cache)
  <2>1. m.Cache = IF pb.cache = Nil THEN Nil ELSE M!CacheFromProto(pb.cache)
    BY DEF M!FromProto, M!IfSet
  <2>2. ASSUME NEW c PROVE IsCache(M!CacheFromProto(c))
    <3> DEFINE d == M!CacheFromProto(c)
    <3>1. d = [Redis |-> d.Redis]
          /\ d.Redis = IF c.redis = Nil THEN Nil ELSE [ConfigFrom |-> c.redis.config_from]
      BY DEF M!CacheFromProto, M!IfSet
    <3> HIDE DEF d
    <3>2. IsCache(d)
      BY <3>1 DEF IsCache
    <3>. QED
      BY <3>2 DEF d
  <2>. QED
    BY <2>1, <2>2 DEF IsCache
<1>10. IsStorage(m.Storage)
  <2>1. m.Storage = IF pb.storage = Nil THEN Nil ELSE M!StorageFromProto(pb.storage)
    BY DEF M!FromProto, M!IfSet
  <2>2. ASSUME NEW s PROVE IsStorage(M!StorageFromProto(s))
    <3> DEFINE d == M!StorageFromProto(s)
    <3>1. d = [S3 |-> d.S3]
          /\ d.S3 = IF s.s3 = Nil THEN Nil ELSE [ConfigFrom |-> s.s3.config_from]
      BY DEF M!StorageFromProto, M!IfSet
    <3> HIDE DEF d
    <3>2. IsStorage(d)
      BY <3>1 DEF IsStorage
    <3>. QED
      BY <3>2 DEF d
  <2>. QED
    BY <2>1, <2>2 DEF IsStorage
<1>11. IsCompatibility(m.Compatibility)
  <2>1. m.Compatibility = IF pb.compatibility = Nil THEN Nil
                          ELSE M!CompatibilityModeFromProto(pb.compatibility.legacy_versions)
    BY DEF M!FromProto, M!IfSet
  <2> HIDE DEF m
  <2>. QED
    BY <2>1 DEF M!CompatibilityModeFromProto, IsCompatibility
<1> HIDE DEF m
<1>12. IsStruct(m)
  BY <1>1, <1>2, <1>3, <1>4, <1>5, <1>6, <1>7, <1>8, <1>9, <1>10, <1>11 DEF IsStruct
<1>. QED
  BY <1>12 DEF m

LEMMA PortKept ==
    ASSUME NEW port \in Int, M!ValidPort(port)
    PROVE  M!PortToInt32(port) = port
BY DEF M!ValidPort, M!PortToInt32, M!MaxUint16

\* What Update writes of a valid struct can be decoded, and is the struct when
\* it is read again.
LEMMA Written ==
    ASSUME M!NilIsNoRecord, NEW m, IsStruct(m), M!Valid(m)
    PROVE  M!IsManifest(M!ToProto(m)) /\ M!FromProto(M!ToProto(m)) = Plainly(m)
<1> DEFINE pb == M!ToProto(m)
           back == M!FromProto(pb)
           o == m.Observability
           grpc == [port |-> M!PortToInt32(m.GRPC.Port), tls |-> M!ServerOptionsToProto(m.GRPC.TLS)]
           rest == [port |-> M!PortToInt32(m.REST.Port), tls |-> M!ServerOptionsToProto(m.REST.TLS),
                    grpc_client_tls |-> M!ClientOptionsToProto(m.REST.GRPCClientTLS)]
<1>1. /\ pb.service = [name |-> m.Service.Name, module |-> m.Service.Module]
      /\ pb.observability = [metrics |-> o.Metrics, tracing |-> o.Tracing, health |-> o.Health,
                             tracing_config_from |-> o.TracingConfigFrom,
                             logging_config_from |-> o.LoggingConfigFrom]
      /\ pb.transports = IF m.GRPC = Nil /\ m.REST = Nil THEN Nil
                         ELSE [grpc |-> IF m.GRPC = Nil THEN Nil ELSE grpc,
                               rest |-> IF m.REST = Nil THEN Nil ELSE rest]
      /\ pb.db = IF M!AnySet(m.DB) THEN M!DbToProto(m.DB) ELSE Nil
      /\ pb.queue = IF M!AnySet(m.Queue) THEN M!QueueToProto(m.Queue) ELSE Nil
      /\ pb.cache = IF M!AnySet(m.Cache) THEN [redis |-> [config_from |-> m.Cache.Redis.ConfigFrom]]
                    ELSE Nil
      /\ pb.storage = IF M!AnySet(m.Storage) THEN [s3 |-> [config_from |-> m.Storage.S3.ConfigFrom]]
                      ELSE Nil
      /\ pb.auth = IF m.Auth = Nil THEN Nil
                   ELSE [enabled |-> m.Auth.Enabled, api_keys |-> m.Auth.APIKeys]
      /\ pb.compatibility = IF m.Compatibility = Nil THEN Nil
                            ELSE [legacy_versions |-> M!CompatibilityModeToProto(m.Compatibility)]
  BY DEF M!ToProto, M!IfSet
<1>2. m.GRPC # Nil => /\ grpc # Nil /\ grpc.port = m.GRPC.Port /\ grpc.port \in Int
                      /\ grpc.tls = M!ServerOptionsToProto(m.GRPC.TLS)
  <2> SUFFICES ASSUME m.GRPC # Nil
               PROVE  /\ grpc # Nil /\ grpc.port = m.GRPC.Port /\ grpc.port \in Int
                      /\ grpc.tls = M!ServerOptionsToProto(m.GRPC.TLS)
    OBVIOUS
  <2>1. m.GRPC.Port \in Int /\ M!ValidPort(m.GRPC.Port)
    BY DEF IsStruct, IsGRPC, M!Valid
  <2>2. M!PortToInt32(m.GRPC.Port) = m.GRPC.Port
    BY <2>1, PortKept
  <2>. QED
    BY <2>1, <2>2 DEF M!NilIsNoRecord
<1>3. m.REST # Nil => /\ rest # Nil /\ rest.port = m.REST.Port /\ rest.port \in Int
                      /\ rest.tls = M!ServerOptionsToProto(m.REST.TLS)
                      /\ rest.grpc_client_tls = M!ClientOptionsToProto(m.REST.GRPCClientTLS)
  <2> SUFFICES ASSUME m.REST # Nil
               PROVE  /\ rest # Nil /\ rest.port = m.REST.Port /\ rest.port \in Int
                      /\ rest.tls = M!ServerOptionsToProto(m.REST.TLS)
                      /\ rest.grpc_client_tls = M!ClientOptionsToProto(m.REST.GRPCClientTLS)
    OBVIOUS
  <2>1. m.REST.Port \in Int /\ M!ValidPort(m.REST.Port)
    BY DEF IsStruct, IsREST, M!Valid
  <2>2. M!PortToInt32(m.REST.Port) = m.REST.Port
    BY <2>1, PortKept
  <2>. QED
    BY <2>1, <2>2 DEF M!NilIsNoRecord
<1> HIDE DEF pb, grpc, rest
<1>4. /\ pb.transports = Nil <=> m.GRPC = Nil /\ m.REST = Nil
      /\ pb.transports # Nil => /\ pb.transports.grpc = IF m.GRPC = Nil THEN Nil ELSE grpc
                                /\ pb.transports.rest = IF m.REST = Nil THEN Nil ELSE rest
  BY <1>1 DEF M!NilIsNoRecord
\* No options are written as no message, and read as none.
<1>5. ASSUME NEW opts, ServerTLS(opts)
      PROVE  LET written == M!ServerOptionsToProto(opts) IN
             M!IsServerTLS(written) /\ M!ServerOptionsFromProto(written) = opts
  BY <1>5 DEF ServerTLS, M!ServerOptionsToProto, M!ServerOptionsFromProto, M!IsServerTLS
<1>6. ASSUME NEW opts, ClientTLS(opts)
      PROVE  LET written == M!ClientOptionsToProto(opts) IN
             M!IsClientTLS(written) /\ M!ClientOptionsFromProto(written) = opts
  BY <1>6 DEF ClientTLS, M!ClientOptionsToProto, M!ClientOptionsFromProto, M!IsClientTLS
<1>7. m.GRPC # Nil => /\ M!IsServerTLS(grpc.tls) /\ M!ServerOptionsFromProto(grpc.tls) = m.GRPC.TLS
                      /\ m.GRPC = [Port |-> m.GRPC.Port, TLS |-> m.GRPC.TLS]
  BY <1>2, <1>5 DEF IsStruct, IsGRPC
<1>8. m.REST # Nil =>
        /\ M!IsServerTLS(rest.tls) /\ M!ServerOptionsFromProto(rest.tls) = m.REST.TLS
        /\ M!IsClientTLS(rest.grpc_client_tls)
        /\ M!ClientOptionsFromProto(rest.grpc_client_tls) = m.REST.GRPCClientTLS
        /\ m.REST = [Port |-> m.REST.Port, TLS |-> m.REST.TLS, GRPCClientTLS |-> m.REST.GRPCClientTLS]
  BY <1>3, <1>5, <1>6 DEF IsStruct, IsREST
<1>9. M!IsManifest(pb)
  BY <1>2, <1>3, <1>4, <1>7, <1>8 DEF M!IsManifest
<1>10. back.GRPC = m.GRPC
  <2>1. back.GRPC = IF pb.transports = Nil THEN Nil
                    ELSE IF pb.transports.grpc = Nil THEN Nil
                    ELSE M!GrpcFromProto(pb.transports.grpc)
    BY DEF M!FromProto, M!IfSet
  <2>2. m.GRPC # Nil => M!GrpcFromProto(grpc) = m.GRPC
    BY <1>2, <1>7 DEF M!GrpcFromProto
  <2> HIDE DEF back
  <2>. QED
    BY <1>2, <1>4, <2>1, <2>2
<1>11. back.REST = m.REST
  <2>1. back.REST = IF pb.transports = Nil THEN Nil
                    ELSE IF pb.transports.rest = Nil THEN Nil
                    ELSE M!RestFromProto(pb.transports.rest)
    BY DEF M!FromProto, M!IfSet
  <2>2. m.REST # Nil => M!RestFromProto(rest) = m.REST
    BY <1>3, <1>8 DEF M!RestFromProto
  <2> HIDE DEF back
  <2>. QED
    BY <1>3, <1>4, <2>1, <2>2
<1>12. back.Service = m.Service
  <2>1. back.Service = IF pb.service = Nil THEN [Name |-> "", Module |-> ""]
                       ELSE [Name |-> pb.service.name, Module |-> pb.service.module]
    BY DEF M!FromProto
  <2>2. pb.service # Nil /\ pb.service.name = m.Service.Name /\ pb.service.module = m.Service.Module
    BY <1>1 DEF M!NilIsNoRecord
  <2> HIDE DEF back
  <2>. QED
    BY <2>1, <2>2 DEF IsStruct
<1>13. back.Observability = m.Observability
  <2> DEFINE p == pb.observability
  <2>1. back.Observability =
          IF p = Nil THEN [Metrics |-> FALSE, Tracing |-> FALSE, Health |-> FALSE,
                           TracingConfigFrom |-> "", LoggingConfigFrom |-> ""]
          ELSE [Metrics |-> p.metrics, Tracing |-> p.tracing, Health |-> p.health,
                TracingConfigFrom |-> p.tracing_config_from,
                LoggingConfigFrom |-> p.logging_config_from]
    BY DEF M!FromProto
  <2>2. /\ p # Nil /\ p.metrics = o.Metrics /\ p.tracing = o.Tracing /\ p.health = o.Health
        /\ p.tracing_config_from = o.TracingConfigFrom /\ p.logging_config_from = o.LoggingConfigFrom
    BY <1>1 DEF M!NilIsNoRecord
  <2> HIDE DEF back, p
  <2>. QED
    BY <2>1, <2>2 DEF IsStruct, IsObservability
<1>14. back.Auth = m.Auth
  <2>1. back.Auth = IF pb.auth = Nil THEN Nil
                    ELSE [Enabled |-> pb.auth.enabled, APIKeys |-> pb.auth.api_keys]
    BY DEF M!FromProto, M!IfSet
  <2>2. m.Auth # Nil => /\ pb.auth # Nil /\ pb.auth.enabled = m.Auth.Enabled
                        /\ pb.auth.api_keys = m.Auth.APIKeys
    BY <1>1 DEF M!NilIsNoRecord
  <2> HIDE DEF back
  <2>. QED
    BY <1>1, <2>1, <2>2 DEF IsStruct, IsAuth
<1>15. back.DB = Plain(m.DB)
  <2>1. back.DB = IF pb.db = Nil THEN Nil ELSE M!DbFromProto(pb.db)
    BY DEF M!FromProto, M!IfSet
  <2> HIDE DEF back
  <2>. QED
    BY <1>1, <2>1, DbKept DEF IsStruct, Plain
<1>16. back.Queue = Plain(m.Queue)
  <2>1. back.Queue = IF pb.queue = Nil THEN Nil ELSE M!QueueFromProto(pb.queue)
    BY DEF M!FromProto, M!IfSet
  <2> HIDE DEF back
  <2>. QED
    BY <1>1, <2>1, QueueKept DEF IsStruct, Plain
<1>17. back.Cache = Plain(m.Cache)
  <2>1. back.Cache = IF pb.cache = Nil THEN Nil ELSE M!CacheFromProto(pb.cache)
    BY DEF M!FromProto, M!IfSet
  <2>2. CASE M!AnySet(m.Cache)
    <3> DEFINE c == m.Cache
    <3>1. c = [Redis |-> c.Redis] /\ c.Redis # Nil /\ c.Redis = [ConfigFrom |-> c.Redis.ConfigFrom]
      <4>1. /\ c # Nil /\ \E f \in DOMAIN c : c[f] # Nil
            /\ c = [Redis |-> c.Redis]
            /\ c.Redis = Nil \/ c.Redis = [ConfigFrom |-> c.Redis.ConfigFrom]
        BY <2>2 DEF M!AnySet, IsStruct, IsCache
      <4> HIDE DEF c
      <4>2. \A f \in DOMAIN c : f = "Redis"
        BY <4>1
      <4>. QED
        BY <4>1, <4>2
    <3> HIDE DEF c
    <3>2. pb.cache # Nil /\ pb.cache.redis # Nil /\ pb.cache.redis.config_from = c.Redis.ConfigFrom
      BY <1>1, <2>2 DEF M!NilIsNoRecord, c
    <3>3. M!CacheFromProto(pb.cache) = [Redis |-> [ConfigFrom |-> c.Redis.ConfigFrom]]
      BY <3>2 DEF M!CacheFromProto, M!IfSet
    <3> HIDE DEF back
    <3>4. back.Cache = c
      BY <2>1, <3>1, <3>2, <3>3
    <3>. QED
      BY <2>2, <3>4 DEF Plain, c
  <2>3. CASE ~M!AnySet(m.Cache)
    <3> HIDE DEF back
    <3>. QED
      BY <1>1, <2>1, <2>3 DEF Plain
  <2>. QED
    BY <2>2, <2>3
<1>18. back.Storage = Plain(m.Storage)
  <2>1. back.Storage = IF pb.storage = Nil THEN Nil ELSE M!StorageFromProto(pb.storage)
    BY DEF M!FromProto, M!IfSet
  <2>2. CASE M!AnySet(m.Storage)
    <3> DEFINE s == m.Storage
    <3>1. s = [S3 |-> s.S3] /\ s.S3 # Nil /\ s.S3 = [ConfigFrom |-> s.S3.ConfigFrom]
      <4>1. /\ s # Nil /\ \E f \in DOMAIN s : s[f] # Nil
            /\ s = [S3 |-> s.S3]
            /\ s.S3 = Nil \/ s.S3 = [ConfigFrom |-> s.S3.ConfigFrom]
        BY <2>2 DEF M!AnySet, IsStruct, IsStorage
      <4> HIDE DEF s
      <4>2. \A f \in DOMAIN s : f = "S3"
        BY <4>1
      <4>. QED
        BY <4>1, <4>2
    <3> HIDE DEF s
    <3>2. pb.storage # Nil /\ pb.storage.s3 # Nil /\ pb.storage.s3.config_from = s.S3.ConfigFrom
      BY <1>1, <2>2 DEF M!NilIsNoRecord, s
    <3>3. M!StorageFromProto(pb.storage) = [S3 |-> [ConfigFrom |-> s.S3.ConfigFrom]]
      BY <3>2 DEF M!StorageFromProto, M!IfSet
    <3> HIDE DEF back
    <3>4. back.Storage = s
      BY <2>1, <3>1, <3>2, <3>3
    <3>. QED
      BY <2>2, <3>4 DEF Plain, s
  <2>3. CASE ~M!AnySet(m.Storage)
    <3> HIDE DEF back
    <3>. QED
      BY <1>1, <2>1, <2>3 DEF Plain
  <2>. QED
    BY <2>2, <2>3
<1>19. back.Compatibility = m.Compatibility
  <2>1. back.Compatibility = IF pb.compatibility = Nil THEN Nil
                             ELSE M!CompatibilityModeFromProto(pb.compatibility.legacy_versions)
    BY DEF M!FromProto, M!IfSet
  <2>2. m.Compatibility # Nil =>
          /\ pb.compatibility # Nil
          /\ pb.compatibility.legacy_versions = M!CompatibilityModeToProto(m.Compatibility)
    BY <1>1 DEF M!NilIsNoRecord
  <2>3. \A c \in {"", "enabled", "disabled"} :
          M!CompatibilityModeFromProto(M!CompatibilityModeToProto(c)) = c
    BY DEF M!CompatibilityModeFromProto, M!CompatibilityModeToProto
  <2> HIDE DEF back
  <2>. QED
    BY <1>1, <2>1, <2>2, <2>3 DEF IsStruct, IsCompatibility
<1>20. back = [Service |-> back.Service, GRPC |-> back.GRPC, REST |-> back.REST,
               Observability |-> back.Observability, Auth |-> back.Auth, DB |-> back.DB,
               Queue |-> back.Queue, Cache |-> back.Cache, Storage |-> back.Storage,
               Compatibility |-> back.Compatibility]
  BY DEF M!FromProto
<1> HIDE DEF back
<1>21. back = Plainly(m)
  BY <1>10, <1>11, <1>12, <1>13, <1>14, <1>15, <1>16, <1>17, <1>18, <1>19, <1>20 DEF Plainly
<1>. QED
  BY <1>9, <1>21 DEF back, pb

-----------------------------------------------------------------------------
(* What zengo add and zengo version freeze do to the sections.               *)

Sections == {"Service", "GRPC", "REST", "Observability", "Auth", "DB", "Queue", "Cache",
             "Storage", "Compatibility"}

LEMMA MeaningRead ==
    ASSUME M!NilIsNoRecord, NEW pb, M!IsManifest(pb)
    PROVE  M!Meaning(pb) = Plainly(M!FromProto(pb)) /\ DOMAIN M!Meaning(pb) = Sections
<1> DEFINE m == M!FromProto(pb)
<1>1. IsStruct(m)
  BY Structs
<1>2. M!Meaning(pb) = [m EXCEPT !.DB = Plain(@), !.Queue = Plain(@), !.Cache = Plain(@),
                                !.Storage = Plain(@)]
  BY DEF M!Meaning, Plain
<1> HIDE DEF m
<1>3. M!Meaning(pb) = Plainly(m)
  BY <1>1, <1>2 DEF IsStruct, Plainly
<1>4. DOMAIN Plainly(m) = Sections
  BY DEF Plainly, Sections
<1>. QED
  BY <1>3, <1>4 DEF m

LEMMA MeaningWritten ==
    ASSUME M!NilIsNoRecord, NEW m, IsStruct(m), M!Valid(m)
    PROVE  M!IsManifest(M!ToProto(m)) /\ M!Meaning(M!ToProto(m)) = Plainly(m)
<1>1. M!IsManifest(M!ToProto(m)) /\ M!FromProto(M!ToProto(m)) = Plainly(m)
  BY Written
<1>2. M!Meaning(M!ToProto(m)) = Plainly(Plainly(m))
  BY <1>1, MeaningRead
<1>3. \A section : Plain(Plain(section)) = Plain(section)
  BY DEF Plain, M!AnySet
<1>4. Plainly(Plainly(m)) = Plainly(m)
  BY <1>3 DEF Plainly
<1>. QED
  BY <1>1, <1>2, <1>4

\* A patch that leaves the other sections of the struct alone.
Patches(m, patched, section) ==
    IsStruct(patched) /\ \A f \in Sections \ {section} : patched[f] = m[f]

LEMMA PatchKeeps ==
    ASSUME M!NilIsNoRecord, NEW pb, M!IsManifest(pb), NEW patched, NEW section,
           Patches(M!FromProto(pb), patched, section), M!Update(patched) # Failed
    PROVE  /\ M!IsManifest(M!Update(patched))
           /\ \A f \in DOMAIN M!Meaning(pb) \ {section} :
                M!Meaning(M!Update(patched))[f] = M!Meaning(pb)[f]
<1> DEFINE m == M!FromProto(pb)
<1>1. M!Valid(patched) /\ M!Update(patched) = M!ToProto(patched)
  BY DEF M!Update
<1>2. /\ M!IsManifest(M!Update(patched)) /\ M!Meaning(M!Update(patched)) = Plainly(patched)
      /\ M!Meaning(pb) = Plainly(m) /\ DOMAIN M!Meaning(pb) = Sections
  BY <1>1, MeaningWritten, MeaningRead DEF Patches
<1>3. \A f \in Sections \ {section} : patched[f] = m[f]
  BY DEF Patches
<1> HIDE DEF m
<1>4. ASSUME NEW f \in Sections, patched[f] = m[f] PROVE Plainly(patched)[f] = Plainly(m)[f]
  BY <1>4 DEF Sections, Plainly
<1>. QED
  BY <1>2, <1>3, <1>4

\* One section is replaced.
LEMMA SectionReplaced ==
    ASSUME NEW m, IsStruct(m), NEW section \in Sections, NEW x,
           IsStruct([m EXCEPT ![section] = x])
    PROVE  Patches(m, [m EXCEPT ![section] = x], section)
<1>1. DOMAIN m = Sections
  <2> DEFINE r == [Service |-> m.Service, GRPC |-> m.GRPC, REST |-> m.REST,
                   Observability |-> m.Observability, Auth |-> m.Auth, DB |-> m.DB, Queue |-> m.Queue,
                   Cache |-> m.Cache, Storage |-> m.Storage, Compatibility |-> m.Compatibility]
  <2>1. m = r /\ DOMAIN r = Sections
    BY DEF IsStruct, Sections
  <2>. QED
    BY <2>1
<1>. QED
  BY <1>1 DEF Patches

LEMMA DbPatched ==
    ASSUME NEW m, IsStruct(m), NEW x, IsDB(x)
    PROVE  Patches(m, [m EXCEPT !.DB = x], "DB")
<1>1. IsStruct([m EXCEPT !.DB = x])
  BY DEF IsStruct
<1>. QED
  BY <1>1, SectionReplaced DEF Sections

LEMMA QueuePatched ==
    ASSUME NEW m, IsStruct(m), NEW x, IsQueue(x)
    PROVE  Patches(m, [m EXCEPT !.Queue = x], "Queue")
<1>1. IsStruct([m EXCEPT !.Queue = x])
  BY DEF IsStruct
<1>. QED
  BY <1>1, SectionReplaced DEF Sections

LEMMA AddsDB ==
    ASSUME M!NilIsNoRecord, NEW m, IsStruct(m)
    PROVE  Patches(m, M!AddPostgres(m), "DB") /\ Patches(m, M!AddCassandra(m), "DB")
<1> DEFINE db == M!OrElse(m.DB, M!NoDB)
           postgres == M!Fill(db.Postgres, [ConfigFrom |-> "", Queries |-> "queries/"])
           cassandra == M!Fill(db.Cassandra, [ConfigFrom |-> "", Keyspace |-> "app", CQL |-> "cql/"])
<1>1. db # Nil /\ IsDB(db)
  <2>1. M!NoDB # Nil /\ IsDB(M!NoDB)
    BY DEF M!NoDB, IsDB, M!NilIsNoRecord
  <2>. QED
    BY <2>1 DEF M!OrElse, IsStruct
<1>2. M!AddPostgres(m) = [m EXCEPT !.DB = [db EXCEPT !.Postgres = postgres]]
  BY DEF M!AddPostgres, M!AddDB
<1>3. M!AddCassandra(m) = [m EXCEPT !.DB = [db EXCEPT !.Cassandra = cassandra]]
  BY DEF M!AddCassandra, M!AddDB
<1>4. postgres = [ConfigFrom |-> postgres.ConfigFrom, Queries |-> postgres.Queries]
  BY DEF M!Fill
<1>5. cassandra = [ConfigFrom |-> cassandra.ConfigFrom, Keyspace |-> cassandra.Keyspace,
                   CQL |-> cassandra.CQL]
  BY DEF M!Fill
<1> HIDE DEF db, postgres, cassandra
<1>6. IsDB([db EXCEPT !.Postgres = postgres]) /\ IsDB([db EXCEPT !.Cassandra = cassandra])
  BY <1>1, <1>4, <1>5 DEF IsDB
<1>. QED
  BY <1>2, <1>3, <1>6, DbPatched

LEMMA AddsQueue ==
    ASSUME M!NilIsNoRecord, NEW m, IsStruct(m)
    PROVE  /\ Patches(m, M!AddKafka(m), "Queue") /\ Patches(m, M!AddNats(m), "Queue")
           /\ Patches(m, M!AddRabbitMQ(m), "Queue")
<1> DEFINE q == M!OrElse(m.Queue, M!NoQueue)
           kafka == M!Fill(q.Kafka, [BrokersFromConfig |-> "kafka", Brokers |-> "localhost:9092"])
           nats == M!Fill(q.Nats, [ConfigFrom |-> "nats", URLs |-> ""])
           rabbitmq == M!Fill(q.RabbitMQ, [ConfigFrom |-> "rabbitmq", URLs |-> ""])
<1>1. q # Nil /\ IsQueue(q)
  <2>1. M!NoQueue # Nil /\ IsQueue(M!NoQueue)
    BY DEF M!NoQueue, IsQueue, M!NilIsNoRecord
  <2>. QED
    BY <2>1 DEF M!OrElse, IsStruct
<1>2. /\ M!AddKafka(m) = [m EXCEPT !.Queue = [q EXCEPT !.Kafka = kafka]]
      /\ M!AddNats(m) = [m EXCEPT !.Queue = [q EXCEPT !.Nats = nats]]
      /\ M!AddRabbitMQ(m) = [m EXCEPT !.Queue = [q EXCEPT !.RabbitMQ = rabbitmq]]
  BY DEF M!AddKafka, M!AddNats, M!AddRabbitMQ, M!AddQueue
<1>3. /\ kafka = [BrokersFromConfig |-> kafka.BrokersFromConfig, Brokers |-> kafka.Brokers]
      /\ nats = [ConfigFrom |-> nats.ConfigFrom, URLs |-> nats.URLs]
      /\ rabbitmq = [ConfigFrom |-> rabbitmq.ConfigFrom, URLs |-> rabbitmq.URLs]
  BY DEF M!Fill
<1> HIDE DEF q, kafka, nats, rabbitmq
<1>4. /\ IsQueue([q EXCEPT !.Kafka = kafka]) /\ IsQueue([q EXCEPT !.Nats = nats])
      /\ IsQueue([q EXCEPT !.RabbitMQ = rabbitmq])
  BY <1>1, <1>3 DEF IsQueue
<1>. QED
  BY <1>2, <1>4, QueuePatched

LEMMA AddsCacheAndStorage ==
    ASSUME M!NilIsNoRecord, NEW m, IsStruct(m)
    PROVE  Patches(m, M!AddRedis(m), "Cache") /\ Patches(m, M!AddS3(m), "Storage")
<1> DEFINE c == M!OrElse(m.Cache, [Redis |-> Nil])
           s == M!OrElse(m.Storage, [S3 |-> Nil])
           redis == M!Fill(c.Redis, [ConfigFrom |-> "redis"])
           s3 == M!Fill(s.S3, [ConfigFrom |-> "s3"])
<1>1. c # Nil /\ IsCache(c) /\ s # Nil /\ IsStorage(s)
  BY DEF M!OrElse, IsStruct, IsCache, IsStorage, M!NilIsNoRecord
<1>2. /\ M!AddRedis(m) = [m EXCEPT !.Cache = [c EXCEPT !.Redis = redis]]
      /\ M!AddS3(m) = [m EXCEPT !.Storage = [s EXCEPT !.S3 = s3]]
  BY DEF M!AddRedis, M!AddS3
<1>3. redis = [ConfigFrom |-> redis.ConfigFrom] /\ s3 = [ConfigFrom |-> s3.ConfigFrom]
  BY DEF M!Fill
<1> HIDE DEF c, s, redis, s3
<1>4. IsCache([c EXCEPT !.Redis = redis]) /\ IsStorage([s EXCEPT !.S3 = s3])
  BY <1>1, <1>3 DEF IsCache, IsStorage
<1> DEFINE cache == [c EXCEPT !.Redis = redis]
           storage == [s EXCEPT !.S3 = s3]
<1> HIDE DEF cache, storage
<1>5. IsStruct([m EXCEPT !.Cache = cache]) /\ IsStruct([m EXCEPT !.Storage = storage])
  BY <1>4 DEF IsStruct, cache, storage
<1>. QED
  BY <1>2, <1>5, SectionReplaced DEF Sections, cache, storage

LEMMA AddsTransport ==
    ASSUME M!NilIsNoRecord, NEW m, IsStruct(m)
    PROVE  Patches(m, M!AddGRPC(m), "GRPC") /\ Patches(m, M!AddREST(m), "REST")
<1> DEFINE grpc == IF m.GRPC = Nil THEN [Port |-> 9090, TLS |-> Nil]
                   ELSE [m.GRPC EXCEPT !.Port = IF m.GRPC.Port = 0 THEN 9090 ELSE m.GRPC.Port]
           rest == IF m.REST = Nil THEN [Port |-> 8080, TLS |-> Nil, GRPCClientTLS |-> Nil]
                   ELSE [m.REST EXCEPT !.Port = IF m.REST.Port = 0 THEN 8080 ELSE m.REST.Port]
<1>1. /\ M!AddGRPC(m) = [m EXCEPT !.GRPC = grpc]
      /\ M!AddREST(m) = [m EXCEPT !.REST = rest]
  BY DEF M!AddGRPC, M!AddREST, M!WithPort, IsStruct
<1>2. IsGRPC(grpc)
  <2>1. CASE m.GRPC = Nil
    BY <2>1 DEF IsGRPC, ServerTLS
  <2>2. CASE m.GRPC # Nil
    BY <2>2 DEF IsStruct, IsGRPC
  <2>. QED
    BY <2>1, <2>2
<1>3. IsREST(rest)
  <2>1. CASE m.REST = Nil
    BY <2>1 DEF IsREST, ServerTLS, ClientTLS
  <2>2. CASE m.REST # Nil
    BY <2>2 DEF IsStruct, IsREST
  <2>. QED
    BY <2>1, <2>2
<1> HIDE DEF grpc, rest
<1>4. IsStruct([m EXCEPT !.GRPC = grpc]) /\ IsStruct([m EXCEPT !.REST = rest])
  BY <1>2, <1>3 DEF IsStruct
<1>5. "GRPC" \in Sections /\ "REST" \in Sections
  BY DEF Sections
<1>6. Patches(m, [m EXCEPT !.GRPC = grpc], "GRPC")
  BY <1>4, <1>5, SectionReplaced
<1>7. Patches(m, [m EXCEPT !.REST = rest], "REST")
  BY <1>4, <1>5, SectionReplaced
<1>. QED
  BY <1>1, <1>6, <1>7

LEMMA AddsTheRest ==
    ASSUME M!NilIsNoRecord, NEW m, IsStruct(m)
    PROVE  /\ Patches(m, M!AddObservability(m), "Observability")
           /\ Patches(m, M!AddAuth(m), "Auth")
           /\ Patches(m, M!EnableCompatibility(m), "Compatibility")
<1> DEFINE o == m.Observability
           observability ==
             [Metrics |-> TRUE, Tracing |-> TRUE, Health |-> TRUE,
              TracingConfigFrom |-> IF o.TracingConfigFrom = "" THEN "tracing" ELSE o.TracingConfigFrom,
              LoggingConfigFrom |-> IF o.LoggingConfigFrom = "" THEN "logging" ELSE o.LoggingConfigFrom]
           auth == [Enabled |-> TRUE,
                    APIKeys |-> IF m.Auth = Nil THEN {<<"dev", "dev-token">>}
                                ELSE IF m.Auth.APIKeys = {} THEN {<<"dev", "dev-token">>}
                                ELSE m.Auth.APIKeys]
<1>1. /\ M!AddObservability(m) = [m EXCEPT !.Observability = observability]
      /\ M!AddAuth(m) = [m EXCEPT !.Auth = auth]
      /\ M!EnableCompatibility(m) = [m EXCEPT !.Compatibility = "enabled"]
  BY DEF M!AddObservability, M!AddAuth, M!EnableCompatibility, IsStruct
<1>2. IsObservability(observability)
  BY DEF IsObservability
<1>3. IsAuth(auth)
  BY DEF IsAuth
<1>4. IsCompatibility("enabled")
  BY DEF IsCompatibility
<1> HIDE DEF observability, auth
<1>5. IsStruct([m EXCEPT !.Observability = observability])
  BY <1>2 DEF IsStruct
<1>6. IsStruct([m EXCEPT !.Auth = auth])
  BY <1>3 DEF IsStruct
<1>7. IsStruct([m EXCEPT !.Compatibility = "enabled"])
  BY <1>4 DEF IsStruct
<1>8. "Observability" \in Sections /\ "Auth" \in Sections /\ "Compatibility" \in Sections
  BY DEF Sections
<1>9. Patches(m, [m EXCEPT !.Observability = observability], "Observability")
  BY <1>5, <1>8, SectionReplaced
<1>10. Patches(m, [m EXCEPT !.Auth = auth], "Auth")
  BY <1>6, <1>8, SectionReplaced
<1>11. Patches(m, [m EXCEPT !.Compatibility = "enabled"], "Compatibility")
  BY <1>7, <1>8, SectionReplaced
<1>. QED
  BY <1>1, <1>9, <1>10, <1>11

\* zengo add changes the section of its target and no other, however often the
\* file has been written by the tools before (add.go, manifest.go).
LEMMA AddKeeps ==
    ASSUME M!NilIsNoRecord, NEW pb, M!IsManifest(pb), NEW raw, M!Add(pb, raw) # Failed
    PROVE  /\ M!IsManifest(M!Add(pb, raw))
           /\ \A f \in DOMAIN M!Meaning(pb) \ {M!SectionOf(raw)} :
                M!Meaning(M!Add(pb, raw))[f] = M!Meaning(pb)[f]
<1> DEFINE m == M!FromProto(pb)
           target == M!NormalizeAddTarget(raw)
<1>1. IsStruct(m)
  BY Structs
<1>2. \E patched : /\ M!Add(pb, raw) = M!Update(patched)
                   /\ Patches(m, patched, M!SectionOf(raw))
  <2>1. M!Add(pb, raw) =
          CASE target = "db/postgres"    -> M!Update(M!AddPostgres(m))
            [] target = "queue/kafka"    -> M!Update(M!AddKafka(m))
            [] target = "queue/nats"     -> M!Update(M!AddNats(m))
            [] target = "queue/rabbitmq" -> M!Update(M!AddRabbitMQ(m))
            [] target = "transport/grpc" -> M!Update(M!AddGRPC(m))
            [] target = "transport/rest" -> M!Update(M!AddREST(m))
            [] target = "observability"  -> M!Update(M!AddObservability(m))
            [] target = "auth"           -> M!Update(M!AddAuth(m))
            [] target = "cache/redis"    -> M!Update(M!AddRedis(m))
            [] target = "storage/s3"     -> M!Update(M!AddS3(m))
            [] target = "db/cassandra"   -> M!Update(M!AddCassandra(m))
            [] OTHER -> Failed
    BY DEF M!Add
  <2>2. M!SectionOf(raw) =
          CASE target = "db/postgres" -> "DB" [] target = "db/cassandra" -> "DB"
            [] target \in {"queue/kafka", "queue/nats", "queue/rabbitmq"} -> "Queue"
            [] target = "transport/grpc" -> "GRPC" [] target = "transport/rest" -> "REST"
            [] target = "observability" -> "Observability" [] target = "auth" -> "Auth"
            [] target = "cache/redis" -> "Cache" [] target = "storage/s3" -> "Storage"
            [] OTHER -> ""
    BY DEF M!SectionOf
  <2> HIDE DEF target, m
  <2>3. CASE target = "db/postgres"
    BY <1>1, <2>1, <2>2, <2>3, AddsDB
  <2>4. CASE target = "db/cassandra"
    BY <1>1, <2>1, <2>2, <2>4, AddsDB
  <2>5. CASE target = "queue/kafka"
    BY <1>1, <2>1, <2>2, <2>5, AddsQueue
  <2>6. CASE target = "queue/nats"
    BY <1>1, <2>1, <2>2, <2>6, AddsQueue
  <2>7. CASE target = "queue/rabbitmq"
    BY <1>1, <2>1, <2>2, <2>7, AddsQueue
  <2>8. CASE target = "transport/grpc"
    BY <1>1, <2>1, <2>2, <2>8, AddsTransport
  <2>9. CASE target = "transport/rest"
    BY <1>1, <2>1, <2>2, <2>9, AddsTransport
  <2>10. CASE target = "observability"
    BY <1>1, <2>1, <2>2, <2>10, AddsTheRest
  <2>11. CASE target = "auth"
    BY <1>1, <2>1, <2>2, <2>11, AddsTheRest
  <2>12. CASE target = "cache/redis"
    BY <1>1, <2>1, <2>2, <2>12, AddsCacheAndStorage
  <2>13. CASE target = "storage/s3"
    BY <1>1, <2>1, <2>2, <2>13, AddsCacheAndStorage
  <2>14. target \in {"db/postgres", "db/cassandra", "queue/kafka", "queue/nats", "queue/rabbitmq",
                     "transport/grpc", "transport/rest", "observability", "auth", "cache/redis",
                     "storage/s3"}
    BY <2>1
  <2>. QED
    BY <2>3, <2>4, <2>5, <2>6, <2>7, <2>8, <2>9, <2>10, <2>11, <2>12, <2>13, <2>14
<1>. QED
  BY <1>2, PatchKeeps

-----------------------------------------------------------------------------
(* The stages of a generation.                                               *)

\* A generation under way.
IsGen(g) ==
    /\ g = [stages |-> g.stages, manifest |-> g.manifest, force |-> g.force, out |-> g.out,
            cache |-> g.cache, ok |-> g.ok]
    /\ g.out = [t \in TargetSet |-> g.out[t]]
    /\ \A t \in TargetSet : Shaped(t, g.out[t])

\* A stage that does not write the files that may be people's.
Elsewhere(g, next) ==
    /\ IsGen(next) /\ next.stages = g.stages /\ next.force = g.force /\ next.manifest = g.manifest
    /\ \A t \in HandFiles : next.out[t] = g.out[t]

\* No database, no migration.
NoDatabase(manifest) == manifest = Failed \/ ~Postgres(manifest)

\* A stage that keeps them when they are people's.
HandKept(g, next) ==
    /\ IsGen(next) /\ next.stages = g.stages /\ next.force = g.force /\ next.manifest = g.manifest
    /\ \A t \in HandFiles :
         g.out[t] # Nil /\ ~g.out[t].Header /\ (g.force => t # "cmd/main.go") => next.out[t] = g.out[t]
    /\ NoDatabase(g.manifest) => next.out[Migration] = g.out[Migration]

LEMMA ElsewhereKeeps ==
    ASSUME NEW g, NEW next, Elsewhere(g, next)
    PROVE  HandKept(g, next)
BY DEF Elsewhere, HandKept, HandFiles

LEMMA HandKeptTwice ==
    ASSUME NEW g, NEW next, NEW last, HandKept(g, next), HandKept(next, last)
    PROVE  HandKept(g, last)
BY DEF HandKept

\* One of the other outputs is written, or none.
LEMMA OutputWritten ==
    ASSUME NEW g, IsGen(g), NEW t \in TargetSet \ HandFiles, NEW x,
           Shaped(t, x)
    PROVE  Elsewhere(g, [g EXCEPT !.out = [g.out EXCEPT ![t] = x]])
<1> DEFINE o == [g.out EXCEPT ![t] = x]
           next == [g EXCEPT !.out = o]
<1>1. /\ o = [u \in TargetSet |-> o[u]] /\ \A u \in TargetSet : Shaped(u, o[u])
      /\ \A u \in HandFiles : o[u] = g.out[u]
  BY DEF IsGen, HandFiles, Migration, TargetSet
<1> HIDE DEF o
<1>2. /\ next = [stages |-> g.stages, manifest |-> g.manifest, force |-> g.force, out |-> o,
                 cache |-> g.cache, ok |-> g.ok]
  BY DEF IsGen
<1> HIDE DEF next
<1>3. IsGen(next) /\ next.stages = g.stages /\ next.force = g.force /\ next.manifest = g.manifest
      /\ next.out = o
  BY <1>1, <1>2 DEF IsGen
<1>4. Elsewhere(g, next)
  BY <1>1, <1>3 DEF Elsewhere
<1>. QED
  BY <1>4 DEF next, o

LEMMA NothingWritten ==
    ASSUME NEW g, IsGen(g), NEW x
    PROVE  /\ Elsewhere(g, g) /\ Elsewhere(g, Fails(g))
           /\ Elsewhere(g, [g EXCEPT !.cache = x])
           /\ Elsewhere(g, [Fails(g) EXCEPT !.cache = x])
<1>1. Elsewhere(g, g)
  BY DEF Elsewhere
<1>2. ASSUME NEW next, NEW ok, NEW cache,
             next = [stages |-> g.stages, manifest |-> g.manifest, force |-> g.force,
                     out |-> g.out, cache |-> cache, ok |-> ok]
      PROVE  Elsewhere(g, next)
  <2>1. next.stages = g.stages /\ next.manifest = g.manifest /\ next.force = g.force
        /\ next.out = g.out /\ next.cache = cache /\ next.ok = ok
    BY <1>2
  <2>. QED
    BY <1>2, <2>1 DEF Elsewhere, IsGen
<1> DEFINE Ended(b) == [g EXCEPT !.ok = b]
<1>3. \A b : Ended(b) = [stages |-> g.stages, manifest |-> g.manifest, force |-> g.force,
                         out |-> g.out, cache |-> g.cache, ok |-> b]
  BY DEF IsGen
<1>4. [g EXCEPT !.cache = x] = [stages |-> g.stages, manifest |-> g.manifest, force |-> g.force,
                                out |-> g.out, cache |-> x, ok |-> g.ok]
  BY DEF IsGen
<1>5. \A b : [Ended(b) EXCEPT !.cache = x] =
              [stages |-> g.stages, manifest |-> g.manifest, force |-> g.force,
               out |-> g.out, cache |-> x, ok |-> b]
  <2> HIDE DEF Ended
  <2>. QED
    BY <1>3
<1>6. Fails(g) = Ended(FALSE)
  BY DEF Fails
<1> HIDE DEF Ended
<1>7. Elsewhere(g, Fails(g))
  BY <1>2, <1>3, <1>6
<1>8. Elsewhere(g, [Fails(g) EXCEPT !.cache = x])
  BY <1>2, <1>5, <1>6
<1>9. Elsewhere(g, [g EXCEPT !.cache = x])
  BY <1>2, <1>4
<1>. QED
  BY <1>1, <1>7, <1>8, <1>9

LEMMA ElsewhereTwice ==
    ASSUME NEW g, NEW next, NEW last, Elsewhere(g, next), Elsewhere(next, last)
    PROVE  Elsewhere(g, last)
BY DEF Elsewhere

LEMMA Others ==
    "gen/api" \in TargetSet \ HandFiles /\ "gen/zengo" \in TargetSet \ HandFiles
    /\ "gen/db" \in TargetSet \ HandFiles /\ "gen/cql" \in TargetSet \ HandFiles
    /\ "gen/openapi" \in TargetSet \ HandFiles /\ ".cursor/rules" \in TargetSet \ HandFiles
    /\ "docs/PROTO_REGISTRY.md" \in TargetSet \ HandFiles
BY DEF TargetSet, HandFiles, Migration

\* What the stages write looks as it should.
LEMMA ShapedApi == ASSUME NEW x, x = [seg \in Segments |-> x[seg]] PROVE Shaped("gen/api", x)
BY DEF Shaped, HandFiles, Migration

LEMMA ShapedZengo ==
    ASSUME NEW x, Shaped("gen/zengo", x), NEW y
    PROVE  /\ Shaped("gen/zengo", [x EXCEPT !.schema = y])
           /\ Shaped("gen/zengo", [x EXCEPT !.runtime = y])
           /\ y = [seg \in Segments |-> y[seg]] => Shaped("gen/zengo", [x EXCEPT !.register = y])
           /\ y = [v \in Versions |-> y[v]] => Shaped("gen/zengo", [x EXCEPT !.convert = y])
<1>1. IsZengo(x)
  BY DEF Shaped
<1>2. ASSUME NEW z, IsZengo(z) PROVE Shaped("gen/zengo", z)
  BY <1>2 DEF Shaped, HandFiles, Migration
<1>3. ASSUME NEW r, NEW s, NEW c, NEW t, NEW z,
             z = [register |-> r, schema |-> s, convert |-> c, runtime |-> t],
             r = [seg \in Segments |-> r[seg]], c = [v \in Versions |-> c[v]]
      PROVE  Shaped("gen/zengo", z)
  <2>1. z.register = r /\ z.schema = s /\ z.convert = c /\ z.runtime = t
    BY <1>3
  <2>2. IsZengo(z)
    BY <1>3, <2>1 DEF IsZengo
  <2>. QED
    BY <1>2, <2>2
<1>4. /\ [x EXCEPT !.schema = y] =
           [register |-> x.register, schema |-> y, convert |-> x.convert, runtime |-> x.runtime]
      /\ [x EXCEPT !.runtime = y] =
           [register |-> x.register, schema |-> x.schema, convert |-> x.convert, runtime |-> y]
      /\ [x EXCEPT !.register = y] =
           [register |-> y, schema |-> x.schema, convert |-> x.convert, runtime |-> x.runtime]
      /\ [x EXCEPT !.convert = y] =
           [register |-> x.register, schema |-> x.schema, convert |-> y, runtime |-> x.runtime]
  BY <1>1 DEF IsZengo
<1>. QED
  BY <1>1, <1>3, <1>4 DEF IsZengo

LEMMA ShapedRaw ==
    ASSUME NEW x, Shaped("gen/openapi", x), NEW old
    PROVE  Shaped("gen/openapi", [x EXCEPT !.raw = Beside(old)])
<1> DEFINE y == Beside(old)
<1>1. y = [seg \in DOMAIN y |-> y[seg]]
  BY DEF Beside
<1>2. IsOpenAPI(x)
  BY DEF Shaped
<1> HIDE DEF y
<1>3. [x EXCEPT !.raw = y] = [raw |-> y, docs |-> x.docs]
  BY <1>2 DEF IsOpenAPI
<1>4. IsOpenAPI([raw |-> y, docs |-> x.docs])
  BY <1>1, <1>2 DEF IsOpenAPI
<1>. QED
  BY <1>3, <1>4 DEF Shaped, HandFiles, Migration, y

LEMMA ShapedDocs ==
    ASSUME NEW x, ~NothingToSplit(x)
    PROVE  Shaped("gen/openapi", [raw |-> <<>>, docs |-> x])
<1>1. <<>> = [seg \in DOMAIN <<>> |-> <<>>[seg]]
  OBVIOUS
<1>2. IsOpenAPI([raw |-> <<>>, docs |-> x])
  BY <1>1 DEF IsOpenAPI
<1>. QED
  BY <1>2 DEF Shaped, HandFiles, Migration

LEMMA ShapedOther ==
    /\ \A x : Shaped("gen/cql", x) /\ Shaped(".cursor/rules", x) /\ Shaped("docs/PROTO_REGISTRY.md", x)
    /\ \A x, y : Shaped("gen/db", [queries |-> x, schema |-> y])
    /\ \A t \in HandFiles : Shaped(t, Nil) /\ \A x : IsFile(x) => Shaped(t, x)
    /\ \A b \in BOOLEAN : \A x : IsFile([Header |-> b, Body |-> x])
<1>1. \A x : Shaped("gen/cql", x) /\ Shaped(".cursor/rules", x) /\ Shaped("docs/PROTO_REGISTRY.md", x)
  BY DEF Shaped, HandFiles, Migration
<1>2. \A x, y : Shaped("gen/db", [queries |-> x, schema |-> y])
  BY DEF Shaped, HandFiles, Migration
<1>3. \A t \in HandFiles : Shaped(t, Nil) /\ \A x : IsFile(x) => Shaped(t, x)
  BY DEF Shaped, HandFiles, Migration
<1>4. \A b \in BOOLEAN : \A x : IsFile([Header |-> b, Body |-> x])
  BY DEF IsFile
<1>. QED
  BY <1>1, <1>2, <1>3, <1>4

LEMMA ShapedAbsent == \A t \in TargetSet : Shaped(t, Absent(t))
<1>1. Shaped("gen/api", Absent("gen/api"))
  BY ShapedApi DEF Absent, NoApi
<1>2. Shaped("gen/zengo", Absent("gen/zengo"))
  <2> DEFINE convert == [v \in Versions |-> Nil]
             x == [register |-> NoApi, schema |-> Nil, convert |-> convert, runtime |-> Nil]
  <2>1. NoApi = [seg \in Segments |-> NoApi[seg]] /\ convert = [v \in Versions |-> convert[v]]
    BY DEF NoApi
  <2> HIDE DEF convert
  <2>2. x.register = NoApi /\ x.schema = Nil /\ x.convert = convert /\ x.runtime = Nil
    OBVIOUS
  <2>3. IsZengo(x)
    BY <2>1, <2>2 DEF IsZengo
  <2>. QED
    BY <2>3 DEF Shaped, HandFiles, Migration, Absent, convert
<1>3. Shaped("gen/openapi", Absent("gen/openapi"))
  <2> DEFINE x == [raw |-> <<>>, docs |-> Nil]
  <2>1. <<>> = [seg \in DOMAIN <<>> |-> <<>>[seg]] /\ x.raw = <<>> /\ x.docs = Nil
    OBVIOUS
  <2>2. IsOpenAPI(x)
    BY <2>1 DEF IsOpenAPI
  <2>. QED
    BY <2>2 DEF Shaped, HandFiles, Migration, Absent
<1>4. \A t \in TargetSet \ {"gen/api", "gen/zengo", "gen/openapi"} : Absent(t) = Nil
  BY DEF Absent, TargetSet
<1>5. \A t \in TargetSet \ {"gen/api", "gen/zengo", "gen/openapi"} : Shaped(t, Nil)
  BY DEF Shaped
<1>. QED
  BY <1>1, <1>2, <1>3, <1>4, <1>5

LEMMA CqlElsewhere ==
    ASSUME NEW g, IsGen(g)
    PROVE  Elsewhere(g, Cql(g))
<1>1. Cql(g) = g \/ Cql(g) = [g EXCEPT !.out = [g.out EXCEPT !["gen/cql"] = src.cql]]
  BY DEF Cql
<1>2. Elsewhere(g, [g EXCEPT !.out = [g.out EXCEPT !["gen/cql"] = src.cql]])
  BY OutputWritten, Others, ShapedOther
<1>. QED
  BY <1>1, <1>2, NothingWritten

LEMMA SqlcElsewhere ==
    ASSUME NEW g, IsGen(g)
    PROVE  Elsewhere(g, Sqlc(g))
<1> DEFINE db == [queries |-> src.queries, schema |-> MigrationBody(g.out)]
<1>1. Sqlc(g) = g \/ Sqlc(g) = [g EXCEPT !.out = [g.out EXCEPT !["gen/db"] = db]]
  BY DEF Sqlc
<1>2. Shaped("gen/db", db)
  BY ShapedOther
<1> HIDE DEF db
<1>3. Elsewhere(g, [g EXCEPT !.out = [g.out EXCEPT !["gen/db"] = db]])
  BY <1>2, OutputWritten, Others
<1>. QED
  BY <1>1, <1>3, NothingWritten

\* The split is made, or there is nothing to split, or it fails.
LEMMA SplitCases ==
    ASSUME NEW g
    PROVE  LET raw == g.out["gen/openapi"].raw
               docs == [raw |-> <<>>, docs |-> raw]
               next == [g EXCEPT !.out = [g.out EXCEPT !["gen/openapi"] = docs]]
           IN  \/ Split(g) = g /\ (Skips(g, "split") \/ NothingToSplit(raw))
               \/ Split(g) = Fails(g)
               \/ Split(g) = next /\ ~NothingToSplit(raw)
<1> DEFINE raw == g.out["gen/openapi"].raw
           docs == [raw |-> <<>>, docs |-> raw]
           next == [g EXCEPT !.out = [g.out EXCEPT !["gen/openapi"] = docs]]
           Good(h) == \/ h = g /\ (Skips(g, "split") \/ NothingToSplit(raw))
                      \/ h = Fails(g)
                      \/ h = next /\ ~NothingToSplit(raw)
<1>1. ASSUME NEW outcomes, Nil \in outcomes <=> NothingToSplit(raw) PROVE Good(SplitInto(g, outcomes))
  BY <1>1 DEF SplitInto
<1> HIDE DEF Good
<1> DEFINE outcomes == IF raw = <<>> THEN {Nil} ELSE Splits[raw, FALSE]
<1>2. Nil \in outcomes <=> NothingToSplit(raw)
  BY DEF NothingToSplit
<1> HIDE DEF outcomes
<1>3. Good(SplitInto(g, outcomes))
  BY <1>1, <1>2
<1>4. Good(Split(g))
  BY <1>3 DEF Split, outcomes
<1>. QED
  BY <1>4 DEF Good

LEMMA SplitElsewhere ==
    ASSUME NEW g, IsGen(g)
    PROVE  Elsewhere(g, Split(g))
<1> DEFINE raw == g.out["gen/openapi"].raw
           docs == [raw |-> <<>>, docs |-> raw]
           next == [g EXCEPT !.out = [g.out EXCEPT !["gen/openapi"] = docs]]
<1>1. Split(g) \in {g, Fails(g)} \/ (Split(g) = next /\ ~NothingToSplit(raw))
  BY SplitCases
<1>2. ~NothingToSplit(raw) => Shaped("gen/openapi", docs)
  BY ShapedDocs
<1> HIDE DEF docs
<1>3. ~NothingToSplit(raw) => Elsewhere(g, next)
  BY <1>2, OutputWritten, Others
<1> HIDE DEF next
<1>. QED
  BY <1>1, <1>3, NothingWritten

LEMMA BufElsewhere ==
    ASSUME NEW g, IsGen(g)
    PROVE  Elsewhere(g, Buf(g))
<1> DEFINE Over(old) ==
             [seg \in Segments |-> IF seg \in DOMAIN ApiFiles THEN ApiFiles[seg] ELSE old[seg]]
           next == [g EXCEPT !.out["gen/api"] = Over(@),
                             !.out["gen/zengo"].register = Over(@),
                             !.out["gen/zengo"].schema = src.hub,
                             !.out["gen/openapi"].raw = Beside(@)]
           Set(h, t, x) == [h EXCEPT !.out = [h.out EXCEPT ![t] = x]]
           first == Set(g, "gen/api", Over(g.out["gen/api"]))
           zengo == [first.out["gen/zengo"] EXCEPT !.register = Over(g.out["gen/zengo"].register)]
           second == Set(first, "gen/zengo", zengo)
           last == [second.out["gen/zengo"] EXCEPT !.schema = src.hub]
           third == Set(second, "gen/zengo", last)
           openapi == [third.out["gen/openapi"] EXCEPT !.raw = Beside(g.out["gen/openapi"].raw)]
<1>1. Buf(g) \in {g, Fails(g), next}
  BY DEF Buf
<1>2. next = Set(third, "gen/openapi", openapi)
  OBVIOUS
<1>3. ASSUME NEW h, Elsewhere(g, h), NEW t \in TargetSet \ HandFiles, NEW x,
             Shaped(t, x)
      PROVE  Elsewhere(g, Set(h, t, x))
  BY <1>3, OutputWritten, ElsewhereTwice DEF Elsewhere
<1> HIDE DEF next, Over, Set
<1>4. Elsewhere(g, first)
  <2>1. Shaped("gen/api", Over(g.out["gen/api"]))
    BY ShapedApi DEF Over
  <2>. QED
    BY <1>3, <2>1, NothingWritten, Others
<1> HIDE DEF first
<1>5. Elsewhere(g, second)
  <2>1. Shaped("gen/zengo", first.out["gen/zengo"]) /\ Over(g.out["gen/zengo"].register)
           = [seg \in Segments |-> Over(g.out["gen/zengo"].register)[seg]]
    BY <1>4, Others DEF Elsewhere, IsGen, Over
  <2>2. Shaped("gen/zengo", zengo)
    BY <2>1, ShapedZengo
  <2> HIDE DEF zengo
  <2>. QED
    BY <1>3, <1>4, <2>2, Others
<1> HIDE DEF second, zengo
<1>6. Elsewhere(g, third)
  <2>1. Shaped("gen/zengo", last)
    BY <1>5, ShapedZengo, Others DEF Elsewhere, IsGen
  <2> HIDE DEF last
  <2>. QED
    BY <1>3, <1>5, <2>1, Others
<1> HIDE DEF third, last
<1>7. Elsewhere(g, next)
  <2>1. Shaped("gen/openapi", openapi)
    BY <1>6, ShapedRaw, Others DEF Elsewhere, IsGen
  <2> HIDE DEF openapi
  <2>. QED
    BY <1>2, <1>3, <1>6, <2>1, Others
<1>. QED
  BY <1>1, <1>7, NothingWritten

\* Several of the other outputs, one after the other.
LEMMA WrittenAgain ==
    ASSUME NEW g, NEW h, Elsewhere(g, h), NEW t \in TargetSet \ HandFiles, NEW x,
           Shaped(t, x)
    PROVE  Elsewhere(g, [h EXCEPT !.out = [h.out EXCEPT ![t] = x]])
BY OutputWritten, ElsewhereTwice DEF Elsewhere

LEMMA CachedAgain ==
    ASSUME NEW g, NEW h, Elsewhere(g, h), NEW x
    PROVE  /\ Elsewhere(g, [h EXCEPT !.cache = x]) /\ Elsewhere(g, Fails(h))
           /\ Elsewhere(g, [Fails(h) EXCEPT !.cache = x])
BY NothingWritten, ElsewhereTwice DEF Elsewhere

LEMMA VersionsElsewhere ==
    ASSUME NEW g, IsGen(g), NEW legacy, NEW loader, NEW refused
    PROVE  Elsewhere(g, GenerateVersions(g, legacy, loader, refused))
<1> DEFINE done == {VersionNames[i] : i \in {j \in DOMAIN VersionNames :
                      VersionNames[j] \in legacy /\ \A k \in 1..j : VersionNames[k] \notin refused}}
           cache == RememberLoader(g.cache, loader)
           cached == [g EXCEPT !.cache = cache]
           convert == [v \in Versions |-> IF v \in done THEN Adapted(v, loader)
                                          ELSE g.out["gen/zengo"].convert[v]]
           zengo == [g.out["gen/zengo"] EXCEPT !.convert = convert]
           converted == [cached EXCEPT !.out = [cached.out EXCEPT !["gen/zengo"] = zengo]]
           runtime == [Hub |-> loader["hub"], Register |-> g.out["gen/zengo"].register["hub"],
                       Versions |-> legacy]
           last == [converted.out["gen/zengo"] EXCEPT !.runtime = runtime]
           ran == [converted EXCEPT !.out = [converted.out EXCEPT !["gen/zengo"] = last]]
           noted == [Fails(g) EXCEPT !.cache = RememberLoader(Fails(g).cache, loader)]
<1>1. GenerateVersions(g, legacy, loader, refused) \in {Fails(g), noted, Fails(converted), ran}
  <2> HIDE DEF done
  <2>1. cached.out = g.out
    BY DEF IsGen
  <2>2. [g EXCEPT !.cache = RememberLoader(@, loader),
                  !.out["gen/zengo"].convert = [v \in Versions |->
                     IF v \in done THEN Adapted(v, loader) ELSE @[v]]] = converted
    OBVIOUS
  <2>3. [converted EXCEPT !.out["gen/zengo"].runtime = runtime] = ran
    OBVIOUS
  <2> HIDE DEF converted, runtime, ran, cached
  <2>. QED
    BY <2>2, <2>3 DEF GenerateVersions, done, runtime
<1> HIDE DEF done, cache, convert, runtime
<1>2. Elsewhere(g, cached)
  BY NothingWritten
<1> HIDE DEF cached
<1>3. Elsewhere(g, converted)
  <2>1. Shaped("gen/zengo", zengo)
    <3>1. convert = [v \in Versions |-> convert[v]]
      BY DEF convert
    <3>. QED
      BY <3>1, ShapedZengo, Others DEF IsGen
  <2> HIDE DEF zengo
  <2>. QED
    BY <1>2, <2>1, WrittenAgain, Others
<1> HIDE DEF converted, zengo
<1>4. Elsewhere(g, ran)
  <2>1. Shaped("gen/zengo", last)
    BY <1>3, ShapedZengo, Others DEF Elsewhere, IsGen
  <2> HIDE DEF last
  <2>. QED
    BY <1>3, <2>1, WrittenAgain, Others
<1> HIDE DEF ran
<1>5. Elsewhere(g, noted)
  BY NothingWritten
<1> HIDE DEF noted
<1>. QED
  BY <1>1, <1>3, <1>4, <1>5, CachedAgain, NothingWritten

LEMMA GenerateElsewhere ==
    ASSUME NEW g, IsGen(g), NEW legacy, NEW loader
    PROVE  Elsewhere(g, Generate(g, legacy, loader))
<1> DEFINE convert == [v \in Versions |-> IF v \in legacy THEN g.out["gen/zengo"].convert[v] ELSE Nil]
           zengo == [g.out["gen/zengo"] EXCEPT !.convert = convert]
           clean == [g EXCEPT !.out = [g.out EXCEPT !["gen/zengo"] = zengo]]
           refused == {v \in legacy :
                         ~ManualProvided(Plans[v, loader["hub"], loader[v]], src.manual[v])}
<1>1. Generate(g, legacy, loader) = GenerateVersions(clean, legacy, loader, refused)
  <2>1. [g EXCEPT !.out["gen/zengo"].convert =
                     [v \in Versions |-> IF v \in legacy THEN @[v] ELSE Nil]] = clean
    OBVIOUS
  <2> HIDE DEF clean, refused
  <2>. QED
    BY <2>1 DEF Generate, refused
<1>2. convert = [v \in Versions |-> convert[v]]
  OBVIOUS
<1> HIDE DEF convert, refused
<1>3. Elsewhere(g, clean)
  <2>1. Shaped("gen/zengo", zengo)
    BY <1>2, ShapedZengo, Others DEF IsGen
  <2> HIDE DEF zengo
  <2>. QED
    BY <2>1, OutputWritten, Others
<1> HIDE DEF clean
<1>. QED
  BY <1>1, <1>3, VersionsElsewhere, ElsewhereTwice DEF Elsewhere

\* A file of the two is written: the other stays.
LEMMA FileWritten ==
    ASSUME NEW g, IsGen(g), NEW t \in HandFiles, NEW x, Shaped(t, x),
           g.out[t] # Nil /\ ~g.out[t].Header /\ (g.force => t # "cmd/main.go") => x = g.out[t],
           t = Migration /\ NoDatabase(g.manifest) => x = g.out[t]
    PROVE  HandKept(g, [g EXCEPT !.out = [g.out EXCEPT ![t] = x]])
<1> DEFINE o == [g.out EXCEPT ![t] = x]
           next == [g EXCEPT !.out = o]
<1>1. /\ o = [u \in TargetSet |-> o[u]] /\ o[t] = x /\ \A u \in TargetSet : Shaped(u, o[u])
      /\ \A u \in HandFiles \ {t} : o[u] = g.out[u]
  BY DEF IsGen, HandFiles, Migration, TargetSet
<1> HIDE DEF o
<1>2. next = [stages |-> g.stages, manifest |-> g.manifest, force |-> g.force, out |-> o,
              cache |-> g.cache, ok |-> g.ok]
  BY DEF IsGen
<1> HIDE DEF next
<1>3. IsGen(next) /\ next.stages = g.stages /\ next.force = g.force /\ next.manifest = g.manifest
      /\ next.out = o
  BY <1>1, <1>2 DEF IsGen
<1>4. HandKept(g, next)
  BY <1>1, <1>3 DEF HandKept, HandFiles
<1>. QED
  BY <1>4 DEF next, o

LEMMA MigrateKeeps ==
    ASSUME NEW g, IsGen(g), g.manifest # Failed
    PROVE  HandKept(g, Migrate(g))
<1> DEFINE t == Migration
           file == GeneratePostgresMigration(Postgres(g.manifest), g.out[t], RepositorySchema(g.out))
<1>1. \/ Migrate(g) \in {g, Fails(g)}
      \/ file # Failed /\ Migrate(g) = [g EXCEPT !.out = [g.out EXCEPT ![t] = file]]
  <2>1. Migrate(g) = IF ~g.ok THEN g
                     ELSE IF file = Failed THEN Fails(g)
                     ELSE [g EXCEPT !.out = [g.out EXCEPT ![t] = file]]
    BY DEF Migrate, Migration
  <2> HIDE DEF file
  <2>. QED
    BY <2>1
<1>2. /\ g.out[t] # Nil /\ ~g.out[t].Header => file \in {Failed, g.out[t]}
      /\ NoDatabase(g.manifest) => file = g.out[t]
  BY DEF GeneratePostgresMigration, Managed, NoDatabase
<1>3. t \in HandFiles /\ (file # Failed => Shaped(t, file))
  <2>1. t \in HandFiles /\ t \in TargetSet
    BY DEF HandFiles, Migration, TargetSet
  <2> DEFINE tables == RepositorySchema(g.out)
             made == [Header |-> TRUE, Body |-> tables]
  <2>2. file \in {Failed, g.out[t], made}
    BY DEF GeneratePostgresMigration
  <2>3. Shaped(t, made) /\ Shaped(t, g.out[t])
    BY <2>1, ShapedOther DEF IsGen
  <2> HIDE DEF made, tables, file
  <2>. QED
    BY <2>1, <2>2, <2>3
<1> HIDE DEF file, t
<1>4. file # Failed => HandKept(g, [g EXCEPT !.out = [g.out EXCEPT ![t] = file]])
  BY <1>2, <1>3, FileWritten
<1>. QED
  BY <1>1, <1>4, NothingWritten, ElsewhereKeeps

LEMMA WireKeeps ==
    ASSUME NEW g, IsGen(g)
    PROVE  HandKept(g, Wire(g))
<1> DEFINE legacy == LegacyVersions(g.manifest)
           loader == NewLoader(g.cache, g.out["gen/api"], legacy)
           next == Generate(g, legacy, loader)
<1>1. \/ Wire(g) \in {g, Fails(g)}
      \/ g.manifest # Failed /\ Wire(g) = Migrate(next)
  BY DEF Wire
<1> HIDE DEF legacy, loader
<1>2. HandKept(g, next) /\ IsGen(next) /\ next.manifest = g.manifest
  BY GenerateElsewhere, ElsewhereKeeps DEF Elsewhere
<1> HIDE DEF next
<1>3. g.manifest # Failed => HandKept(g, Migrate(next))
  BY <1>2, MigrateKeeps, HandKeptTwice
<1>. QED
  BY <1>1, <1>3, NothingWritten, ElsewhereKeeps

LEMMA MainKeeps ==
    ASSUME NEW g, IsGen(g)
    PROVE  HandKept(g, Main(g))
<1> DEFINE renders == "main" \in g.stages /\ (g.force \/ ShouldTrackGeneratedMain(g.out))
           main == [Header |-> TRUE, Body |-> M!GenerateMain(g.manifest)]
           file == IF renders THEN main ELSE g.out["cmd/main.go"]
           name == g.manifest.Service.Name
           Set(h, t, x) == [h EXCEPT !.out = [h.out EXCEPT ![t] = x]]
           first == Set(g, "cmd/main.go", file)
           second == Set(first, ".cursor/rules", name)
           third == Set(second, "docs/PROTO_REGISTRY.md", name)
<1>1. Main(g) \in {g, Fails(g), third}
  <2> HIDE DEF renders, main, name
  <2>1. [g EXCEPT !.out["cmd/main.go"] = IF renders THEN main ELSE @,
                  !.out[".cursor/rules"] = name,
                  !.out["docs/PROTO_REGISTRY.md"] = name] = third
    OBVIOUS
  <2> HIDE DEF third
  <2>. QED
    BY <2>1 DEF Main, renders, main, name
<1>2. g.out["cmd/main.go"] # Nil /\ ~g.out["cmd/main.go"].Header /\ ~g.force
        => file = g.out["cmd/main.go"]
  BY DEF ShouldTrackGeneratedMain, Managed
<1>3. "cmd/main.go" \in HandFiles \ {Migration} /\ Shaped("cmd/main.go", file)
  <2>1. "cmd/main.go" \in HandFiles \ {Migration} /\ "cmd/main.go" \in TargetSet
    BY DEF HandFiles, Migration, TargetSet
  <2>2. Shaped("cmd/main.go", main) /\ Shaped("cmd/main.go", g.out["cmd/main.go"])
    BY <2>1, ShapedOther DEF IsGen
  <2>. QED
    BY <2>1, <2>2
<1> HIDE DEF renders, main, file, name
<1>4. HandKept(g, first)
  BY <1>2, <1>3, FileWritten
<1> HIDE DEF first
<1>5. Elsewhere(first, second)
  BY <1>4, OutputWritten, Others, ShapedOther DEF HandKept
<1>6. Elsewhere(first, third)
  <2> HIDE DEF second
  <2>. QED
    BY <1>5, WrittenAgain, Others, ShapedOther
<1> HIDE DEF third
<1>7. HandKept(g, third)
  BY <1>4, <1>6, ElsewhereKeeps, HandKeptTwice
<1>. QED
  BY <1>1, <1>7, NothingWritten, ElsewhereKeeps

\* A group of stages keeps what is people's.
LEMMA RunKeeps ==
    ASSUME OutInv, NEW group, NEW path, NEW force, NEW cache
    PROVE  /\ Run(group, path, force, cache).out =
                [t \in TargetSet |-> Run(group, path, force, cache).out[t]]
           /\ \A t \in TargetSet : Shaped(t, Run(group, path, force, cache).out[t])
           /\ \A t \in HandFiles :
                HandWritten(t) /\ (force => t # "cmd/main.go")
                  => Run(group, path, force, cache).out[t] = out[t]
           /\ NoDatabase(M!Load(M!LoadProto(path, Found, src.manifest)))
                => Run(group, path, force, cache).out[Migration] = out[Migration]
<1> DEFINE manifest == M!Load(M!LoadProto(path, Found, src.manifest))
           g0 == [stages |-> group, manifest |-> manifest, force |-> force,
                  out |-> out, cache |-> cache, ok |-> TRUE]
           g1 == Buf(g0)
           g2 == Split(g1)
           g3 == Wire(g2)
           g4 == Sqlc(g3)
           g5 == Cql(g4)
           g6 == Main(g5)
<1>1. Run(group, path, force, cache) = g6
  BY DEF Run
<1> HIDE DEF manifest
<1>2. IsGen(g0) /\ g0.out = out /\ g0.force = force /\ g0.manifest = manifest
  BY DEF OutInv, IsGen
<1> HIDE DEF g0
<1>3. HandKept(g0, g1)
  BY <1>2, BufElsewhere, ElsewhereKeeps
<1> HIDE DEF g1
<1>4. HandKept(g0, g2)
  BY <1>3, SplitElsewhere, ElsewhereKeeps, HandKeptTwice DEF HandKept
<1> HIDE DEF g2
<1>5. HandKept(g0, g3)
  BY <1>4, WireKeeps, HandKeptTwice DEF HandKept
<1> HIDE DEF g3
<1>6. HandKept(g0, g4)
  BY <1>5, SqlcElsewhere, ElsewhereKeeps, HandKeptTwice DEF HandKept
<1> HIDE DEF g4
<1>7. HandKept(g0, g5)
  BY <1>6, CqlElsewhere, ElsewhereKeeps, HandKeptTwice DEF HandKept
<1> HIDE DEF g5
<1>8. HandKept(g0, g6)
  BY <1>7, MainKeeps, HandKeptTwice DEF HandKept
<1> HIDE DEF g6
<1>. QED
  BY <1>1, <1>2, <1>8 DEF HandKept, IsGen, HandWritten, manifest
-----------------------------------------------------------------------------
(* The steps.                                                                *)

\* What HandWrittenKept says of a step.
Kept == edits' = edits /\ InService => SourcesKept /\ VersionsKept /\ FilesKept /\ SectionsKept

LEMMA PrefixKept ==
    ASSUME NEW S, NEW s \in Seq(S), NEW x \in S
    PROVE  IsPrefix(s, s) /\ IsPrefix(s, Append(s, x)) /\ Append(s, x) \in Seq(S)
<1>1. Append(s, x) \in Seq(S) /\ Len(Append(s, x)) = Len(s) + 1 /\ Len(s) \in Nat
  OBVIOUS
<1>2. SubSeq(s, 1, Len(s)) = s
  OBVIOUS
<1>3. SubSeq(Append(s, x), 1, Len(s)) = s
  OBVIOUS
<1>. QED
  BY <1>1, <1>2, <1>3 DEF IsPrefix

LEMMA SourcesQuiet ==
    ASSUME IInv, UNCHANGED src
    PROVE  SrcInv' /\ SourcesKept /\ VersionsKept /\ SectionsKept
<1>1. SrcInv' /\ SourcesKept /\ SectionsKept
  BY DEF IInv, SrcInv, SourcesKept, SectionsKept
<1>2. \A v \in Versions : src.frozen[v] # Nil => IsPrefix(src.frozen[v], src.frozen[v])
  BY PrefixKept DEF IInv, SrcInv, HubNumbers
<1>. QED
  BY <1>1, <1>2 DEF VersionsKept

LEMMA OutQuiet ==
    ASSUME IInv, UNCHANGED out
    PROVE  OutInv' /\ FilesKept
BY DEF IInv, OutInv, FilesKept

LEMMA IdleFields ==
    /\ DOMAIN Idle = {"cmd", "pc", "path", "todo", "flags", "again", "force", "cache", "targets",
                      "snapshot", "version", "result", "found", "alone"}
    /\ Idle.pc = "done" /\ Idle.cmd = "none"
BY DEF Idle

LEMMA Ended ==
    ASSUME End
    PROVE  ToolInv' /\ CopyInv'
BY IdleFields DEF End, ToolInv, CopyInv

\* A step of another actor.
LEMMA ToolQuiet ==
    ASSUME ToolInv, tool' \in {tool, [tool EXCEPT !.alone = FALSE]}
    PROVE  ToolInv' /\ tool'.pc = tool.pc /\ tool'.version = tool.version
<1>1. CASE tool' = tool
  BY <1>1 DEF ToolInv, Claimed
<1>2. CASE tool' = [tool EXCEPT !.alone = FALSE]
  BY <1>2, IdleFields DEF ToolInv, Claimed
<1>. QED
  BY <1>1, <1>2

\* A command that begins.
LEMMA StartedFields ==
    ASSUME NEW cmd
    PROVE  /\ DOMAIN Started(cmd) = DOMAIN Idle /\ Started(cmd).cmd = cmd
           /\ Started(cmd).pc = "gen" /\ Started(cmd).force = FALSE
BY DEF Started, Idle

LEMMA InitServiceKeeps ==
    ASSUME IInv, InitService
    PROVE  IInv' /\ Kept
<1> DEFINE some == UNION {M!TemplatesOf(t) : t \in
                     {"postgres", "kafka", "nats", "obs", "redis", "s3", "cassandra"}}
<1>1. src' = [src EXCEPT !.manifest = Scaffold, !.hub = 1, !.queries = 1, !.files = some]
  BY DEF InitService, Scaffolded
<1> HIDE DEF some
<1>2. SrcInv'
  BY <1>1, WorkspaceAssumption DEF IInv, SrcInv, HubNumbers
<1>3. OutInv'
  <2> DEFINE file == [Header |-> FALSE, Body |-> {}]
  <2>1. out' = [out EXCEPT !["migrations/001_init.sql"] = file]
    BY DEF InitService
  <2>2. Shaped("migrations/001_init.sql", file)
    BY ShapedOther DEF HandFiles, Migration
  <2> HIDE DEF file
  <2>. QED
    BY <2>1, <2>2 DEF IInv, OutInv, TargetSet
<1>4. PICK todo : tool' = [Started("init") EXCEPT !.force = TRUE, !.todo = todo]
  BY DEF InitService
<1>5. /\ DOMAIN tool' = DOMAIN Idle /\ tool'.cmd = "init" /\ tool'.pc = "gen"
  BY <1>4, StartedFields, IdleFields
<1>6. ToolInv' /\ CopyInv'
  BY <1>5 DEF ToolInv, CopyInv, Claimed
<1>. QED
  BY <1>2, <1>3, <1>6 DEF InitService, InService, Kept, IInv

LEMMA GenKeeps ==
    ASSUME IInv, Gen
    PROVE  IInv' /\ Kept
<1>1. PICK todo : tool' = [Started("gen") EXCEPT !.path = "", !.todo = todo]
  BY DEF Gen
<1>2. /\ DOMAIN tool' = DOMAIN Idle /\ tool'.cmd = "gen" /\ tool'.pc = "gen" /\ tool'.force = FALSE
  BY <1>1, StartedFields, IdleFields
<1>3. ToolInv' /\ CopyInv'
  BY <1>2 DEF ToolInv, CopyInv
<1>. QED
  BY <1>3, SourcesQuiet, OutQuiet DEF Gen, Kept, IInv

\* A check that may write main.go tracks it.
LEMMA CheckKeeps ==
    ASSUME IInv, Check
    PROVE  IInv' /\ Kept
<1>1. ToolInv' /\ CopyInv'
  <2>1. CASE End
    BY <2>1, Ended
  <2>2. CASE ~End
    <3> DEFINE tracks == ShouldTrackGeneratedMain(out)
               targets == TrackedTargets(Service)
               New(flags, force) ==
                 [Started("check") EXCEPT
                    !.flags = flags, !.again = "skipBuf" \notin flags, !.todo = Stages(flags),
                    !.force = force, !.targets = targets, !.snapshot = [t \in targets |-> out[t]],
                    !.found = out, !.alone = dev.pc \in {"off", "exited"}]
    <3>1. \E flags : tool' = New(flags, tracks)
      BY <2>2 DEF Check
    <3>2. tracks => "cmd/main.go" \in targets
      BY DEF TrackedTargets, ToSet, Targets
    <3> HIDE DEF targets
    <3>3. \A flags, force :
            LET new == New(flags, force) IN
            /\ DOMAIN new = DOMAIN Idle /\ new.cmd = "check" /\ new.pc = "gen"
            /\ new.targets = targets /\ new.force = force
            /\ new.snapshot = [t \in targets |-> out[t]]
      BY StartedFields, IdleFields
    <3> HIDE DEF New
    <3>4. /\ DOMAIN tool' = DOMAIN Idle /\ tool'.cmd = "check" /\ tool'.pc = "gen"
          /\ tool'.targets = targets /\ tool'.force = tracks
          /\ tool'.snapshot = [t \in targets |-> out[t]]
      BY <3>1, <3>3
    <3>5. tool'.force => "cmd/main.go" \in tool'.targets
      BY <3>2, <3>4
    <3>6. targets \subseteq TargetSet
      BY DEF targets, TrackedTargets, ToSet, Targets, TargetSet
    <3>7. tool'.targets \subseteq TargetSet /\ \A t \in tool'.targets : Shaped(t, tool'.snapshot[t])
      BY <3>4, <3>6 DEF IInv, OutInv
    <3>. QED
      BY <3>4, <3>5, <3>7 DEF ToolInv, CopyInv, Claimed
  <2>. QED
    BY <2>1, <2>2
<1>. QED
  BY <1>1, SourcesQuiet, OutQuiet DEF Check, Kept, IInv

LEMMA AddServiceKeeps ==
    ASSUME M!NilIsNoRecord, IInv, Add
    PROVE  IInv' /\ Kept
<1>1. PICK target \in AddTargets, gen \in BOOLEAN :
        LET manifest == IF ManifestPath = Failed THEN Failed ELSE M!Add(src.manifest, target)
            brought == M!TemplatesOf(target) \ src.files
        IN  IF manifest = Failed
            THEN /\ End
                 /\ UNCHANGED <<src, dev>>
            ELSE /\ src' = [src EXCEPT !.manifest = manifest, !.files = @ \cup brought,
                               !.queries = IF @ = 0 /\ "queries/app.sql" \in brought THEN 1 ELSE @]
                 /\ Touch({"manifest", "configs"})
                 /\ tool' = [Started("add") EXCEPT !.version = target,
                                !.todo = IF gen THEN Stages({}) ELSE <<>>]
  BY DEF Add
<1> DEFINE manifest == IF ManifestPath = Failed THEN Failed ELSE M!Add(src.manifest, target)
           brought == M!TemplatesOf(target) \ src.files
<1>2. /\ UNCHANGED <<out, edits>> /\ tool.pc = "done" /\ src.manifest # Nil
  BY DEF Add, Ready, InService
<1>3. CASE End /\ UNCHANGED src
  BY <1>2, <1>3, Ended, SourcesQuiet, OutQuiet DEF Kept, IInv
<1>4. CASE ~(End /\ UNCHANGED src)
  <2>1. /\ manifest # Failed
        /\ src' = [src EXCEPT !.manifest = manifest, !.files = @ \cup brought,
                               !.queries = IF @ = 0 /\ "queries/app.sql" \in brought THEN 1 ELSE @]
    BY <1>1, <1>4
  <2>2. PICK todo : tool' = [Started("add") EXCEPT !.version = target, !.todo = todo]
    BY <1>1, <1>4
  <2>3. /\ M!IsManifest(manifest)
        /\ \A f \in DOMAIN M!Meaning(src.manifest) \ {M!SectionOf(target)} :
             M!Meaning(manifest)[f] = M!Meaning(src.manifest)[f]
    BY <1>2, <2>1, AddKeeps DEF IInv, SrcInv
  <2>4. /\ DOMAIN tool' = DOMAIN Idle /\ tool'.cmd = "add" /\ tool'.pc = "gen"
        /\ tool'.version = target /\ tool'.force = FALSE
    BY <2>2, StartedFields, IdleFields
  <2> HIDE DEF manifest, brought
  <2>5. /\ src'.manifest = manifest /\ src'.hub = src.hub /\ src'.manual = src.manual
        /\ src'.cql = src.cql /\ src'.frozen = src.frozen /\ DOMAIN src' = DOMAIN src
        /\ src.queries # 0 => src'.queries = src.queries
    BY <2>1 DEF IInv, SrcInv
  <2>6. SrcInv' /\ SourcesKept
    BY <2>3, <2>5 DEF IInv, SrcInv, SourcesKept
  <2>7. ToolInv' /\ CopyInv'
    BY <2>4 DEF ToolInv, CopyInv
  <2>8. VersionsKept
    BY <1>2, <2>5 DEF VersionsKept
  <2>9. SectionsKept
    BY <1>2, <2>3, <2>4, <2>5 DEF SectionsKept, Concerned, IInv, ToolInv
  <2>. QED
    BY <1>2, <2>6, <2>7, <2>8, <2>9, OutQuiet DEF Kept, IInv
<1>. QED
  BY <1>3, <1>4

LEMMA FreezeKeeps ==
    ASSUME IInv, Freeze
    PROVE  IInv' /\ Kept
<1>1. UNCHANGED <<out, edits>> /\ tool.pc = "done"
  BY DEF Freeze, Ready
<1>2. CASE End /\ UNCHANGED src
  BY <1>1, <1>2, Ended, SourcesQuiet, OutQuiet DEF Kept, IInv
<1>3. CASE ~(End /\ UNCHANGED src)
  <2>1. PICK v \in Versions :
          /\ src.frozen[v] = Nil
          /\ tool' = [Started("freeze") EXCEPT !.pc = "copy", !.version = v]
          /\ src' = [src EXCEPT !.frozen[v] = <<>>]
    BY <1>3 DEF Freeze
  <2>2. /\ DOMAIN tool' = DOMAIN Idle /\ tool'.cmd = "freeze" /\ tool'.pc = "copy"
        /\ tool'.version = v /\ tool'.force = FALSE
    BY <2>1, StartedFields, IdleFields
  <2>3. /\ src'.manifest = src.manifest /\ src'.hub = src.hub /\ src'.manual = src.manual
        /\ src'.cql = src.cql /\ src'.queries = src.queries /\ DOMAIN src' = DOMAIN src
        /\ DOMAIN src'.frozen = Versions /\ src'.frozen[v] = <<>>
        /\ \A w \in Versions \ {v} : src'.frozen[w] = src.frozen[w]
    BY <2>1 DEF IInv, SrcInv
  <2>4. <<>> \in Seq(HubNumbers)
    OBVIOUS
  <2>5. SrcInv' /\ SourcesKept /\ SectionsKept
    BY <2>3, <2>4 DEF IInv, SrcInv, SourcesKept, SectionsKept
  <2>6. ToolInv' /\ CopyInv'
    BY <2>2, <2>3, <2>4 DEF ToolInv, CopyInv
  <2>7. VersionsKept
    BY <1>1, <2>1, <2>3 DEF VersionsKept
  <2>. QED
    BY <1>1, <2>5, <2>6, <2>7, OutQuiet DEF Kept, IInv
<1>. QED
  BY <1>2, <1>3

LEMMA ToolStageKeeps ==
    ASSUME IInv, ToolStage
    PROVE  IInv' /\ Kept
<1> DEFINE step == Run(Head(tool.todo), tool.path, tool.force, tool.cache)
<1>1. /\ out' = step.out /\ UNCHANGED <<src, edits>> /\ tool.pc = "gen"
      /\ \/ \E todo, cache : tool' = [tool EXCEPT !.todo = todo, !.cache = cache]
         \/ /\ tool.cmd = "check"
            /\ tool' = [tool EXCEPT !.pc = "restore", !.todo = <<>>, !.result = "failed"]
         \/ End
  BY DEF ToolStage
<1>2. /\ step.out = [t \in TargetSet |-> step.out[t]] /\ \A t \in TargetSet : Shaped(t, step.out[t])
      /\ \A t \in HandFiles :
           HandWritten(t) /\ (tool.force => t # "cmd/main.go") => step.out[t] = out[t]
  BY RunKeeps DEF IInv
<1> HIDE DEF step
<1>3. OutInv' /\ FilesKept
  <2>1. tool.force => Claimed("cmd/main.go")
    BY <1>1 DEF IInv, ToolInv
  <2>. QED
    BY <1>1, <1>2, <2>1 DEF OutInv, FilesKept, HandFiles, Migration
<1>4. ToolInv' /\ CopyInv'
  <2>1. ASSUME NEW todo, NEW cache, tool' = [tool EXCEPT !.todo = todo, !.cache = cache]
        PROVE  ToolInv' /\ CopyInv'
    BY <1>1, <2>1, IdleFields DEF IInv, ToolInv, CopyInv, Claimed
  <2>2. CASE /\ tool.cmd = "check"
             /\ tool' = [tool EXCEPT !.pc = "restore", !.todo = <<>>, !.result = "failed"]
    BY <1>1, <2>2, IdleFields DEF IInv, ToolInv, CopyInv, Claimed
  <2>. QED
    BY <1>1, <2>1, <2>2, Ended
<1>. QED
  BY <1>1, <1>3, <1>4, SourcesQuiet DEF Kept, IInv

LEMMA ToolProgramFailsKeeps ==
    ASSUME IInv, ToolProgramFails
    PROVE  IInv' /\ Kept
<1>1. CASE End
  BY <1>1, Ended, SourcesQuiet, OutQuiet DEF ToolProgramFails, Kept, IInv
<1>2. CASE ~End
  <2>1. /\ tool.cmd = "check" /\ tool.pc = "gen" /\ UNCHANGED <<src, out, edits>>
        /\ tool' = [tool EXCEPT !.pc = "restore", !.todo = <<>>, !.result = "failed"]
    BY <1>2 DEF ToolProgramFails
  <2>2. ToolInv' /\ CopyInv'
    BY <2>1, IdleFields DEF IInv, ToolInv, CopyInv, Claimed
  <2>. QED
    BY <2>1, <2>2, SourcesQuiet, OutQuiet DEF Kept, IInv
<1>. QED
  BY <1>1, <1>2

LEMMA ToolEndsKeeps ==
    ASSUME IInv, ToolDone \/ FreezeFails
    PROVE  IInv' /\ Kept
BY Ended, SourcesQuiet, OutQuiet DEF ToolDone, FreezeFails, Kept, IInv

LEMMA CheckGeneratedKeeps ==
    ASSUME IInv, CheckGenerated
    PROVE  IInv' /\ Kept
<1>1. /\ tool.cmd = "check" /\ tool.pc = "gen" /\ UNCHANGED <<src, out, edits>>
      /\ \/ \E todo : tool' = [tool EXCEPT !.todo = todo, !.again = FALSE]
         \/ \E result : tool' = [tool EXCEPT !.pc = "restore", !.result = result]
  BY DEF CheckGenerated
<1>2. ASSUME NEW todo, tool' = [tool EXCEPT !.todo = todo, !.again = FALSE]
      PROVE  ToolInv' /\ CopyInv'
  BY <1>1, <1>2, IdleFields DEF IInv, ToolInv, CopyInv, Claimed
<1>3. ASSUME NEW result, tool' = [tool EXCEPT !.pc = "restore", !.result = result]
      PROVE  ToolInv' /\ CopyInv'
  BY <1>1, <1>3, IdleFields DEF IInv, ToolInv, CopyInv, Claimed
<1>. QED
  BY <1>1, <1>2, <1>3, SourcesQuiet, OutQuiet DEF Kept, IInv

\* A check writes back what it tracks, and nothing else.
LEMMA RestoresKeep ==
    ASSUME IInv, CheckRestores \/ CheckRestoreStops
    PROVE  IInv' /\ Kept
<1>1. tool.pc = "restore" /\ tool.cmd = "check" /\ End /\ UNCHANGED <<src, edits>>
  BY DEF CheckRestores, CheckRestoreStops, IInv, ToolInv
<1>2. DOMAIN out = TargetSet
  BY DEF IInv, OutInv
<1>3. \A upTo : /\ Restored(upTo) = [t \in TargetSet |-> Restored(upTo)[t]]
                /\ \A t \in TargetSet : Shaped(t, Restored(upTo)[t])
                /\ \A t \in TargetSet \ tool.targets : Restored(upTo)[t] = out[t]
  <2>1. \A t \in tool.targets : Shaped(t, tool.snapshot[t])
    BY <1>1 DEF IInv, ToolInv
  <2>2. \A t \in TargetSet : Shaped(t, out[t])
    BY DEF IInv, OutInv
  <2>. QED
    BY <1>2, <2>1, <2>2 DEF Restored
<1>4. \E upTo : \/ out' = Restored(upTo)
                \/ \E t \in tool.targets : \E x :
                     Shaped(t, x) /\ out' = [Restored(upTo) EXCEPT ![t] = x]
  <2>1. CASE CheckRestores
    BY <2>1 DEF CheckRestores
  <2>2. CASE CheckRestoreStops
    <3>1. PICK i \in DOMAIN Targets :
            /\ Targets[i] \in tool.targets
            /\ out' = [Restored(i - 1) EXCEPT ![Targets[i]] = Absent(Targets[i])]
      BY <2>2 DEF CheckRestoreStops
    <3>2. Shaped(Targets[i], Absent(Targets[i]))
      <4>1. Targets[i] \in TargetSet
        BY DEF Targets, TargetSet
      <4>. QED
        BY <4>1, ShapedAbsent
    <3>. QED
      BY <3>1, <3>2
  <2>. QED
    BY <2>1, <2>2
<1>5. /\ out' = [t \in TargetSet |-> out'[t]] /\ \A t \in TargetSet : Shaped(t, out'[t])
      /\ \A t \in TargetSet \ tool.targets : out'[t] = out[t]
  <2>1. PICK upTo : \/ out' = Restored(upTo)
                    \/ \E t \in tool.targets : \E x :
                         Shaped(t, x) /\ out' = [Restored(upTo) EXCEPT ![t] = x]
    BY <1>4
  <2> DEFINE o == Restored(upTo)
  <2> HIDE DEF o
  <2>2. /\ o = [t \in TargetSet |-> o[t]] /\ \A t \in TargetSet : Shaped(t, o[t])
        /\ \A t \in TargetSet \ tool.targets : o[t] = out[t]
    BY <1>3 DEF o
  <2>3. CASE out' = o
    BY <2>2, <2>3
  <2>4. ASSUME NEW t \in tool.targets, NEW x, Shaped(t, x),
               out' = [o EXCEPT ![t] = x]
        PROVE  /\ out' = [u \in TargetSet |-> out'[u]] /\ \A u \in TargetSet : Shaped(u, out'[u])
               /\ \A u \in TargetSet \ tool.targets : out'[u] = out[u]
    BY <2>2, <2>4
  <2>. QED
    BY <2>1, <2>3, <2>4 DEF o
<1>6. OutInv' /\ FilesKept
  BY <1>1, <1>5 DEF OutInv, FilesKept, Claimed, TargetSet
<1>. QED
  BY <1>1, <1>6, Ended, SourcesQuiet DEF Kept, IInv

LEMMA FreezeFileKeeps ==
    ASSUME IInv, FreezeFile
    PROVE  IInv' /\ Kept
<1> DEFINE v == tool.version
<1>1. /\ tool.pc = "copy" /\ v \in Versions /\ UNCHANGED <<out, tool, edits>>
      /\ src' = [src EXCEPT !.frozen[v] = Append(@, src.hub)]
  BY DEF FreezeFile, IInv, ToolInv
<1>2. /\ src.frozen[v] \in Seq(HubNumbers) /\ IsPrefix(src.frozen[v], Append(src.frozen[v], src.hub))
      /\ Append(src.frozen[v], src.hub) \in Seq(HubNumbers)
  BY <1>1, PrefixKept DEF IInv, SrcInv, CopyInv
<1> HIDE DEF v
<1>3. /\ src'.manifest = src.manifest /\ src'.hub = src.hub /\ src'.manual = src.manual
      /\ src'.cql = src.cql /\ src'.queries = src.queries /\ DOMAIN src' = DOMAIN src
      /\ DOMAIN src'.frozen = Versions /\ src'.frozen[v] = Append(src.frozen[v], src.hub)
      /\ \A w \in Versions \ {v} : src'.frozen[w] = src.frozen[w]
  BY <1>1 DEF IInv, SrcInv
<1>4. SrcInv' /\ SourcesKept /\ SectionsKept
  BY <1>2, <1>3 DEF IInv, SrcInv, SourcesKept, SectionsKept
<1>5. VersionsKept
  BY <1>1, <1>2, <1>3 DEF VersionsKept, v
<1>6. ToolInv' /\ CopyInv'
  <2>1. tool' = tool
    BY <1>1
  <2>2. ToolInv'
    BY <2>1, ToolQuiet DEF IInv
  <2>3. CopyInv'
    BY <1>2, <1>3, <2>1 DEF CopyInv, v
  <2>. QED
    BY <2>2, <2>3
<1>. QED
  BY <1>1, <1>4, <1>5, <1>6, OutQuiet DEF Kept, IInv

LEMMA FreezeManifestKeeps ==
    ASSUME M!NilIsNoRecord, IInv, FreezeManifest
    PROVE  IInv' /\ Kept
<1> DEFINE pb == M!LoadProto(ManifestPath, Found, src.manifest)
           patched == M!EnableCompatibility(M!FromProto(pb))
           manifest == IF pb = Failed THEN Failed ELSE M!Update(patched)
<1>1. UNCHANGED <<out, edits>> /\ End /\ tool.pc = "copy" /\ tool.cmd = "freeze"
  BY DEF FreezeManifest, IInv, ToolInv
<1>2. CASE UNCHANGED src
  BY <1>1, <1>2, Ended, SourcesQuiet, OutQuiet DEF Kept, IInv
<1>3. CASE ~UNCHANGED src
  <2>1. manifest # Failed /\ src' = [src EXCEPT !.manifest = manifest]
    BY <1>3 DEF FreezeManifest
  <2>2. pb = src.manifest /\ pb # Nil /\ M!Update(patched) # Failed /\ manifest = M!Update(patched)
    BY <2>1 DEF M!LoadProto
  <2>3. M!IsManifest(pb)
    BY <2>2 DEF IInv, SrcInv
  <2>4. Patches(M!FromProto(pb), patched, "Compatibility")
    BY <2>3, Structs, AddsTheRest
  <2> HIDE DEF pb, patched, manifest
  <2>5. /\ M!IsManifest(manifest)
        /\ \A f \in DOMAIN M!Meaning(pb) \ {"Compatibility"} :
             M!Meaning(manifest)[f] = M!Meaning(pb)[f]
    BY <2>2, <2>3, <2>4, PatchKeeps
  <2>6. /\ src'.manifest = manifest /\ src'.hub = src.hub /\ src'.manual = src.manual
        /\ src'.cql = src.cql /\ src'.frozen = src.frozen /\ DOMAIN src' = DOMAIN src
        /\ src'.queries = src.queries
    BY <2>1 DEF IInv, SrcInv
  <2>7. SrcInv' /\ SourcesKept
    BY <2>5, <2>6 DEF IInv, SrcInv, SourcesKept
  <2>8. VersionsKept
    <3>1. \A v \in Versions : src.frozen[v] # Nil => IsPrefix(src.frozen[v], src.frozen[v])
      BY PrefixKept DEF IInv, SrcInv, HubNumbers
    <3>. QED
      BY <2>6, <3>1 DEF VersionsKept
  <2>9. SectionsKept
    BY <1>1, <2>2, <2>5, <2>6 DEF SectionsKept, Concerned
  <2>. QED
    BY <1>1, <2>7, <2>8, <2>9, Ended, OutQuiet DEF Kept, IInv
<1>. QED
  BY <1>2, <1>3

\* The steps of zengo dev.
LEMMA DevKeeps ==
    ASSUME IInv,
           DevStarts \/ DevInterrupts \/ DevRestarts \/ DevTick \/ DevProgramFails
             \/ ChildEnds \/ DevCancelled
    PROVE  IInv' /\ Kept
<1>1. UNCHANGED <<src, out, edits>> /\ tool' \in {tool, [tool EXCEPT !.alone = FALSE]}
  BY DEF DevStarts, DevInterrupts, DevRestarts, DevTick, DevProgramFails, ChildEnds, DevCancelled
<1>2. ToolInv' /\ CopyInv'
  BY <1>1, ToolQuiet DEF IInv, CopyInv
<1>. QED
  BY <1>1, <1>2, SourcesQuiet, OutQuiet DEF Kept, IInv

LEMMA DevStageKeeps ==
    ASSUME IInv, DevStage
    PROVE  IInv' /\ Kept
<1> DEFINE step == Run(Head(dev.todo), "zengo.textproto", FALSE, dev.cache)
<1>1. out' = step.out /\ UNCHANGED <<src, tool, edits>>
  BY DEF DevStage
<1>2. /\ step.out = [t \in TargetSet |-> step.out[t]] /\ \A t \in TargetSet : Shaped(t, step.out[t])
      /\ \A t \in HandFiles : HandWritten(t) => step.out[t] = out[t]
  <2>1. ASSUME NEW force, ~force
        PROVE  LET o == Run(Head(dev.todo), "zengo.textproto", force, dev.cache).out
               IN  /\ o = [t \in TargetSet |-> o[t]] /\ \A t \in TargetSet : Shaped(t, o[t])
                   /\ \A t \in HandFiles : HandWritten(t) => o[t] = out[t]
    BY <2>1, RunKeeps DEF IInv
  <2>. QED
    BY <2>1, Zenon
<1> HIDE DEF step
<1>3. OutInv' /\ FilesKept
  BY <1>1, <1>2 DEF OutInv, FilesKept, HandFiles, Migration
<1>4. ToolInv' /\ CopyInv'
  BY <1>1, ToolQuiet DEF IInv, CopyInv
<1>. QED
  BY <1>1, <1>3, <1>4, SourcesQuiet DEF Kept, IInv

\* The edits of people may change anything, but keep the invariant.
LEMMA EditKeeps ==
    ASSUME IInv,
           EditHub \/ RemoveVersion \/ EditManifest \/ CopyManifest \/ WriteManual
             \/ EditQueries \/ EditCql \/ TakeOver
    PROVE  IInv' /\ Kept
<1>1. edits' = edits + 1 /\ tool' = [tool EXCEPT !.alone = FALSE]
  BY DEF EditHub, RemoveVersion, EditManifest, CopyManifest, WriteManual, EditQueries, EditCql,
         TakeOver, Edit
<1>2. edits' \in Nat /\ Kept
  BY <1>1 DEF Kept, IInv
<1>3. ToolInv' /\ tool'.pc = tool.pc /\ tool'.version = tool.version
  BY <1>1, ToolQuiet DEF IInv
<1>4. OutInv'
  <2>1. CASE TakeOver
    <3>1. PICK t \in {"cmd/main.go", "migrations/001_init.sql"} :
            out[t] # Nil /\ out' = [out EXCEPT ![t].Header = FALSE]
      BY <2>1 DEF TakeOver
    <3>2. t \in TargetSet /\ t \in HandFiles
      BY DEF TargetSet, HandFiles, Migration
    <3> DEFINE Taken(b) == [out[t] EXCEPT !.Header = b]
               file == Taken(FALSE)
    <3>3. Shaped(t, file)
      <4>1. IsFile(out[t])
        BY <3>1, <3>2 DEF IInv, OutInv, Shaped
      <4>2. \A b : Taken(b) = [Header |-> b, Body |-> out[t].Body]
        BY <4>1 DEF IsFile
      <4> HIDE DEF Taken
      <4>3. Shaped(t, [Header |-> FALSE, Body |-> out[t].Body])
        BY <3>2, ShapedOther
      <4>4. file = [Header |-> FALSE, Body |-> out[t].Body]
        BY <4>2
      <4>. QED
        BY <4>3, <4>4
    <3>4. out' = [out EXCEPT ![t] = file]
      BY <3>1
    <3> HIDE DEF file
    <3>. QED
      BY <3>2, <3>3, <3>4 DEF IInv, OutInv
  <2>2. CASE ~TakeOver
    BY <2>2 DEF EditHub, RemoveVersion, EditManifest, CopyManifest, WriteManual, EditQueries,
                EditCql, IInv, OutInv
  <2>. QED
    BY <2>1, <2>2
<1>5. SrcInv' /\ CopyInv'
  <2>1. CASE EditHub
    <3>1. PICK h \in DOMAIN Hubs : src' = [src EXCEPT !.hub = h]
      BY <2>1 DEF EditHub
    <3>. QED
      BY <1>3, <3>1 DEF IInv, SrcInv, CopyInv, HubNumbers
  <2>2. CASE RemoveVersion
    <3>1. PICK v \in Versions : src' = [src EXCEPT !.frozen[v] = Nil]
      BY <2>2 DEF RemoveVersion
    <3>2. tool.pc # "copy"
      BY <2>2 DEF RemoveVersion
    <3>. QED
      BY <1>3, <3>1, <3>2 DEF IInv, SrcInv, CopyInv
  <2>3. CASE EditManifest
    <3>1. PICK m \in Manifests : src' = [src EXCEPT !.manifest = m]
      BY <2>3 DEF EditManifest
    <3>. QED
      BY <1>3, <3>1, WorkspaceAssumption DEF IInv, SrcInv, CopyInv
  <2>4. CASE CopyManifest \/ EditQueries \/ EditCql
    <3>1. \E x : src' \in {[src EXCEPT !.twin = x], [src EXCEPT !.queries = x], [src EXCEPT !.cql = x]}
      BY <2>4 DEF CopyManifest, EditQueries, EditCql
    <3>. QED
      BY <1>3, <3>1 DEF IInv, SrcInv, CopyInv
  <2>5. CASE WriteManual
    <3>1. \E x : src' = [src EXCEPT !.manual = x]
      BY <2>5 DEF WriteManual
    <3>. QED
      BY <1>3, <3>1 DEF IInv, SrcInv, CopyInv
  <2>6. CASE TakeOver
    BY <1>3, <2>6 DEF TakeOver, IInv, SrcInv, CopyInv
  <2>. QED
    BY <2>1, <2>2, <2>3, <2>4, <2>5, <2>6
<1>. QED
  BY <1>2, <1>3, <1>4, <1>5 DEF IInv

LEMMA WorkspaceInit ==
    ASSUME Init
    PROVE  IInv
<1>1. PICK hub \in {0} \cup BareHubs, old \in SUBSET Versions :
        src = [manifest |-> IF hub = 0 THEN Nil ELSE Bare, hub |-> hub,
               frozen |-> [v \in Versions |-> IF hub # 0 /\ v \in old THEN HubRef(1) ELSE Nil],
               manual |-> [v \in Versions |-> {}], twin |-> FALSE,
               queries |-> 0, cql |-> 0, files |-> {}]
  BY DEF Init
<1>2. HubRef(1) \in Seq(HubNumbers)
  <2>1. NumFiles \in Nat
    BY WorkspaceAssumption
  <2> HIDE DEF NumFiles
  <2>2. HubRef(1) \in [1..NumFiles -> HubNumbers]
    BY DEF HubRef, HubNumbers
  <2>. QED
    BY <2>1, <2>2
<1>3. src.hub \in HubNumbers
  BY <1>1, WorkspaceAssumption DEF HubNumbers
<1>4. DOMAIN src = {"manifest", "hub", "frozen", "manual", "twin", "queries", "cql", "files"}
  BY <1>1
<1>5. src.manifest # Nil => M!IsManifest(src.manifest)
  <2>1. src.manifest \in {Nil, Bare}
    BY <1>1
  <2>. QED
    BY <2>1, WorkspaceAssumption
<1>6. /\ DOMAIN src.frozen = Versions
      /\ \A v \in Versions : src.frozen[v] = Nil \/ src.frozen[v] \in Seq(HubNumbers)
  <2> DEFINE frozen == [v \in Versions |-> IF hub # 0 /\ v \in old THEN HubRef(1) ELSE Nil]
  <2>1. src.frozen = frozen
    BY <1>1
  <2>. QED
    BY <1>2, <2>1
<1>7. SrcInv
  BY <1>3, <1>4, <1>5, <1>6 DEF SrcInv
<1>8. OutInv
  <2>1. ToSet(Targets) = TargetSet
    BY DEF ToSet, Targets, TargetSet
  <2> DEFINE o == [t \in TargetSet |-> Absent(t)]
  <2>2. out = o
    BY <2>1 DEF Init
  <2>3. \A t \in TargetSet : Shaped(t, Absent(t))
    BY ShapedAbsent
  <2>. QED
    BY <2>2, <2>3 DEF OutInv
<1>9. ToolInv /\ CopyInv
  BY IdleFields DEF Init, ToolInv, CopyInv
<1>. QED
  BY <1>7, <1>8, <1>9 DEF Init, IInv

LEMMA WorkspaceStep ==
    ASSUME M!NilIsNoRecord, IInv, [Next]_vars
    PROVE  IInv' /\ [Kept]_vars
<1>1. CASE UNCHANGED vars
  <2>1. UNCHANGED <<src, out, tool, edits>>
    BY <1>1 DEF vars
  <2>2. ToolInv' /\ CopyInv'
    BY <2>1, ToolQuiet DEF IInv, CopyInv
  <2>. QED
    BY <1>1, <2>1, <2>2, SourcesQuiet, OutQuiet DEF IInv
<1>2. CASE Next
  BY <1>2, InitServiceKeeps, GenKeeps, CheckKeeps, AddServiceKeeps, FreezeKeeps, ToolStageKeeps,
     ToolProgramFailsKeeps, ToolEndsKeeps, CheckGeneratedKeeps, RestoresKeep, FreezeFileKeeps,
     FreezeManifestKeeps, DevKeeps, DevStageKeeps, EditKeeps
  DEF Next, ToolStep, DevStep
<1>. QED
  BY <1>1, <1>2

\* The invariant: what people write is as the generators expect it, and a command
\* only ever overwrites a main.go in any case when it has said so.
THEOREM WorkspaceSound == ASSUME M!NilIsNoRecord PROVE Spec => []IInv
<1>1. Init => IInv
  BY WorkspaceInit
<1>2. IInv /\ [Next]_vars => IInv'
  BY WorkspaceStep
<1>. QED
  BY <1>1, <1>2, PTL DEF Spec

\* HandWrittenKept: no command and no reload, in whatever order they and the
\* editor act, changes what people wrote: the hub, a version once it is frozen,
\* a converter, a query, a main.go or a migration without the header that no
\* check and no init under way writes, or a section of the manifest that the
\* command is not about (src/internal/scaffold/add.go,
\* src/internal/manifest/manifest.go, src/cmd/zengo/helpers.go).
THEOREM HandWrittenIsKept == ASSUME M!NilIsNoRecord PROVE Spec => HandWrittenKept
<1>1. Init => IInv
  BY WorkspaceInit
<1>2. IInv /\ [Next]_vars => IInv' /\ [Kept]_vars
  BY WorkspaceStep
<1>3. Spec => [][Kept]_vars
  BY <1>1, <1>2, PTL DEF Spec
<1>. QED
  BY <1>3 DEF HandWrittenKept, Kept
-----------------------------------------------------------------------------
(* What a check leaves behind.                                               *)

\* What a check tracks that finds the outputs o.
Tracked(o) ==
    {t \in TargetSet :
        /\ t = "cmd/main.go" => ShouldTrackGeneratedMain(o)
        /\ t = "gen/openapi" => Service.REST # Nil
        /\ t = Migration =>
             ShouldTrackPostgresMigration(Postgres(Service), o[Migration], RepositorySchema(o))}

\* As long as nobody else acts, what is not tracked stays as it was found.
Undisturbed ==
    /\ dev.pc \in {"off", "exited"}
    /\ tool.targets = Tracked(tool.found)
    /\ tool.force => ShouldTrackGeneratedMain(tool.found)
    /\ \A t \in HandFiles \ (tool.targets \cup Untracked) : out[t] = tool.found[t]

CheckInv ==
    tool.cmd = "check" =>
        /\ tool.snapshot = [t \in tool.targets |-> tool.found[t]]
        /\ tool.alone => Undisturbed

LEMMA TracksAll == TrackedTargets(Service) = Tracked(out)
<1>1. ToSet(Targets) = TargetSet
  BY DEF ToSet, Targets, TargetSet
<1>2. \A t \in TargetSet :
        (CASE t = "cmd/main.go" -> ShouldTrackGeneratedMain(out)
           [] t = "gen/openapi" -> Service.REST # Nil
           [] t = "migrations/001_init.sql" ->
                 ShouldTrackPostgresMigration(Postgres(Service), out[t], RepositorySchema(out))
           [] OTHER -> TRUE)
        <=> /\ t = "cmd/main.go" => ShouldTrackGeneratedMain(out)
            /\ t = "gen/openapi" => Service.REST # Nil
            /\ t = Migration =>
                 ShouldTrackPostgresMigration(Postgres(Service), out[Migration], RepositorySchema(out))
  BY DEF TargetSet, Migration
<1>. QED
  BY <1>1, <1>2 DEF TrackedTargets, Tracked

\* A check begins.
LEMMA CheckBegins ==
    ASSUME IInv, Check
    PROVE  CheckInv'
<1>1. CASE End
  BY <1>1, IdleFields DEF End, CheckInv
<1>2. CASE ~End
  <2> DEFINE tracks == ShouldTrackGeneratedMain(out)
             targets == TrackedTargets(Service)
             quiet == dev.pc \in {"off", "exited"}
             New(flags, force, alone) ==
               [Started("check") EXCEPT
                  !.flags = flags, !.again = "skipBuf" \notin flags, !.todo = Stages(flags),
                  !.force = force, !.targets = targets, !.snapshot = [t \in targets |-> out[t]],
                  !.found = out, !.alone = alone]
  <2>1. \E flags : tool' = New(flags, tracks, quiet)
    BY <1>2 DEF Check
  <2>2. UNCHANGED <<src, out, dev>>
    BY DEF Check
  <2> HIDE DEF targets
  <2>3. \A flags, force, alone :
          LET new == New(flags, force, alone) IN
          /\ new.targets = targets /\ new.force = force /\ new.found = out /\ new.alone = alone
          /\ new.snapshot = [t \in targets |-> out[t]]
    BY StartedFields, IdleFields
  <2> HIDE DEF New
  <2>4. /\ tool'.targets = targets /\ tool'.force = tracks /\ tool'.found = out
        /\ tool'.alone = quiet /\ tool'.snapshot = [t \in targets |-> out[t]]
    BY <2>1, <2>3
  <2>5. Service' = Service
    BY <2>2 DEF Service
  <2>6. tool'.targets = Tracked(tool.found)'
    BY <2>4, <2>5, TracksAll DEF Tracked, targets
  <2>7. tool'.alone => dev'.pc \in {"off", "exited"}
    BY <2>2, <2>4
  <2>8. tool'.force => ShouldTrackGeneratedMain(tool.found)'
    BY <2>4
  <2>9. tool'.alone => Undisturbed'
    BY <2>2, <2>4, <2>6, <2>7, <2>8 DEF Undisturbed
  <2>. QED
    BY <2>4, <2>9 DEF CheckInv
<1>. QED
  BY <1>1, <1>2

\* A stage of the check leaves what it does not track.
LEMMA StageUndisturbed ==
    ASSUME IInv, Undisturbed, tool.cmd = "check", ToolStage
    PROVE  \A t \in HandFiles \ (tool.targets \cup Untracked) : out'[t] = tool.found[t]
<1> SUFFICES ASSUME NEW t \in HandFiles \ (tool.targets \cup Untracked)
             PROVE  out'[t] = tool.found[t]
  OBVIOUS
<1> DEFINE group == Head(tool.todo)
           step == Run(group, tool.path, tool.force, tool.cache)
           manifest == M!Load(M!LoadProto(tool.path, Found, src.manifest))
<1>1. out' = step.out
  BY DEF ToolStage
<1>2. /\ step.out = [u \in TargetSet |-> step.out[u]] /\ \A u \in TargetSet : Shaped(u, step.out[u])
      /\ \A u \in HandFiles :
           HandWritten(u) /\ (tool.force => u # "cmd/main.go") => step.out[u] = out[u]
      /\ NoDatabase(manifest) => step.out[Migration] = out[Migration]
  <2>1. OutInv
    BY DEF IInv
  <2>. QED
    BY <2>1, RunKeeps
<1>3. out[t] = tool.found[t] /\ t \in TargetSet /\ t \notin Tracked(tool.found)
  BY DEF Undisturbed, HandFiles, TargetSet, Migration
<1>4. manifest \in {Failed, Service}
  BY DEF M!LoadProto, M!Load, Service
<1> HIDE DEF step, manifest
<1>5. CASE t = "cmd/main.go"
  <2>1. ~ShouldTrackGeneratedMain(tool.found)
    BY <1>3, <1>5 DEF Tracked, Migration
  <2>2. HandWritten(t) /\ ~tool.force
    BY <1>3, <1>5, <2>1 DEF ShouldTrackGeneratedMain, Managed, HandWritten, Undisturbed
  <2>. QED
    BY <1>1, <1>2, <1>3, <2>2
<1>6. CASE t = Migration
  <2>1. ~ShouldTrackPostgresMigration(Postgres(Service), tool.found[t], RepositorySchema(tool.found))
    BY <1>3, <1>6 DEF Tracked, Migration
  <2>2. ~(tool.found[t] = Nil /\ RepositorySchema(tool.found) \in {Nil, {}})
    BY <1>6 DEF Untracked, Migration
  <2>3. CASE ~Postgres(Service)
    BY <1>1, <1>2, <1>3, <1>4, <1>6, <2>3 DEF NoDatabase
  <2>4. CASE Postgres(Service)
    <3>1. HandWritten(t)
      BY <1>3, <2>1, <2>2, <2>4 DEF ShouldTrackPostgresMigration, HandWritten
    <3>. QED
      BY <1>1, <1>2, <1>3, <1>6, <3>1 DEF Migration
  <2>. QED
    BY <2>3, <2>4
<1>. QED
  BY <1>5, <1>6 DEF HandFiles

\* The command goes on, or ends, or another one begins.
LEMMA CheckGoesOn ==
    ASSUME CheckInv, UNCHANGED <<src, dev>>,
           tool'.cmd = tool.cmd, tool'.snapshot = tool.snapshot, tool'.targets = tool.targets,
           tool'.found = tool.found, tool'.alone = tool.alone, tool'.force = tool.force,
           tool.cmd = "check" /\ tool.alone =>
             \A t \in HandFiles \ (tool.targets \cup Untracked) : out'[t] = tool.found[t]
    PROVE  CheckInv'
<1>1. Service' = Service
  BY DEF Service
<1>2. Untracked' = Untracked
  BY <1>1 DEF Untracked
<1>3. Tracked(tool.found)' = Tracked(tool.found)
  BY <1>1 DEF Tracked
<1>. QED
  BY <1>1, <1>2, <1>3 DEF CheckInv, Undisturbed

\* The steps that do not end in a check.
LEMMA NotACheck ==
    /\ End => tool'.cmd # "check"
    /\ InitService \/ Gen \/ Add \/ Freeze => tool'.cmd # "check"
    /\ ToolDone \/ FreezeFails \/ FreezeManifest \/ CheckRestores \/ CheckRestoreStops => End
<1>1. End => tool'.cmd # "check"
  BY IdleFields DEF End
<1>2. InitService \/ Gen \/ Add \/ Freeze => tool'.cmd # "check"
  <2>1. InitService => tool'.cmd = "init"
    <3>1. InitService => \E todo : tool' = [Started("init") EXCEPT !.force = TRUE, !.todo = todo]
      BY DEF InitService
    <3>. QED
      BY <3>1, StartedFields, IdleFields
  <2>2. Gen => tool'.cmd = "gen"
    <3>1. Gen => \E todo : tool' = [Started("gen") EXCEPT !.path = "", !.todo = todo]
      BY DEF Gen
    <3>. QED
      BY <3>1, StartedFields, IdleFields
  <2>3. Add => End \/ tool'.cmd = "add"
    <3>1. Add => End \/ \E target, todo : tool' = [Started("add") EXCEPT !.version = target, !.todo = todo]
      BY DEF Add
    <3>. QED
      BY <3>1, StartedFields, IdleFields
  <2>4. Freeze => End \/ tool'.cmd = "freeze"
    <3>1. Freeze => End \/ \E v : tool' = [Started("freeze") EXCEPT !.pc = "copy", !.version = v]
      BY DEF Freeze
    <3>. QED
      BY <3>1, StartedFields, IdleFields
  <2>. QED
    BY <1>1, <2>1, <2>2, <2>3, <2>4
<1>3. ToolDone \/ FreezeFails \/ FreezeManifest \/ CheckRestores \/ CheckRestoreStops => End
  BY DEF ToolDone, FreezeFails, FreezeManifest, CheckRestores, CheckRestoreStops
<1>. QED
  BY <1>1, <1>2, <1>3

\* The steps of dev, and those that end the quiet.
LEMMA DevActs ==
    DevStage \/ DevInterrupts \/ DevRestarts \/ DevTick \/ DevProgramFails \/ ChildEnds \/ DevCancelled
      => UNCHANGED tool /\ dev.pc \in {"gen", "wait", "idle"}
BY DEF DevStage, DevInterrupts, DevRestarts, DevTick, DevProgramFails, ChildEnds, DevCancelled

LEMMA Disturbs ==
    DevStarts \/ EditHub \/ RemoveVersion \/ EditManifest \/ CopyManifest \/ WriteManual
      \/ EditQueries \/ EditCql \/ TakeOver
      => tool' = [tool EXCEPT !.alone = FALSE]
BY DEF DevStarts, EditHub, RemoveVersion, EditManifest, CopyManifest, WriteManual, EditQueries,
       EditCql, TakeOver, Edit

LEMMA CheckStep ==
    ASSUME IInv, CheckInv, [Next]_vars
    PROVE  CheckInv'
<1>1. CASE Check
  BY <1>1, CheckBegins
<1>2. CASE tool'.cmd # "check"
  BY <1>2 DEF CheckInv
<1>3. CASE tool' = [tool EXCEPT !.alone = FALSE]
  BY <1>3, IdleFields DEF CheckInv, IInv, ToolInv
<1>4. CASE UNCHANGED vars
  BY <1>4, CheckGoesOn DEF vars, CheckInv, Undisturbed
<1>5. CASE ToolStage /\ ~End
  <2>1. \/ \E todo, cache : tool' = [tool EXCEPT !.todo = todo, !.cache = cache]
        \/ tool' = [tool EXCEPT !.pc = "restore", !.todo = <<>>, !.result = "failed"]
    BY <1>5 DEF ToolStage
  <2>2. /\ tool'.cmd = tool.cmd /\ tool'.snapshot = tool.snapshot /\ tool'.targets = tool.targets
        /\ tool'.found = tool.found /\ tool'.alone = tool.alone /\ tool'.force = tool.force
    BY <2>1, IdleFields DEF IInv, ToolInv
  <2>3. tool.cmd = "check" /\ tool.alone =>
          \A t \in HandFiles \ (tool.targets \cup Untracked) : out'[t] = tool.found[t]
    BY <1>5, StageUndisturbed DEF CheckInv
  <2>4. UNCHANGED <<src, dev>>
    BY <1>5 DEF ToolStage
  <2>. QED
    BY <2>2, <2>3, <2>4, CheckGoesOn
<1>6. CASE (ToolProgramFails \/ CheckGenerated) /\ ~End
  <2>1. \/ \E todo : tool' = [tool EXCEPT !.todo = todo, !.again = FALSE]
        \/ \E result : tool' = [tool EXCEPT !.pc = "restore", !.result = result]
        \/ tool' = [tool EXCEPT !.pc = "restore", !.todo = <<>>, !.result = "failed"]
    BY <1>6 DEF ToolProgramFails, CheckGenerated
  <2>2. /\ tool'.cmd = tool.cmd /\ tool'.snapshot = tool.snapshot /\ tool'.targets = tool.targets
        /\ tool'.found = tool.found /\ tool'.alone = tool.alone /\ tool'.force = tool.force
    BY <2>1, IdleFields DEF IInv, ToolInv
  <2>3. UNCHANGED <<src, out, dev>>
    BY <1>6 DEF ToolProgramFails, CheckGenerated
  <2>. QED
    BY <2>2, <2>3, CheckGoesOn DEF CheckInv, Undisturbed
<1>7. CASE UNCHANGED tool /\ dev.pc \in {"gen", "wait", "idle"}
  <2>1. tool.cmd = "check" => ~tool.alone
    BY <1>7 DEF CheckInv, Undisturbed
  <2>. QED
    BY <1>7, <2>1 DEF CheckInv
<1>8. CASE FreezeFile
  BY <1>8 DEF FreezeFile, IInv, ToolInv, CheckInv
<1>. QED
  BY <1>1, <1>2, <1>3, <1>4, <1>5, <1>6, <1>7, <1>8, NotACheck, DevActs, Disturbs
  DEF Next, ToolStep, DevStep

LEMMA RestoreStep ==
    ASSUME IInv, CheckInv
    PROVE  TargetsRestored
<1> SUFFICES ASSUME CheckRestores, tool.alone, NEW t \in DOMAIN out \ Untracked
             PROVE  out'[t] = tool.found[t]
  BY DEF TargetsRestored
<1>1. tool.cmd = "check" /\ out' = Restored(Len(Targets)) /\ t \in TargetSet
  BY DEF CheckRestores, IInv, ToolInv, OutInv
<1>2. Undisturbed /\ tool.snapshot = [u \in tool.targets |-> tool.found[u]]
  BY <1>1 DEF CheckInv
<1>3. \E i \in 1..Len(Targets) : Targets[i] = t
  <2>1. Len(Targets) = 9
    BY DEF Targets
  <2>2. \E i \in 1..9 : Targets[i] = t
    BY <1>1 DEF Targets, TargetSet
  <2>. QED
    BY <2>1, <2>2
<1>4. CASE t \in tool.targets
  BY <1>1, <1>2, <1>3, <1>4 DEF Restored
<1>5. CASE t \notin tool.targets
  <2>1. out'[t] = out[t]
    BY <1>1, <1>5 DEF Restored
  <2>2. t \in HandFiles
    BY <1>1, <1>2, <1>5 DEF Undisturbed, Tracked, HandFiles, Migration, Untracked
  <2>. QED
    BY <1>2, <1>5, <2>1, <2>2 DEF Undisturbed
<1>. QED
  BY <1>4, <1>5
-----------------------------------------------------------------------------
(* What a check says.                                                        *)

\* The groups of stages a check runs.
Proto == {"buf", "split"}
Reproto == {"split"}
WireGroup == {"wire"}
RestGroup == {"sqlc", "cql", "docs", "main"}

LEMMA ThreeGroups ==
    ASSUME NEW a, NEW b, NEW c
    PROVE  <<a>> \o <<b>> \o <<c>> = <<a, b, c>>
<1> DEFINE S == {a, b, c}
           two == <<a>> \o <<b>>
           three == two \o <<c>>
<1>1. <<a>> \in Seq(S) /\ <<b>> \in Seq(S) /\ <<c>> \in Seq(S) /\ <<a, b, c>> \in Seq(S)
  OBVIOUS
<1>2. two \in Seq(S) /\ Len(two) = 2 /\ two[1] = a /\ two[2] = b
  BY <1>1, ConcatProperties
<1> HIDE DEF S, two
<1>3. three \in Seq(S) /\ Len(three) = 3 /\ three[1] = a /\ three[2] = b /\ three[3] = c
  BY <1>1, <1>2, ConcatProperties
<1> HIDE DEF three
<1>4. three = <<a, b, c>>
  BY <1>1, <1>3, SeqEqual
<1>. QED
  BY <1>4 DEF three, two

LEMMA StagesOfCheck ==
    /\ Stages({"skipBuf"}) = <<Reproto, WireGroup, RestGroup>>
    /\ \A flags \in CheckCommand : "skipGen" \notin flags =>
          Stages(flags) = IF "skipBuf" \in flags THEN <<Reproto, WireGroup, RestGroup>>
                          ELSE <<Proto, WireGroup, RestGroup>>
<1>1. Stages({"skipBuf"}) = <<Reproto, WireGroup, RestGroup>>
  <2> DEFINE flags == {"skipBuf"}
             Unless(some, stage) == IF flags \cap some = {} THEN {stage} ELSE {}
             proto == Unless({"skipBuf", "wireOnly"}, "buf") \cup Unless({"wireOnly"}, "split")
             rest == Unless({"skipSQLC", "wireOnly"}, "sqlc") \cup Unless({"skipCQL", "wireOnly"}, "cql")
                     \cup Unless({"wireOnly"}, "docs") \cup Unless({"skipMain", "wireOnly"}, "main")
  <2>1. proto = Reproto /\ rest = RestGroup /\ "protoOnly" \notin flags
    BY DEF Reproto, RestGroup
  <2>2. Reproto # {} /\ RestGroup # {}
    BY DEF Reproto, RestGroup
  <2>3. Stages(flags) = <<proto>> \o <<{"wire"}>> \o <<rest>>
    <3> HIDE DEF proto, rest
    <3>. QED
      BY <2>1, <2>2 DEF Stages, proto, rest
  <2> HIDE DEF proto, rest
  <2>. QED
    BY <2>1, <2>3, ThreeGroups DEF WireGroup
<1>2. Stages({}) = <<Proto, WireGroup, RestGroup>>
  <2> DEFINE flags == {}
             Unless(some, stage) == IF flags \cap some = {} THEN {stage} ELSE {}
             proto == Unless({"skipBuf", "wireOnly"}, "buf") \cup Unless({"wireOnly"}, "split")
             rest == Unless({"skipSQLC", "wireOnly"}, "sqlc") \cup Unless({"skipCQL", "wireOnly"}, "cql")
                     \cup Unless({"wireOnly"}, "docs") \cup Unless({"skipMain", "wireOnly"}, "main")
  <2>1. proto = Proto /\ rest = RestGroup /\ "protoOnly" \notin flags
    BY DEF Proto, RestGroup
  <2>2. Proto # {} /\ RestGroup # {}
    BY DEF Proto, RestGroup
  <2>3. Stages(flags) = <<proto>> \o <<{"wire"}>> \o <<rest>>
    <3> HIDE DEF proto, rest
    <3>. QED
      BY <2>1, <2>2 DEF Stages, proto, rest
  <2> HIDE DEF proto, rest
  <2>. QED
    BY <2>1, <2>3, ThreeGroups DEF WireGroup
<1>3. \A flags \in CheckCommand : "skipGen" \notin flags => flags = IF "skipBuf" \in flags THEN {"skipBuf"} ELSE {}
  BY DEF CheckCommand
<1>. QED
  BY <1>1, <1>2, <1>3

\* What is there after an output was written, or a stage failed.
LEMMA SetFacts ==
    ASSUME NEW g, IsGen(g), NEW t \in TargetSet, NEW x
    PROVE  LET h == [g EXCEPT !.out = [g.out EXCEPT ![t] = x]] IN
           /\ h.out[t] = x /\ \A u \in TargetSet \ {t} : h.out[u] = g.out[u]
           /\ h.cache = g.cache /\ h.ok = g.ok /\ h.manifest = g.manifest /\ h.stages = g.stages
           /\ h.force = g.force
<1> DEFINE o == [g.out EXCEPT ![t] = x]
           h == [g EXCEPT !.out = o]
<1>1. o[t] = x /\ \A u \in TargetSet \ {t} : o[u] = g.out[u]
  BY DEF IsGen
<1> HIDE DEF o
<1>2. h = [stages |-> g.stages, manifest |-> g.manifest, force |-> g.force, out |-> o,
           cache |-> g.cache, ok |-> g.ok]
  BY DEF IsGen
<1> HIDE DEF h
<1>3. h.out = o /\ h.cache = g.cache /\ h.ok = g.ok /\ h.manifest = g.manifest
      /\ h.stages = g.stages /\ h.force = g.force
  BY <1>2
<1>4. /\ h.out[t] = x /\ \A u \in TargetSet \ {t} : h.out[u] = g.out[u]
      /\ h.cache = g.cache /\ h.ok = g.ok /\ h.manifest = g.manifest /\ h.stages = g.stages
      /\ h.force = g.force
  BY <1>1, <1>3
<1>. QED
  BY <1>4 DEF h, o

LEMMA FailedIsNotOk ==
    ASSUME NEW g, IsGen(g), NEW x
    PROVE  /\ ~Fails(g).ok /\ ~[Fails(g) EXCEPT !.cache = x].ok
           /\ Fails(g).out = g.out /\ Fails(g).cache = g.cache
<1> DEFINE Ending(b) == [g EXCEPT !.ok = b]
<1>1. \A b : Ending(b) = [stages |-> g.stages, manifest |-> g.manifest, force |-> g.force,
                         out |-> g.out, cache |-> g.cache, ok |-> b]
  BY DEF IsGen
<1> HIDE DEF Ending
<1>2. \A b : Ending(b).ok = b /\ [Ending(b) EXCEPT !.cache = x].ok = b
  BY <1>1
<1>3. Fails(g) = Ending(FALSE)
  BY DEF Fails, Ending
<1>4. \A b : Ending(b).out = g.out /\ Ending(b).cache = g.cache
  BY <1>1
<1>5. Ending(FALSE).ok = FALSE /\ [Ending(FALSE) EXCEPT !.cache = x].ok = FALSE
  BY <1>2
<1>. QED
  BY <1>3, <1>4, <1>5

LEMMA SkippedStages ==
    ASSUME NEW g
    PROVE  /\ "buf" \notin g.stages => Buf(g) = g
           /\ "split" \notin g.stages => Split(g) = g
           /\ "wire" \notin g.stages => Wire(g) = g
           /\ "sqlc" \notin g.stages => Sqlc(g) = g
           /\ "cql" \notin g.stages => Cql(g) = g
           /\ "docs" \notin g.stages => Main(g) = g
<1>1. "buf" \notin g.stages => Buf(g) = g
  BY DEF Buf, Skips
<1>2. ASSUME "split" \notin g.stages PROVE Split(g) = g
  <2> DEFINE Same(h) == h = g
  <2>1. ASSUME NEW outcomes PROVE Same(SplitInto(g, outcomes))
    BY <1>2 DEF SplitInto, Skips
  <2> HIDE DEF Same
  <2>2. Same(Split(g))
    BY <2>1 DEF Split
  <2>. QED
    BY <2>2 DEF Same
<1>3. "wire" \notin g.stages => Wire(g) = g
  BY DEF Wire, Skips
<1>4. "sqlc" \notin g.stages => Sqlc(g) = g
  BY DEF Sqlc, Skips
<1>5. "cql" \notin g.stages => Cql(g) = g
  BY DEF Cql, Skips
<1>6. "docs" \notin g.stages => Main(g) = g
  BY DEF Main, Skips
<1>. QED
  BY <1>1, <1>2, <1>3, <1>4, <1>5, <1>6

\* The generated API is that of the sources.
ApiIn(o) ==
    /\ \A seg \in DOMAIN ApiFiles : /\ o["gen/api"][seg] = ApiFiles[seg]
                                    /\ o["gen/zengo"].register[seg] = ApiFiles[seg]
    /\ o["gen/zengo"].schema = src.hub

LEMMA BufFacts ==
    ASSUME NEW g, IsGen(g), "buf" \in g.stages, Buf(g).ok, g.ok
    PROVE  LET h == Buf(g)
           IN  /\ ApiIn(h.out) /\ h.cache = g.cache
               /\ \A seg \in Segments \ DOMAIN ApiFiles :
                    /\ h.out["gen/api"][seg] = g.out["gen/api"][seg]
                    /\ h.out["gen/zengo"].register[seg] = g.out["gen/zengo"].register[seg]
               /\ h.out["gen/openapi"].raw = Beside(g.out["gen/openapi"].raw)
               /\ h.out["gen/openapi"].docs = g.out["gen/openapi"].docs
               /\ \A t \in TargetSet \ {"gen/api", "gen/zengo", "gen/openapi"} : h.out[t] = g.out[t]
<1> DEFINE Over(old) ==
             [seg \in Segments |-> IF seg \in DOMAIN ApiFiles THEN ApiFiles[seg] ELSE old[seg]]
           next == [g EXCEPT !.out["gen/api"] = Over(@),
                             !.out["gen/zengo"].register = Over(@),
                             !.out["gen/zengo"].schema = src.hub,
                             !.out["gen/openapi"].raw = Beside(@)]
           Set(h, t, x) == [h EXCEPT !.out = [h.out EXCEPT ![t] = x]]
           api == Over(g.out["gen/api"])
           first == Set(g, "gen/api", api)
           register == Over(g.out["gen/zengo"].register)
           zengo == [first.out["gen/zengo"] EXCEPT !.register = register]
           second == Set(first, "gen/zengo", zengo)
           last == [second.out["gen/zengo"] EXCEPT !.schema = src.hub]
           third == Set(second, "gen/zengo", last)
           raw == Beside(g.out["gen/openapi"].raw)
           openapi == [third.out["gen/openapi"] EXCEPT !.raw = raw]
           fourth == Set(third, "gen/openapi", openapi)
           h == Buf(g)
<1>1. h \in {Fails(g), next}
  BY DEF Buf, Skips
<1>2. next = fourth
  OBVIOUS
<1>3. h = fourth
  <2> HIDE DEF next, fourth
  <2>. QED
    BY <1>1, <1>2, FailedIsNotOk
<1>4. /\ \A seg \in DOMAIN ApiFiles : api[seg] = ApiFiles[seg] /\ register[seg] = ApiFiles[seg]
      /\ \A seg \in Segments \ DOMAIN ApiFiles :
           api[seg] = g.out["gen/api"][seg] /\ register[seg] = g.out["gen/zengo"].register[seg]
      /\ api = [seg \in Segments |-> api[seg]] /\ register = [seg \in Segments |-> register[seg]]
  <2>1. DOMAIN ApiFiles \subseteq Segments
    BY DEF ApiFiles, ApiNow, Segments
  <2>. QED
    BY <2>1
<1> HIDE DEF next, Over, api, register, h
<1>5. /\ IsGen(first) /\ first.cache = g.cache /\ first.out["gen/api"] = api
      /\ \A t \in TargetSet \ {"gen/api"} : first.out[t] = g.out[t]
  <2>1. Shaped("gen/api", api)
    BY <1>4, ShapedApi
  <2>2. IsGen(first)
    BY <2>1, OutputWritten, Others DEF Elsewhere
  <2>. QED
    BY <2>2, SetFacts, Others
<1> HIDE DEF first
<1>6. Shaped("gen/zengo", zengo) /\ zengo.register = register
  <2>1. Shaped("gen/zengo", first.out["gen/zengo"])
    BY <1>5, Others DEF IsGen
  <2>2. Shaped("gen/zengo", zengo)
    BY <1>4, <2>1, ShapedZengo
  <2>. QED
    BY <2>1, <2>2 DEF Shaped, IsZengo
<1> HIDE DEF zengo
<1>7. /\ IsGen(second) /\ second.cache = g.cache /\ second.out["gen/api"] = api
      /\ second.out["gen/zengo"] = zengo
      /\ \A t \in TargetSet \ {"gen/api", "gen/zengo"} : second.out[t] = g.out[t]
  <2>1. IsGen(second)
    BY <1>5, <1>6, OutputWritten, Others DEF Elsewhere
  <2>2. /\ second.cache = first.cache /\ second.out["gen/zengo"] = zengo
        /\ \A t \in TargetSet \ {"gen/zengo"} : second.out[t] = first.out[t]
    BY <1>5, SetFacts, Others
  <2>. QED
    BY <1>5, <2>1, <2>2, Others
<1> HIDE DEF second
<1>8. Shaped("gen/zengo", last) /\ last.register = register /\ last.schema = src.hub
  <2>1. Shaped("gen/zengo", last)
    BY <1>6, <1>7, ShapedZengo
  <2>. QED
    BY <1>6, <1>7, <2>1 DEF Shaped, IsZengo
<1> HIDE DEF last
<1>9. /\ IsGen(third) /\ third.cache = g.cache /\ third.out["gen/api"] = api
      /\ third.out["gen/zengo"] = last
      /\ \A t \in TargetSet \ {"gen/api", "gen/zengo"} : third.out[t] = g.out[t]
  <2>1. IsGen(third)
    BY <1>7, <1>8, OutputWritten, Others DEF Elsewhere
  <2>2. /\ third.cache = second.cache /\ third.out["gen/zengo"] = last
        /\ \A t \in TargetSet \ {"gen/zengo"} : third.out[t] = second.out[t]
    BY <1>7, SetFacts, Others
  <2>. QED
    BY <1>7, <2>1, <2>2, Others
<1> HIDE DEF third, raw
<1>10. openapi.raw = raw /\ openapi.docs = g.out["gen/openapi"].docs
  <2>1. Shaped("gen/openapi", third.out["gen/openapi"])
    BY <1>9, Others DEF IsGen
  <2>. QED
    BY <1>9, <2>1, Others DEF Shaped, IsOpenAPI
<1> HIDE DEF openapi
<1>11. /\ fourth.cache = g.cache /\ fourth.out["gen/api"] = api /\ fourth.out["gen/zengo"] = last
       /\ fourth.out["gen/openapi"] = openapi
       /\ \A t \in TargetSet \ {"gen/api", "gen/zengo", "gen/openapi"} : fourth.out[t] = g.out[t]
  <2>1. /\ fourth.cache = third.cache /\ fourth.out["gen/openapi"] = openapi
        /\ \A t \in TargetSet \ {"gen/openapi"} : fourth.out[t] = third.out[t]
    BY <1>9, SetFacts, Others
  <2>. QED
    BY <1>9, <2>1, Others
<1> HIDE DEF fourth
<1>12. ApiIn(h.out)
  BY <1>3, <1>4, <1>8, <1>11 DEF ApiIn
<1>13. /\ h.cache = g.cache /\ h.out["gen/openapi"].raw = raw
       /\ h.out["gen/openapi"].docs = g.out["gen/openapi"].docs
       /\ \A seg \in Segments \ DOMAIN ApiFiles :
            /\ h.out["gen/api"][seg] = g.out["gen/api"][seg]
            /\ h.out["gen/zengo"].register[seg] = g.out["gen/zengo"].register[seg]
       /\ \A t \in TargetSet \ {"gen/api", "gen/zengo", "gen/openapi"} : h.out[t] = g.out[t]
  BY <1>3, <1>4, <1>8, <1>10, <1>11
<1>. QED
  BY <1>12, <1>13 DEF h, raw

LEMMA SplitFacts ==
    ASSUME NEW g, IsGen(g)
    PROVE  LET h == Split(g)
               old == g.out["gen/openapi"]
           IN  /\ h.cache = g.cache /\ (h.ok => g.ok)
               /\ \A t \in TargetSet \ {"gen/openapi"} : h.out[t] = g.out[t]
               /\ "split" \in g.stages /\ h.ok =>
                    IF NothingToSplit(old.raw) THEN h.out["gen/openapi"] = old
                    ELSE h.out["gen/openapi"] = [raw |-> <<>>, docs |-> old.raw]
<1> DEFINE old == g.out["gen/openapi"]
           docs == [raw |-> <<>>, docs |-> old.raw]
           next == [g EXCEPT !.out = [g.out EXCEPT !["gen/openapi"] = docs]]
           h == Split(g)
           Good(x) == /\ x.cache = g.cache /\ (x.ok => g.ok)
                      /\ \A t \in TargetSet \ {"gen/openapi"} : x.out[t] = g.out[t]
<1>1. \/ h = g /\ (Skips(g, "split") \/ NothingToSplit(old.raw))
      \/ h = Fails(g)
      \/ h = next /\ ~NothingToSplit(old.raw)
  BY SplitCases
<1> HIDE DEF docs, h
<1>2. Good(next) /\ next.out["gen/openapi"] = docs
  BY SetFacts, Others
<1>3. Good(Fails(g)) /\ Good(g) /\ ~Fails(g).ok
  BY FailedIsNotOk
<1> HIDE DEF next, Good
<1>4. Good(h)
  BY <1>1, <1>2, <1>3
<1>5. "split" \in g.stages /\ h.ok =>
        IF NothingToSplit(old.raw) THEN h.out["gen/openapi"] = old ELSE h.out["gen/openapi"] = docs
  BY <1>1, <1>2, <1>3 DEF Skips
<1>. QED
  BY <1>4, <1>5 DEF Good, h, docs

-----------------------------------------------------------------------------
\* The converters, the adapters and the runtime are made from the API in o.
WireIn(o) ==
    LET legacy == LegacyVersions(Service)
        api == o["gen/api"]
    IN  /\ \A v \in Versions : o["gen/zengo"].convert[v] = IF v \in legacy THEN Adapted(v, api) ELSE Nil
        /\ o["gen/zengo"].runtime = [Hub |-> api["hub"], Register |-> o["gen/zengo"].register["hub"],
                                     Versions |-> legacy]

\* The loaders a process remembers are of the API in o.
CacheOf(cache, o) == \A key \in DOMAIN cache : cache[key] = [s \in key |-> o["gen/api"][s]]

\* No consumer is found, whatever the loader: adapters depend on the hub and the
\* version alone.
LEMMA AdaptedAlike ==
    ASSUME NEW v, NEW loader, NEW other, loader["hub"] = other["hub"], loader[v] = other[v]
    PROVE  Adapted(v, loader) = Adapted(v, other)
<1>1. ASSUME NEW l, NEW m PROVE RPCKafkaConsume(l, v, m) = Nil
  BY DEF RPCKafkaConsume, SourceDirs
<1>2. ASSUME NEW l, NEW legacy, NEW event PROVE EventConsumers(l, v, legacy, event) = {}
  BY <1>1 DEF EventConsumers
<1>. QED
  BY <1>2 DEF Adapted

LEMMA LegacyAreVersions == LegacyVersions(Service) \subseteq Versions
BY DEF LegacyVersions, ApiNow

LEMMA LoaderFacts ==
    ASSUME NEW cache, NEW o, CacheOf(cache, o), NEW legacy,
           NewLoader(cache, o["gen/api"], legacy) # Failed
    PROVE  LET loader == NewLoader(cache, o["gen/api"], legacy) IN
           /\ loader["hub"] = o["gen/api"]["hub"] /\ \A v \in legacy : loader[v] = o["gen/api"][v]
           /\ CacheOf(RememberLoader(cache, loader), o)
<1> DEFINE key == {"hub"} \cup legacy
           of == [s \in key |-> o["gen/api"][s]]
           loader == NewLoader(cache, o["gen/api"], legacy)
<1>1. loader = of
  BY DEF NewLoader, CacheOf
<1>2. DOMAIN of = key /\ of["hub"] = o["gen/api"]["hub"] /\ \A v \in legacy : of[v] = o["gen/api"][v]
  OBVIOUS
<1>3. CacheOf(RememberLoader(cache, of), o)
  BY <1>1 DEF RememberLoader, CacheOf
<1>. QED
  BY <1>1, <1>2, <1>3

LEMMA VersionsFacts ==
    ASSUME NEW g, IsGen(g), NEW legacy, legacy \subseteq Versions, NEW loader, NEW refused,
           GenerateVersions(g, legacy, loader, refused).ok
    PROVE  LET h == GenerateVersions(g, legacy, loader, refused)
               old == g.out["gen/zengo"]
               new == h.out["gen/zengo"]
           IN  /\ loader # Failed /\ g.ok /\ h.cache = RememberLoader(g.cache, loader)
               /\ \A t \in TargetSet \ {"gen/zengo"} : h.out[t] = g.out[t]
               /\ new.register = old.register /\ new.schema = old.schema
               /\ \A v \in Versions :
                    new.convert[v] = IF v \in legacy THEN Adapted(v, loader) ELSE old.convert[v]
               /\ new.runtime = [Hub |-> loader["hub"], Register |-> old.register["hub"],
                                 Versions |-> legacy]
<1> DEFINE done == {VersionNames[i] : i \in {j \in DOMAIN VersionNames :
                      VersionNames[j] \in legacy /\ \A k \in 1..j : VersionNames[k] \notin refused}}
           cache == RememberLoader(g.cache, loader)
           cached == [g EXCEPT !.cache = cache]
           convert == [v \in Versions |-> IF v \in done THEN Adapted(v, loader)
                                          ELSE g.out["gen/zengo"].convert[v]]
           zengo == [g.out["gen/zengo"] EXCEPT !.convert = convert]
           converted == [cached EXCEPT !.out = [cached.out EXCEPT !["gen/zengo"] = zengo]]
           runtime == [Hub |-> loader["hub"], Register |-> g.out["gen/zengo"].register["hub"],
                       Versions |-> legacy]
           last == [converted.out["gen/zengo"] EXCEPT !.runtime = runtime]
           ran == [converted EXCEPT !.out = [converted.out EXCEPT !["gen/zengo"] = last]]
           noted == [Fails(g) EXCEPT !.cache = RememberLoader(Fails(g).cache, loader)]
           h == GenerateVersions(g, legacy, loader, refused)
<1>1. h \in {Fails(g), noted, Fails(converted)} \/ (h = ran /\ loader # Failed /\ refused = {})
  <2> HIDE DEF done
  <2>1. cached.out = g.out
    BY DEF IsGen
  <2>2. [g EXCEPT !.cache = RememberLoader(@, loader),
                  !.out["gen/zengo"].convert = [v \in Versions |->
                     IF v \in done THEN Adapted(v, loader) ELSE @[v]]] = converted
    OBVIOUS
  <2>3. [converted EXCEPT !.out["gen/zengo"].runtime = runtime] = ran
    OBVIOUS
  <2> HIDE DEF converted, runtime, ran, cached
  <2>. QED
    BY <2>2, <2>3 DEF GenerateVersions, done, runtime
<1> HIDE DEF done, cache, convert, runtime
<1>2. IsGen(cached) /\ cached.out = g.out /\ cached.cache = cache /\ cached.ok = g.ok
  <2>1. cached = [stages |-> g.stages, manifest |-> g.manifest, force |-> g.force, out |-> g.out,
                  cache |-> cache, ok |-> g.ok]
    BY DEF IsGen
  <2>2. cached.out = g.out /\ cached.cache = cache /\ cached.ok = g.ok
    BY <2>1
  <2>3. IsGen(cached)
    BY NothingWritten DEF Elsewhere
  <2>. QED
    BY <2>2, <2>3
<1> HIDE DEF cached
<1>3. Shaped("gen/zengo", zengo) /\ zengo.convert = convert
      /\ zengo.register = g.out["gen/zengo"].register /\ zengo.schema = g.out["gen/zengo"].schema
  <2>1. Shaped("gen/zengo", g.out["gen/zengo"]) /\ convert = [v \in Versions |-> convert[v]]
    BY Others DEF IsGen, convert
  <2>2. Shaped("gen/zengo", zengo)
    BY <2>1, ShapedZengo
  <2>. QED
    BY <2>1, <2>2 DEF Shaped, IsZengo
<1> HIDE DEF zengo
<1>4. IsGen(converted)
  BY <1>2, <1>3, OutputWritten, Others DEF Elsewhere
<1>5. /\ converted.out["gen/zengo"] = zengo /\ converted.cache = cache /\ converted.ok = g.ok
      /\ \A t \in TargetSet \ {"gen/zengo"} : converted.out[t] = g.out[t]
  BY <1>2, SetFacts, Others
<1> HIDE DEF converted
<1>6. /\ last.convert = convert /\ last.runtime = runtime
      /\ last.register = g.out["gen/zengo"].register /\ last.schema = g.out["gen/zengo"].schema
  BY <1>3, <1>5 DEF Shaped, IsZengo
<1> HIDE DEF last
<1>7. /\ ran.out["gen/zengo"] = last /\ ran.cache = cache /\ ran.ok = g.ok
      /\ \A t \in TargetSet \ {"gen/zengo"} : ran.out[t] = g.out[t]
  <2>1. /\ ran.out["gen/zengo"] = last /\ ran.cache = converted.cache /\ ran.ok = converted.ok
        /\ \A t \in TargetSet \ {"gen/zengo"} : ran.out[t] = converted.out[t]
    BY <1>4, SetFacts, Others
  <2>. QED
    BY <1>5, <2>1
<1> HIDE DEF ran
<1>8. ~Fails(g).ok /\ ~noted.ok /\ ~Fails(converted).ok
  BY <1>4, FailedIsNotOk
<1> HIDE DEF noted
<1>9. h = ran /\ loader # Failed /\ refused = {} /\ h.ok
  BY <1>1, <1>8
<1> HIDE DEF h
<1>10. \A v \in Versions : convert[v] = IF v \in legacy THEN Adapted(v, loader)
                                       ELSE g.out["gen/zengo"].convert[v]
  <2>1. \A v \in Versions : v \in done <=> v \in legacy
    <3>1. \A v \in Versions : \E j \in DOMAIN VersionNames : VersionNames[j] = v
      BY DEF Versions, ToSet
    <3>. QED
      BY <1>9, <3>1 DEF done
  <2>. QED
    BY <2>1 DEF convert
<1>11. g.ok
  BY <1>7, <1>9
<1>12. /\ loader # Failed /\ g.ok /\ h.cache = RememberLoader(g.cache, loader)
       /\ \A t \in TargetSet \ {"gen/zengo"} : h.out[t] = g.out[t]
       /\ h.out["gen/zengo"].register = g.out["gen/zengo"].register
       /\ h.out["gen/zengo"].schema = g.out["gen/zengo"].schema
       /\ \A v \in Versions : h.out["gen/zengo"].convert[v] =
            IF v \in legacy THEN Adapted(v, loader) ELSE g.out["gen/zengo"].convert[v]
       /\ h.out["gen/zengo"].runtime = runtime
  BY <1>6, <1>7, <1>9, <1>10, <1>11 DEF cache
<1>. QED
  BY <1>12 DEF h, runtime

LEMMA GenerateFacts ==
    ASSUME NEW g, IsGen(g), NEW legacy, legacy \subseteq Versions, NEW loader,
           Generate(g, legacy, loader).ok
    PROVE  LET h == Generate(g, legacy, loader)
               old == g.out["gen/zengo"]
               new == h.out["gen/zengo"]
           IN  /\ loader # Failed /\ g.ok /\ h.cache = RememberLoader(g.cache, loader)
               /\ \A t \in TargetSet \ {"gen/zengo"} : h.out[t] = g.out[t]
               /\ new.register = old.register /\ new.schema = old.schema
               /\ \A v \in Versions :
                    new.convert[v] = IF v \in legacy THEN Adapted(v, loader) ELSE Nil
               /\ new.runtime = [Hub |-> loader["hub"], Register |-> old.register["hub"],
                                 Versions |-> legacy]
<1> DEFINE convert == [v \in Versions |-> IF v \in legacy THEN g.out["gen/zengo"].convert[v] ELSE Nil]
           zengo == [g.out["gen/zengo"] EXCEPT !.convert = convert]
           clean == [g EXCEPT !.out = [g.out EXCEPT !["gen/zengo"] = zengo]]
           refused == {v \in legacy :
                         ~ManualProvided(Plans[v, loader["hub"], loader[v]], src.manual[v])}
           h == Generate(g, legacy, loader)
<1>1. h = GenerateVersions(clean, legacy, loader, refused)
  <2>1. [g EXCEPT !.out["gen/zengo"].convert =
                     [v \in Versions |-> IF v \in legacy THEN @[v] ELSE Nil]] = clean
    OBVIOUS
  <2> HIDE DEF clean, refused
  <2>. QED
    BY <2>1 DEF Generate, refused
<1>2. \A v \in Versions : v \notin legacy => convert[v] = Nil
  OBVIOUS
<1> HIDE DEF convert, refused
<1>3. Shaped("gen/zengo", zengo) /\ zengo.convert = convert
      /\ zengo.register = g.out["gen/zengo"].register /\ zengo.schema = g.out["gen/zengo"].schema
  <2>1. Shaped("gen/zengo", g.out["gen/zengo"]) /\ convert = [v \in Versions |-> convert[v]]
    BY Others DEF IsGen, convert
  <2>2. Shaped("gen/zengo", zengo)
    BY <2>1, ShapedZengo
  <2>. QED
    BY <2>1, <2>2 DEF Shaped, IsZengo
<1> HIDE DEF zengo
<1>4. IsGen(clean)
  BY <1>3, OutputWritten, Others DEF Elsewhere
<1>5. /\ clean.out["gen/zengo"] = zengo /\ clean.cache = g.cache /\ clean.ok = g.ok
      /\ \A t \in TargetSet \ {"gen/zengo"} : clean.out[t] = g.out[t]
  BY SetFacts, Others
<1> HIDE DEF clean
<1>6. h.ok
  OBVIOUS
<1> HIDE DEF h
<1>7. /\ loader # Failed /\ clean.ok /\ h.cache = RememberLoader(clean.cache, loader)
      /\ \A t \in TargetSet \ {"gen/zengo"} : h.out[t] = clean.out[t]
      /\ h.out["gen/zengo"].register = zengo.register /\ h.out["gen/zengo"].schema = zengo.schema
      /\ \A v \in Versions : h.out["gen/zengo"].convert[v] =
           IF v \in legacy THEN Adapted(v, loader) ELSE zengo.convert[v]
      /\ h.out["gen/zengo"].runtime = [Hub |-> loader["hub"], Register |-> zengo.register["hub"],
                                       Versions |-> legacy]
  <2>1. GenerateVersions(clean, legacy, loader, refused).ok
    BY <1>1, <1>6
  <2> DEFINE k == GenerateVersions(clean, legacy, loader, refused)
  <2>2. /\ loader # Failed /\ clean.ok /\ k.cache = RememberLoader(clean.cache, loader)
        /\ \A t \in TargetSet \ {"gen/zengo"} : k.out[t] = clean.out[t]
        /\ k.out["gen/zengo"].register = clean.out["gen/zengo"].register
        /\ k.out["gen/zengo"].schema = clean.out["gen/zengo"].schema
        /\ \A v \in Versions : k.out["gen/zengo"].convert[v] =
             IF v \in legacy THEN Adapted(v, loader) ELSE clean.out["gen/zengo"].convert[v]
        /\ k.out["gen/zengo"].runtime =
             [Hub |-> loader["hub"], Register |-> clean.out["gen/zengo"].register["hub"],
              Versions |-> legacy]
    BY <1>4, <2>1, VersionsFacts
  <2>3. h = k /\ clean.out["gen/zengo"] = zengo
    BY <1>1, <1>5
  <2> HIDE DEF k
  <2>. QED
    BY <2>2, <2>3
<1>8. /\ loader # Failed /\ g.ok /\ h.cache = RememberLoader(g.cache, loader)
      /\ \A t \in TargetSet \ {"gen/zengo"} : h.out[t] = g.out[t]
      /\ h.out["gen/zengo"].register = g.out["gen/zengo"].register
      /\ h.out["gen/zengo"].schema = g.out["gen/zengo"].schema
      /\ \A v \in Versions : h.out["gen/zengo"].convert[v] =
           IF v \in legacy THEN Adapted(v, loader) ELSE Nil
      /\ h.out["gen/zengo"].runtime =
           [Hub |-> loader["hub"], Register |-> g.out["gen/zengo"].register["hub"], Versions |-> legacy]
  BY <1>2, <1>3, <1>5, <1>7
<1>. QED
  BY <1>8 DEF h

LEMMA RecordIsNotNil ==
    ASSUME M!NilIsNoRecord, NEW a, NEW b
    PROVE  [Header |-> a, Body |-> b] # Nil /\ [queries |-> a, schema |-> b] # Nil
<1>1. ASSUME NEW f, f = [x \in DOMAIN f |-> f[x]] PROVE f # Nil
  BY <1>1 DEF M!NilIsNoRecord
<1> DEFINE file == [Header |-> a, Body |-> b]
           db == [queries |-> a, schema |-> b]
<1>2. file = [x \in DOMAIN file |-> file[x]] /\ db = [x \in DOMAIN db |-> db[x]]
  OBVIOUS
<1> HIDE DEF file, db
<1>3. file # Nil /\ db # Nil
  BY <1>1, <1>2
<1>. QED
  BY <1>3 DEF file, db

\* What is made of a migration x, with the tables of o.
MigrationOf(x, o) == GeneratePostgresMigration(Postgres(Service), x, RepositorySchema(o))

LEMMA MigrateFacts ==
    ASSUME NEW g, IsGen(g), g.manifest = Service, Migrate(g).ok
    PROVE  LET h == Migrate(g)
           IN  /\ g.ok /\ h.cache = g.cache
               /\ \A t \in TargetSet \ {Migration} : h.out[t] = g.out[t]
               /\ h.out[Migration] = MigrationOf(g.out[Migration], g.out)
               /\ MigrationOf(g.out[Migration], g.out) # Failed
<1> DEFINE t == Migration
           file == MigrationOf(g.out[t], g.out)
           next == [g EXCEPT !.out = [g.out EXCEPT ![t] = file]]
           h == Migrate(g)
<1>1. h = IF ~g.ok THEN g ELSE IF file = Failed THEN Fails(g) ELSE next
  BY DEF Migrate, Migration, MigrationOf
<1>2. t \in TargetSet
  BY DEF TargetSet, Migration
<1> HIDE DEF file, t, h
<1>3. /\ next.out[t] = file /\ next.cache = g.cache /\ next.ok = g.ok
      /\ \A u \in TargetSet \ {t} : next.out[u] = g.out[u]
  BY <1>2, SetFacts
<1>4. ~Fails(g).ok /\ h.ok
  BY FailedIsNotOk DEF h
<1> HIDE DEF next
<1>5. h = next /\ g.ok /\ file # Failed
  BY <1>1, <1>3, <1>4
<1>6. /\ g.ok /\ h.cache = g.cache /\ h.out[t] = file /\ file # Failed
      /\ \A u \in TargetSet \ {t} : h.out[u] = g.out[u]
  BY <1>3, <1>5
<1>. QED
  BY <1>6 DEF t, file, h

LEMMA WireFacts ==
    ASSUME NEW g, IsGen(g), g.manifest \in {Failed, Service}, "wire" \in g.stages,
           CacheOf(g.cache, g.out), Wire(g).ok, g.ok
    PROVE  LET h == Wire(g)
           IN  /\ \A t \in TargetSet \ {"gen/zengo", Migration} : h.out[t] = g.out[t]
               /\ h.out["gen/zengo"].register = g.out["gen/zengo"].register
               /\ h.out["gen/zengo"].schema = g.out["gen/zengo"].schema
               /\ CacheOf(h.cache, h.out) /\ WireIn(h.out)
               /\ h.out[Migration] = MigrationOf(g.out[Migration], g.out)
               /\ MigrationOf(g.out[Migration], g.out) # Failed
<1> DEFINE legacy == LegacyVersions(Service)
           api == g.out["gen/api"]
           loader == NewLoader(g.cache, api, legacy)
           next == Generate(g, legacy, loader)
           h == Wire(g)
<1>1. ~Fails(g).ok
  BY FailedIsNotOk
<1>2. g.manifest = Service /\ h = Migrate(next)
  BY <1>1 DEF Wire, Skips
<1>3. legacy \subseteq Versions
  BY LegacyAreVersions
<1> HIDE DEF legacy
<1>4. IsGen(next) /\ next.manifest = Service
  <2> HIDE DEF loader
  <2>. QED
    BY <1>2, GenerateElsewhere DEF Elsewhere
<1>5. h.ok
  OBVIOUS
<1> HIDE DEF h
<1>6. /\ next.ok /\ h.cache = next.cache
      /\ h.out[Migration] = MigrationOf(next.out[Migration], next.out)
      /\ MigrationOf(next.out[Migration], next.out) # Failed
      /\ \A t \in TargetSet \ {Migration} : h.out[t] = next.out[t]
  <2> HIDE DEF next
  <2>. QED
    BY <1>2, <1>4, <1>5, MigrateFacts
<1>7. /\ loader # Failed /\ next.cache = RememberLoader(g.cache, loader)
      /\ \A t \in TargetSet \ {"gen/zengo"} : next.out[t] = g.out[t]
      /\ next.out["gen/zengo"].register = g.out["gen/zengo"].register
      /\ next.out["gen/zengo"].schema = g.out["gen/zengo"].schema
      /\ \A v \in Versions : next.out["gen/zengo"].convert[v] =
           IF v \in legacy THEN Adapted(v, loader) ELSE Nil
      /\ next.out["gen/zengo"].runtime =
           [Hub |-> loader["hub"], Register |-> g.out["gen/zengo"].register["hub"], Versions |-> legacy]
  <2> HIDE DEF loader
  <2>. QED
    BY <1>3, <1>6, GenerateFacts
<1> HIDE DEF next
<1>8. /\ loader["hub"] = api["hub"] /\ \A v \in legacy : loader[v] = api[v]
      /\ CacheOf(RememberLoader(g.cache, loader), g.out)
  BY <1>7, LoaderFacts
<1> HIDE DEF loader
<1>9. /\ "gen/api" \in TargetSet \ {Migration, "gen/zengo"}
      /\ "gen/zengo" \in TargetSet \ {Migration}
  BY DEF TargetSet, Migration
<1>10. h.out["gen/api"] = api /\ h.out["gen/zengo"] = next.out["gen/zengo"]
  BY <1>6, <1>7, <1>9
<1>11. \A v \in legacy : Adapted(v, loader) = Adapted(v, api)
  BY <1>8, AdaptedAlike
<1> HIDE DEF api
<1>12. /\ \A v \in Versions : h.out["gen/zengo"].convert[v] =
            IF v \in legacy THEN Adapted(v, h.out["gen/api"]) ELSE Nil
       /\ h.out["gen/zengo"].runtime =
            [Hub |-> h.out["gen/api"]["hub"], Register |-> h.out["gen/zengo"].register["hub"],
             Versions |-> legacy]
  BY <1>7, <1>8, <1>10, <1>11
<1>13. WireIn(h.out)
  BY <1>12 DEF WireIn, legacy
<1>14. CacheOf(h.cache, h.out)
  BY <1>6, <1>7, <1>8, <1>10 DEF CacheOf, api
<1>15. /\ \A t \in TargetSet \ {"gen/zengo", Migration} : h.out[t] = g.out[t]
       /\ h.out["gen/zengo"].register = g.out["gen/zengo"].register
       /\ h.out["gen/zengo"].schema = g.out["gen/zengo"].schema
  BY <1>6, <1>7, <1>10
<1>16. MigrationOf(next.out[Migration], next.out) = MigrationOf(g.out[Migration], g.out)
  <2>1. next.out[Migration] = g.out[Migration]
    BY <1>7 DEF TargetSet, Migration
  <2>. QED
    BY <1>7, <2>1 DEF MigrationOf, RepositorySchema
<1>17. /\ h.out[Migration] = MigrationOf(g.out[Migration], g.out)
       /\ MigrationOf(g.out[Migration], g.out) # Failed
  BY <1>6, <1>16
<1>. QED
  BY <1>13, <1>14, <1>15, <1>17 DEF h

\* The code for the queries, main.go and the documents are made from what is there.
RestIn(o) ==
    /\ "sqlc.yaml" \in src.files =>
         /\ o["gen/db"] # Nil
         /\ o["gen/db"].queries = src.queries /\ o["gen/db"].schema = MigrationBody(o)
    /\ src.cql # 0 => o["gen/cql"] = src.cql
    /\ o["cmd/main.go"] # Nil
    /\ o["cmd/main.go"].Header => o["cmd/main.go"].Body = M!GenerateMain(Service)
    /\ o[".cursor/rules"] = Service.Service.Name
    /\ o["docs/PROTO_REGISTRY.md"] = Service.Service.Name

LEMMA SqlcFacts ==
    ASSUME M!NilIsNoRecord, NEW g, IsGen(g), "sqlc" \in g.stages, g.ok
    PROVE  LET h == Sqlc(g)
           IN  /\ IsGen(h) /\ h.cache = g.cache /\ h.ok /\ h.stages = g.stages /\ h.manifest = g.manifest
               /\ \A t \in TargetSet \ {"gen/db"} : h.out[t] = g.out[t]
               /\ "sqlc.yaml" \in src.files =>
                    /\ h.out["gen/db"] # Nil
                    /\ h.out["gen/db"].queries = src.queries
                    /\ h.out["gen/db"].schema = MigrationBody(h.out)
               /\ "sqlc.yaml" \notin src.files => h.out["gen/db"] = g.out["gen/db"]
<1> DEFINE h == Sqlc(g)
           body == MigrationBody(g.out)
           db == [queries |-> src.queries, schema |-> body]
           next == [g EXCEPT !.out = [g.out EXCEPT !["gen/db"] = db]]
<1>1. h = IF "sqlc.yaml" \in src.files THEN next ELSE g
  BY DEF Sqlc, Skips
<1>2. IsGen(h) /\ h.stages = g.stages /\ h.manifest = g.manifest
  BY SqlcElsewhere DEF Elsewhere
<1>3. db # Nil /\ db.queries = src.queries /\ db.schema = body
  BY RecordIsNotNil
<1> HIDE DEF db, body, h
<1>4. /\ next.out["gen/db"] = db /\ next.cache = g.cache /\ next.ok
      /\ \A t \in TargetSet \ {"gen/db"} : next.out[t] = g.out[t]
  <2>1. "gen/db" \in TargetSet
    BY Others
  <2>2. /\ next.out["gen/db"] = db /\ next.cache = g.cache
        /\ \A t \in TargetSet \ {"gen/db"} : next.out[t] = g.out[t]
    BY <2>1, SetFacts
  <2>3. next.ok
    BY DEF IsGen
  <2>. QED
    BY <2>2, <2>3
<1> HIDE DEF next
<1>5. /\ h.cache = g.cache /\ h.ok /\ \A t \in TargetSet \ {"gen/db"} : h.out[t] = g.out[t]
  BY <1>1, <1>4
<1>6. MigrationBody(h.out) = body
  <2>1. "migrations/001_init.sql" \in TargetSet \ {"gen/db"}
    BY DEF TargetSet
  <2>. QED
    BY <1>5, <2>1 DEF MigrationBody, body
<1>7. "sqlc.yaml" \in src.files =>
        /\ h.out["gen/db"] # Nil
        /\ h.out["gen/db"].queries = src.queries /\ h.out["gen/db"].schema = MigrationBody(h.out)
  BY <1>1, <1>3, <1>4, <1>6
<1>8. "sqlc.yaml" \notin src.files => h.out["gen/db"] = g.out["gen/db"]
  BY <1>1
<1>. QED
  BY <1>2, <1>5, <1>7, <1>8 DEF h

LEMMA CqlFacts ==
    ASSUME NEW g, IsGen(g), "cql" \in g.stages, g.ok
    PROVE  LET h == Cql(g)
           IN  /\ IsGen(h) /\ h.cache = g.cache /\ h.ok /\ h.stages = g.stages /\ h.manifest = g.manifest
               /\ \A t \in TargetSet \ {"gen/cql"} : h.out[t] = g.out[t]
               /\ h.out["gen/cql"] = IF src.cql # 0 THEN src.cql ELSE g.out["gen/cql"]
<1> DEFINE h == Cql(g)
           next == [g EXCEPT !.out = [g.out EXCEPT !["gen/cql"] = src.cql]]
<1>1. h = IF src.cql # 0 THEN next ELSE g
  BY DEF Cql, Skips
<1>2. IsGen(h) /\ h.stages = g.stages /\ h.manifest = g.manifest
  BY CqlElsewhere DEF Elsewhere
<1> HIDE DEF h
<1>3. /\ next.out["gen/cql"] = src.cql /\ next.cache = g.cache /\ next.ok
      /\ \A t \in TargetSet \ {"gen/cql"} : next.out[t] = g.out[t]
  <2>1. "gen/cql" \in TargetSet
    BY Others
  <2>2. /\ next.out["gen/cql"] = src.cql /\ next.cache = g.cache
        /\ \A t \in TargetSet \ {"gen/cql"} : next.out[t] = g.out[t]
    BY <2>1, SetFacts
  <2>3. next.ok
    BY DEF IsGen
  <2>. QED
    BY <2>2, <2>3
<1> HIDE DEF next
<1>4. /\ h.cache = g.cache /\ h.ok /\ \A t \in TargetSet \ {"gen/cql"} : h.out[t] = g.out[t]
      /\ h.out["gen/cql"] = IF src.cql # 0 THEN src.cql ELSE g.out["gen/cql"]
  BY <1>1, <1>3
<1>. QED
  BY <1>2, <1>4 DEF h

LEMMA MainFacts ==
    ASSUME M!NilIsNoRecord, NEW g, IsGen(g), g.manifest \in {Failed, Service}, g.ok,
           "docs" \in g.stages, "main" \in g.stages, Main(g).ok
    PROVE  LET h == Main(g)
           IN  /\ h.cache = g.cache
               /\ \A t \in TargetSet \ {"cmd/main.go", ".cursor/rules", "docs/PROTO_REGISTRY.md"} :
                    h.out[t] = g.out[t]
               /\ ShouldTrackGeneratedMain(g.out) => ShouldTrackGeneratedMain(h.out)
               /\ h.out["cmd/main.go"] # Nil
               /\ h.out["cmd/main.go"].Header => h.out["cmd/main.go"].Body = M!GenerateMain(Service)
               /\ h.out[".cursor/rules"] = Service.Service.Name
               /\ h.out["docs/PROTO_REGISTRY.md"] = Service.Service.Name
<1> DEFINE renders == "main" \in g.stages /\ (g.force \/ ShouldTrackGeneratedMain(g.out))
           main == [Header |-> TRUE, Body |-> M!GenerateMain(g.manifest)]
           file == IF renders THEN main ELSE g.out["cmd/main.go"]
           name == g.manifest.Service.Name
           Set(h, t, x) == [h EXCEPT !.out = [h.out EXCEPT ![t] = x]]
           first == Set(g, "cmd/main.go", file)
           second == Set(first, ".cursor/rules", name)
           third == Set(second, "docs/PROTO_REGISTRY.md", name)
           h == Main(g)
<1>1. h = Fails(g) \/ (h = third /\ g.manifest # Failed)
  <2> HIDE DEF renders, main, name
  <2>1. [g EXCEPT !.out["cmd/main.go"] = IF renders THEN main ELSE @,
                  !.out[".cursor/rules"] = name,
                  !.out["docs/PROTO_REGISTRY.md"] = name] = third
    OBVIOUS
  <2> HIDE DEF third
  <2>. QED
    BY <2>1 DEF Main, renders, main, name, Skips
<1>2. h = third /\ g.manifest = Service
  BY <1>1, FailedIsNotOk
<1>3. /\ file # Nil /\ (file.Header => file.Body = M!GenerateMain(Service))
      /\ Managed(g.out["cmd/main.go"]) => Managed(file)
  <2>1. CASE renders
    <3> DEFINE body == M!GenerateMain(Service)
    <3>1. file = [Header |-> TRUE, Body |-> body]
      BY <1>2, <2>1
    <3> HIDE DEF body, file
    <3>2. file # Nil /\ file.Body = body /\ file.Header
      BY <3>1, RecordIsNotNil
    <3>. QED
      BY <3>2 DEF body, Managed
  <2>2. CASE ~renders
    <3>1. file = g.out["cmd/main.go"] /\ ~Managed(g.out["cmd/main.go"])
      BY <2>2 DEF ShouldTrackGeneratedMain
    <3>. QED
      BY <3>1 DEF Managed
  <2>. QED
    BY <2>1, <2>2
<1>4. name = Service.Service.Name
  BY <1>2
<1>5. /\ "cmd/main.go" \in TargetSet \ {".cursor/rules", "docs/PROTO_REGISTRY.md"}
      /\ "cmd/main.go" \in HandFiles
      /\ ".cursor/rules" \in TargetSet \ {"cmd/main.go", "docs/PROTO_REGISTRY.md"}
      /\ "docs/PROTO_REGISTRY.md" \in TargetSet \ {"cmd/main.go", ".cursor/rules"}
  BY DEF TargetSet, HandFiles
<1> HIDE DEF renders, main, name, h
<1>6. IsGen(first)
  <2>1. g.out["cmd/main.go"] # Nil /\ ~g.out["cmd/main.go"].Header /\ ~g.force
          => file = g.out["cmd/main.go"]
    BY DEF ShouldTrackGeneratedMain, Managed, renders
  <2>2. Shaped("cmd/main.go", file)
    <3>1. Shaped("cmd/main.go", main) /\ Shaped("cmd/main.go", g.out["cmd/main.go"])
      BY <1>5, ShapedOther DEF IsGen, main
    <3>. QED
      BY <3>1
  <2> HIDE DEF file
  <2>3. HandKept(g, first)
    BY <1>5, <2>1, <2>2, FileWritten DEF Migration
  <2>. QED
    BY <2>3 DEF HandKept
<1> HIDE DEF file
<1>7. /\ first.out["cmd/main.go"] = file /\ first.cache = g.cache
      /\ \A t \in TargetSet \ {"cmd/main.go"} : first.out[t] = g.out[t]
  BY <1>5, SetFacts
<1> HIDE DEF first
<1>8. IsGen(second)
  BY <1>6, OutputWritten, Others, ShapedOther DEF Elsewhere
<1>9. /\ second.out[".cursor/rules"] = name /\ second.cache = first.cache
      /\ \A t \in TargetSet \ {".cursor/rules"} : second.out[t] = first.out[t]
  BY <1>5, <1>6, SetFacts
<1> HIDE DEF second
<1>10. /\ third.out["docs/PROTO_REGISTRY.md"] = name /\ third.cache = second.cache
       /\ \A t \in TargetSet \ {"docs/PROTO_REGISTRY.md"} : third.out[t] = second.out[t]
  BY <1>5, <1>8, SetFacts
<1> HIDE DEF third
<1>11. /\ h.cache = g.cache
       /\ \A t \in TargetSet \ {"cmd/main.go", ".cursor/rules", "docs/PROTO_REGISTRY.md"} :
            h.out[t] = g.out[t]
  BY <1>2, <1>7, <1>9, <1>10
<1>12. /\ h.out["cmd/main.go"] = file
       /\ h.out[".cursor/rules"] = name /\ h.out["docs/PROTO_REGISTRY.md"] = name
  BY <1>2, <1>5, <1>7, <1>9, <1>10
<1>. QED
  BY <1>3, <1>4, <1>11, <1>12 DEF h, ShouldTrackGeneratedMain

\* What a group of stages begins with.
Begun(group, path, force, cache) ==
    [stages |-> group, manifest |-> M!Load(M!LoadProto(path, Found, src.manifest)), force |-> force,
     out |-> out, cache |-> cache, ok |-> TRUE]

LEMMA BegunFacts ==
    ASSUME OutInv, NEW group, NEW path, NEW force, NEW cache
    PROVE  LET g == Begun(group, path, force, cache)
           IN  /\ IsGen(g) /\ g.stages = group /\ g.manifest \in {Failed, Service}
               /\ g.out = out /\ g.cache = cache /\ g.ok
<1> DEFINE manifest == M!Load(M!LoadProto(path, Found, src.manifest))
           g == Begun(group, path, force, cache)
<1>1. g = [stages |-> group, manifest |-> manifest, force |-> force, out |-> out, cache |-> cache,
           ok |-> TRUE]
  BY DEF Begun
<1>2. manifest \in {Failed, Service}
  BY DEF M!LoadProto, M!Load, Service
<1> HIDE DEF manifest, g
<1>3. g.stages = group /\ g.manifest = manifest /\ g.out = out /\ g.cache = cache /\ g.ok /\ g.force = force
  BY <1>1
<1>4. g = [stages |-> g.stages, manifest |-> g.manifest, force |-> g.force, out |-> g.out,
           cache |-> g.cache, ok |-> g.ok]
  BY <1>1
<1>5. IsGen(g)
  BY <1>3, <1>4 DEF IsGen, OutInv
<1>. QED
  BY <1>2, <1>3, <1>5 DEF g

\* The groups in which only some of the stages do anything.
LEMMA RunOf ==
    ASSUME OutInv, NEW path, NEW force, NEW cache
    PROVE  /\ Run(Proto, path, force, cache) = Split(Buf(Begun(Proto, path, force, cache)))
           /\ Run(Reproto, path, force, cache) = Split(Begun(Reproto, path, force, cache))
           /\ Run(WireGroup, path, force, cache) = Wire(Begun(WireGroup, path, force, cache))
           /\ Run(RestGroup, path, force, cache) = Main(Cql(Sqlc(Begun(RestGroup, path, force, cache))))
<1>1. ASSUME NEW group
      PROVE  Run(group, path, force, cache) =
               Main(Cql(Sqlc(Wire(Split(Buf(Begun(group, path, force, cache)))))))
  BY DEF Run, Begun
<1>2. Run(Proto, path, force, cache) = Split(Buf(Begun(Proto, path, force, cache)))
  <2> DEFINE g == Begun(Proto, path, force, cache)
             h == Split(Buf(g))
  <2>1. IsGen(g) /\ g.stages = Proto
    BY BegunFacts
  <2> HIDE DEF g
  <2>2. h.stages = Proto
    BY <2>1, BufElsewhere, SplitElsewhere DEF Elsewhere
  <2> HIDE DEF h
  <2>3. "wire" \notin Proto /\ "sqlc" \notin Proto /\ "cql" \notin Proto /\ "docs" \notin Proto
    BY DEF Proto
  <2>4. Wire(h) = h /\ Sqlc(h) = h /\ Cql(h) = h /\ Main(h) = h
    BY <2>2, <2>3, SkippedStages
  <2>. QED
    BY <1>1, <2>4 DEF h, g
<1>3. Run(Reproto, path, force, cache) = Split(Begun(Reproto, path, force, cache))
  <2> DEFINE g == Begun(Reproto, path, force, cache)
             h == Split(g)
  <2>1. IsGen(g) /\ g.stages = Reproto
    BY BegunFacts
  <2> HIDE DEF g
  <2>2. h.stages = Reproto
    BY <2>1, SplitElsewhere DEF Elsewhere
  <2> HIDE DEF h
  <2>3. "buf" \notin Reproto /\ "wire" \notin Reproto /\ "sqlc" \notin Reproto /\ "cql" \notin Reproto
        /\ "docs" \notin Reproto
    BY DEF Reproto
  <2>4. Buf(g) = g /\ Wire(h) = h /\ Sqlc(h) = h /\ Cql(h) = h /\ Main(h) = h
    BY <2>1, <2>2, <2>3, SkippedStages
  <2>. QED
    BY <1>1, <2>4 DEF h, g
<1>4. Run(WireGroup, path, force, cache) = Wire(Begun(WireGroup, path, force, cache))
  <2> DEFINE g == Begun(WireGroup, path, force, cache)
             h == Wire(g)
  <2>1. IsGen(g) /\ g.stages = WireGroup
    BY BegunFacts
  <2> HIDE DEF g
  <2>2. h.stages = WireGroup
    BY <2>1, WireKeeps DEF HandKept
  <2> HIDE DEF h
  <2>3. "buf" \notin WireGroup /\ "split" \notin WireGroup /\ "sqlc" \notin WireGroup
        /\ "cql" \notin WireGroup /\ "docs" \notin WireGroup
    BY DEF WireGroup
  <2>4. Buf(g) = g /\ Split(g) = g /\ Sqlc(h) = h /\ Cql(h) = h /\ Main(h) = h
    BY <2>1, <2>2, <2>3, SkippedStages
  <2>. QED
    BY <1>1, <2>4 DEF h, g
<1>5. Run(RestGroup, path, force, cache) = Main(Cql(Sqlc(Begun(RestGroup, path, force, cache))))
  <2> DEFINE g == Begun(RestGroup, path, force, cache)
  <2>1. g.stages = RestGroup
    BY BegunFacts
  <2> HIDE DEF g
  <2>2. "buf" \notin RestGroup /\ "split" \notin RestGroup /\ "wire" \notin RestGroup
    BY DEF RestGroup
  <2>3. Buf(g) = g /\ Split(g) = g /\ Wire(g) = g
    BY <2>1, <2>2, SkippedStages
  <2>. QED
    BY <1>1, <2>3 DEF g
<1>. QED
  BY <1>2, <1>3, <1>4, <1>5

\* What becomes of buf's documents.
SplitTo(raw, docs) ==
    IF NothingToSplit(raw) THEN [raw |-> raw, docs |-> docs] ELSE [raw |-> <<>>, docs |-> raw]

\* The generation of the API, and its repetition without buf.
LEMMA RunProto ==
    ASSUME OutInv, NEW path, NEW force, NEW cache, Run(Proto, path, force, cache).ok
    PROVE  LET h == Run(Proto, path, force, cache)
           IN  /\ ApiIn(h.out) /\ h.cache = cache
               /\ \A seg \in Segments \ DOMAIN ApiFiles :
                    /\ h.out["gen/api"][seg] = out["gen/api"][seg]
                    /\ h.out["gen/zengo"].register[seg] = out["gen/zengo"].register[seg]
               /\ h.out["gen/openapi"] =
                    SplitTo(Beside(out["gen/openapi"].raw), out["gen/openapi"].docs)
               /\ \A t \in TargetSet \ {"gen/api", "gen/zengo", "gen/openapi"} : h.out[t] = out[t]
<1> DEFINE g == Begun(Proto, path, force, cache)
           b == Buf(g)
           h == Run(Proto, path, force, cache)
           raw == Beside(out["gen/openapi"].raw)
           docs == out["gen/openapi"].docs
<1>1. IsGen(g) /\ g.ok /\ g.stages = Proto /\ g.cache = cache /\ g.out = out
  BY BegunFacts
<1>2. "buf" \in Proto /\ "split" \in Proto
  BY DEF Proto
<1>3. h = Split(b) /\ h.ok
  BY RunOf
<1> HIDE DEF g, h
<1>4. IsGen(b) /\ b.stages = Proto
  BY <1>1, BufElsewhere DEF Elsewhere
<1>5. /\ h.cache = b.cache /\ b.ok
      /\ \A t \in TargetSet \ {"gen/openapi"} : h.out[t] = b.out[t]
      /\ IF NothingToSplit(b.out["gen/openapi"].raw) THEN h.out["gen/openapi"] = b.out["gen/openapi"]
         ELSE h.out["gen/openapi"] = [raw |-> <<>>, docs |-> b.out["gen/openapi"].raw]
  <2> HIDE DEF b
  <2>. QED
    BY <1>2, <1>3, <1>4, SplitFacts
<1>6. /\ ApiIn(b.out) /\ b.cache = cache
      /\ \A seg \in Segments \ DOMAIN ApiFiles :
           /\ b.out["gen/api"][seg] = out["gen/api"][seg]
           /\ b.out["gen/zengo"].register[seg] = out["gen/zengo"].register[seg]
      /\ b.out["gen/openapi"].raw = raw /\ b.out["gen/openapi"].docs = docs
      /\ \A t \in TargetSet \ {"gen/api", "gen/zengo", "gen/openapi"} : b.out[t] = out[t]
  BY <1>1, <1>2, <1>5, BufFacts
<1> HIDE DEF b, raw, docs
<1>7. b.out["gen/openapi"] = [raw |-> raw, docs |-> docs]
  BY <1>4, <1>6, Others DEF IsGen, Shaped, IsOpenAPI
<1>8. h.out["gen/openapi"] = SplitTo(raw, docs)
  BY <1>5, <1>6, <1>7 DEF SplitTo
<1>9. h.out["gen/api"] = b.out["gen/api"] /\ h.out["gen/zengo"] = b.out["gen/zengo"]
  BY <1>5 DEF TargetSet
<1>10. ApiIn(h.out)
  BY <1>6, <1>9 DEF ApiIn
<1>11. /\ h.cache = cache
       /\ \A seg \in Segments \ DOMAIN ApiFiles :
            /\ h.out["gen/api"][seg] = out["gen/api"][seg]
            /\ h.out["gen/zengo"].register[seg] = out["gen/zengo"].register[seg]
       /\ \A t \in TargetSet \ {"gen/api", "gen/zengo", "gen/openapi"} : h.out[t] = out[t]
  BY <1>5, <1>6, <1>9
<1>. QED
  BY <1>8, <1>10, <1>11 DEF h, raw, docs

LEMMA RunReproto ==
    ASSUME OutInv, NEW path, NEW force, NEW cache, Run(Reproto, path, force, cache).ok
    PROVE  LET h == Run(Reproto, path, force, cache)
           IN  /\ h.cache = cache
               /\ \A t \in TargetSet \ {"gen/openapi"} : h.out[t] = out[t]
               /\ h.out["gen/openapi"] = SplitTo(out["gen/openapi"].raw, out["gen/openapi"].docs)
<1> DEFINE g == Begun(Reproto, path, force, cache)
           h == Run(Reproto, path, force, cache)
           old == out["gen/openapi"]
<1>1. IsGen(g) /\ g.cache = cache /\ g.out = out /\ "split" \in g.stages
  BY BegunFacts DEF Reproto
<1>2. h = Split(g) /\ h.ok
  BY RunOf
<1> HIDE DEF g, h
<1>3. /\ h.cache = cache /\ \A t \in TargetSet \ {"gen/openapi"} : h.out[t] = out[t]
      /\ IF NothingToSplit(old.raw) THEN h.out["gen/openapi"] = old
         ELSE h.out["gen/openapi"] = [raw |-> <<>>, docs |-> old.raw]
  BY <1>1, <1>2, SplitFacts
<1>4. old = [raw |-> old.raw, docs |-> old.docs]
  BY Others DEF OutInv, Shaped, IsOpenAPI
<1> HIDE DEF old
<1>5. h.out["gen/openapi"] = SplitTo(old.raw, old.docs)
  BY <1>3, <1>4 DEF SplitTo
<1>. QED
  BY <1>3, <1>5 DEF h, old

LEMMA RunWire ==
    ASSUME OutInv, NEW path, NEW force, NEW cache, CacheOf(cache, out),
           Run(WireGroup, path, force, cache).ok
    PROVE  LET h == Run(WireGroup, path, force, cache)
           IN  /\ \A t \in TargetSet \ {"gen/zengo", Migration} : h.out[t] = out[t]
               /\ h.out["gen/zengo"].register = out["gen/zengo"].register
               /\ h.out["gen/zengo"].schema = out["gen/zengo"].schema
               /\ CacheOf(h.cache, h.out) /\ WireIn(h.out)
               /\ h.out[Migration] = MigrationOf(out[Migration], out)
               /\ MigrationOf(out[Migration], out) # Failed
<1> DEFINE g == Begun(WireGroup, path, force, cache)
           h == Run(WireGroup, path, force, cache)
<1>1. IsGen(g) /\ g.ok /\ "wire" \in g.stages /\ g.cache = cache /\ g.out = out
      /\ g.manifest \in {Failed, Service}
  BY BegunFacts DEF WireGroup
<1>2. h = Wire(g) /\ h.ok
  BY RunOf
<1> HIDE DEF g, h
<1>3. /\ \A t \in TargetSet \ {"gen/zengo", Migration} : h.out[t] = out[t]
      /\ h.out["gen/zengo"].register = out["gen/zengo"].register
      /\ h.out["gen/zengo"].schema = out["gen/zengo"].schema
      /\ CacheOf(h.cache, h.out) /\ WireIn(h.out)
      /\ h.out[Migration] = MigrationOf(out[Migration], out)
      /\ MigrationOf(out[Migration], out) # Failed
  BY <1>1, <1>2, WireFacts
<1>. QED
  BY <1>3 DEF h

LEMMA RunRest ==
    ASSUME M!NilIsNoRecord, OutInv, NEW path, NEW force, NEW cache,
           Run(RestGroup, path, force, cache).ok
    PROVE  LET h == Run(RestGroup, path, force, cache)
           IN  /\ h.cache = cache /\ RestIn(h.out)
               /\ \A t \in {"gen/api", "gen/zengo", "gen/openapi", Migration} : h.out[t] = out[t]
               /\ "sqlc.yaml" \notin src.files => h.out["gen/db"] = out["gen/db"]
               /\ src.cql = 0 => h.out["gen/cql"] = out["gen/cql"]
               /\ ShouldTrackGeneratedMain(out) => ShouldTrackGeneratedMain(h.out)
<1> DEFINE g == Begun(RestGroup, path, force, cache)
           s == Sqlc(g)
           c == Cql(s)
           h == Run(RestGroup, path, force, cache)
<1>1. /\ IsGen(g) /\ g.ok /\ g.stages = RestGroup /\ g.cache = cache /\ g.out = out
      /\ g.manifest \in {Failed, Service}
  BY BegunFacts
<1>2. h = Main(c) /\ h.ok
  BY RunOf
<1> HIDE DEF g, h
<1>3. "sqlc" \in RestGroup /\ "cql" \in RestGroup /\ "docs" \in RestGroup /\ "main" \in RestGroup
  BY DEF RestGroup
<1>4. /\ IsGen(s) /\ s.cache = cache /\ s.ok /\ s.stages = RestGroup /\ s.manifest \in {Failed, Service}
      /\ \A t \in TargetSet \ {"gen/db"} : s.out[t] = out[t]
      /\ "sqlc.yaml" \in src.files =>
           /\ s.out["gen/db"] # Nil
           /\ s.out["gen/db"].queries = src.queries /\ s.out["gen/db"].schema = MigrationBody(s.out)
      /\ "sqlc.yaml" \notin src.files => s.out["gen/db"] = out["gen/db"]
  BY <1>1, <1>3, SqlcFacts
<1> HIDE DEF s
<1>5. /\ IsGen(c) /\ c.cache = cache /\ c.ok /\ c.stages = RestGroup /\ c.manifest \in {Failed, Service}
      /\ \A t \in TargetSet \ {"gen/cql"} : c.out[t] = s.out[t]
      /\ c.out["gen/cql"] = IF src.cql # 0 THEN src.cql ELSE s.out["gen/cql"]
  BY <1>3, <1>4, CqlFacts
<1> HIDE DEF c
<1>6. /\ h.cache = c.cache
      /\ \A t \in TargetSet \ {"cmd/main.go", ".cursor/rules", "docs/PROTO_REGISTRY.md"} :
           h.out[t] = c.out[t]
      /\ ShouldTrackGeneratedMain(c.out) => ShouldTrackGeneratedMain(h.out)
      /\ h.out["cmd/main.go"] # Nil
      /\ h.out["cmd/main.go"].Header => h.out["cmd/main.go"].Body = M!GenerateMain(Service)
      /\ h.out[".cursor/rules"] = Service.Service.Name
      /\ h.out["docs/PROTO_REGISTRY.md"] = Service.Service.Name
  BY <1>2, <1>3, <1>5, MainFacts
<1>7. /\ h.out["gen/api"] = out["gen/api"] /\ h.out["gen/zengo"] = out["gen/zengo"]
      /\ h.out[Migration] = out[Migration] /\ h.out[Migration] = s.out[Migration]
      /\ h.out["gen/db"] = s.out["gen/db"] /\ h.out["gen/cql"] = c.out["gen/cql"]
      /\ h.out["gen/openapi"] = out["gen/openapi"] /\ s.out["gen/cql"] = out["gen/cql"]
      /\ c.out["cmd/main.go"] = out["cmd/main.go"]
  BY <1>4, <1>5, <1>6 DEF TargetSet, Migration
<1>8. MigrationBody(h.out) = MigrationBody(s.out)
  BY <1>7 DEF MigrationBody, Migration
<1>9. RestIn(h.out)
  BY <1>4, <1>5, <1>6, <1>7, <1>8 DEF RestIn
<1>10. ShouldTrackGeneratedMain(out) => ShouldTrackGeneratedMain(h.out)
  BY <1>6, <1>7 DEF ShouldTrackGeneratedMain
<1>11. /\ "sqlc.yaml" \notin src.files => h.out["gen/db"] = out["gen/db"]
       /\ src.cql = 0 => h.out["gen/cql"] = out["gen/cql"]
  BY <1>4, <1>5, <1>7
<1>. QED
  BY <1>5, <1>6, <1>7, <1>9, <1>10, <1>11 DEF h

-----------------------------------------------------------------------------
(* Through the stages of a check that nobody disturbs: what has been made, of  *)
(* the sources and of what the check found.                                    *)

\* The API and the registrations.
ApiMade ==
    IF "skipBuf" \in tool.flags
    THEN /\ out["gen/api"] = tool.found["gen/api"]
         /\ out["gen/zengo"].register = tool.found["gen/zengo"].register
         /\ out["gen/zengo"].schema = tool.found["gen/zengo"].schema
    ELSE /\ ApiIn(out)
         /\ \A seg \in Segments \ DOMAIN ApiFiles :
              /\ out["gen/api"][seg] = tool.found["gen/api"][seg]
              /\ out["gen/zengo"].register[seg] = tool.found["gen/zengo"].register[seg]

\* What is split, and what that leaves.
RawFound ==
    IF "skipBuf" \in tool.flags THEN tool.found["gen/openapi"].raw
    ELSE Beside(tool.found["gen/openapi"].raw)
DocsMade == out["gen/openapi"] = SplitTo(RawFound, tool.found["gen/openapi"].docs)

MigrationMade ==
    /\ out[Migration] = MigrationOf(tool.found[Migration], out)
    /\ MigrationOf(tool.found[Migration], out) # Failed

\* What no stage writes without a reason.
Untouched ==
    /\ "sqlc.yaml" \notin src.files => out["gen/db"] = tool.found["gen/db"]
    /\ src.cql = 0 => out["gen/cql"] = tool.found["gen/cql"]
    /\ ShouldTrackGeneratedMain(tool.found) => ShouldTrackGeneratedMain(out)

MadeApi == ApiMade /\ DocsMade /\ CacheOf(tool.cache, out)
MadeAll == MadeApi /\ WireIn(out) /\ MigrationMade /\ RestIn(out) /\ Untouched

\* A second generation begins with what the first one made.
Generating ==
    \/ /\ tool.todo = <<Proto, WireGroup, RestGroup>> /\ "skipBuf" \notin tool.flags
       /\ tool.cache = <<>> /\ out = tool.found
    \/ /\ tool.todo = <<Reproto, WireGroup, RestGroup>> /\ "skipBuf" \in tool.flags
       /\ tool.cache = <<>> /\ out = tool.found
    \/ tool.todo = <<Reproto, WireGroup, RestGroup>> /\ MadeApi /\ MigrationMade /\ Untouched
    \/ /\ tool.todo = <<WireGroup, RestGroup>> /\ MadeApi /\ Untouched
       /\ out[Migration] = tool.found[Migration] \/ MigrationMade
    \/ tool.todo = <<RestGroup>> /\ MadeApi /\ WireIn(out) /\ MigrationMade /\ Untouched
    \/ tool.todo = <<>> /\ MadeAll

Progress ==
    tool.cmd = "check" /\ tool.alone =>
        /\ tool.pc = "gen" => Generating
        /\ tool.pc = "restore" /\ tool.result \in {"ok", "stale"} =>
             /\ MadeAll
             /\ tool.result = "ok" <=> \A t \in DOMAIN tool.snapshot : out[t] = tool.snapshot[t]

\* The sources stay as they are.
LEMMA SameSources ==
    ASSUME UNCHANGED src, NEW o, out' = o
    PROVE  /\ ApiFiles' = ApiFiles
           /\ ApiIn(out)' <=> ApiIn(o)
           /\ WireIn(out)' <=> WireIn(o)
           /\ RestIn(out)' <=> RestIn(o)
           /\ \A x : MigrationOf(x, out)' = MigrationOf(x, o)
<1>1. Service' = Service
  BY DEF Service
<1>2. ApiNow' = ApiNow
  BY DEF ApiNow
<1>3. ApiFiles' = ApiFiles
  BY <1>2 DEF ApiFiles
<1>4. LegacyVersions(Service)' = LegacyVersions(Service)
  BY <1>1, <1>2 DEF LegacyVersions
<1>5. ApiIn(out)' <=> ApiIn(o)
  BY <1>3 DEF ApiIn
<1>6. WireIn(out)' <=> WireIn(o)
  BY <1>4 DEF WireIn
<1>7. RestIn(out)' <=> RestIn(o)
  BY <1>1 DEF RestIn
<1>8. \A x : MigrationOf(x, out)' = MigrationOf(x, o)
  BY <1>1 DEF MigrationOf
<1>. QED
  BY <1>3, <1>5, <1>6, <1>7, <1>8

\* What has been made stays, where the stages do not write it.
LEMMA SameApi ==
    ASSUME UNCHANGED src, tool'.flags = tool.flags, tool'.found = tool.found,
           out'["gen/api"] = out["gen/api"],
           out'["gen/zengo"].register = out["gen/zengo"].register,
           out'["gen/zengo"].schema = out["gen/zengo"].schema, ApiMade
    PROVE  ApiMade'
<1>1. ApiFiles' = ApiFiles
  BY SameSources
<1>2. ApiIn(out) => ApiIn(out)'
  BY <1>1 DEF ApiIn
<1>. QED
  BY <1>1, <1>2 DEF ApiMade

LEMMA SameDocs ==
    ASSUME UNCHANGED src, tool'.flags = tool.flags, tool'.found = tool.found,
           out'["gen/openapi"] = out["gen/openapi"], DocsMade
    PROVE  DocsMade'
<1>1. ApiFiles' = ApiFiles
  BY SameSources
<1>2. RawFound' = RawFound
  BY <1>1 DEF RawFound, Beside
<1>. QED
  BY <1>2 DEF DocsMade

LEMMA SameMigration ==
    ASSUME UNCHANGED src, tool'.found = tool.found, out'[Migration] = out[Migration],
           out'["gen/zengo"].schema = out["gen/zengo"].schema, MigrationMade
    PROVE  MigrationMade'
<1>1. Service' = Service
  BY DEF Service
<1>2. RepositorySchema(out)' = RepositorySchema(out)
  BY DEF RepositorySchema
<1>3. MigrationOf(tool.found[Migration], out)' = MigrationOf(tool.found[Migration], out)
  BY <1>1, <1>2 DEF MigrationOf
<1>. QED
  BY <1>3 DEF MigrationMade

LEMMA SameMade ==
    ASSUME UNCHANGED <<src, out>>, tool'.flags = tool.flags, tool'.cache = tool.cache,
           tool'.found = tool.found
    PROVE  /\ MadeApi => MadeApi'
           /\ WireIn(out) => WireIn(out)'
           /\ MigrationMade => MigrationMade'
           /\ RestIn(out) => RestIn(out)'
           /\ Untouched => Untouched'
<1>1. ApiMade => ApiMade'
  BY SameApi
<1>2. DocsMade => DocsMade'
  BY SameDocs
<1>3. CacheOf(tool.cache, out) => CacheOf(tool.cache, out)'
  BY DEF CacheOf
<1>4. /\ WireIn(out) => WireIn(out)'
      /\ RestIn(out) => RestIn(out)'
  BY SameSources
<1>5. MigrationMade => MigrationMade'
  BY SameMigration
<1>6. Untouched => Untouched'
  BY DEF Untouched
<1>. QED
  BY <1>1, <1>2, <1>3, <1>4, <1>5, <1>6 DEF MadeApi

LEMMA NothingRemembered == ASSUME NEW o PROVE CacheOf(<<>>, o)
BY DEF CacheOf

\* A check begins.
LEMMA ProgressBegins ==
    ASSUME IInv, Check
    PROVE  Progress'
<1>1. CASE End
  BY <1>1, IdleFields DEF End, Progress
<1>2. CASE ~End
  <2> DEFINE tracks == ShouldTrackGeneratedMain(out)
             targets == TrackedTargets(Service)
             quiet == dev.pc \in {"off", "exited"}
             New(flags, force, alone) ==
               [Started("check") EXCEPT
                  !.flags = flags, !.again = "skipBuf" \notin flags, !.todo = Stages(flags),
                  !.force = force, !.targets = targets, !.snapshot = [t \in targets |-> out[t]],
                  !.found = out, !.alone = alone]
  <2>1. \E flags \in CheckCommand :
           "skipGen" \notin flags /\ tool' = New(flags, tracks, quiet)
    BY <1>2 DEF Check
  <2> HIDE DEF targets
  <2>2. Started("check").cache = <<>>
    BY DEF Started, Idle
  <2>3. \A flags, force, alone :
          LET new == New(flags, force, alone) IN
          /\ new.pc = "gen" /\ new.flags = flags /\ new.todo = Stages(flags)
          /\ new.cache = Started("check").cache /\ new.found = out
    BY StartedFields, IdleFields
  <2> HIDE DEF New
  <2>4. PICK flags \in CheckCommand :
          /\ "skipGen" \notin flags /\ tool'.pc = "gen" /\ tool'.flags = flags
          /\ tool'.todo = Stages(flags) /\ tool'.cache = <<>> /\ tool'.found = out
    BY <2>1, <2>2, <2>3
  <2>5. tool'.todo = IF "skipBuf" \in flags THEN <<Reproto, WireGroup, RestGroup>>
                     ELSE <<Proto, WireGroup, RestGroup>>
    BY <2>4, StagesOfCheck
  <2>6. out' = tool'.found
    BY <2>4 DEF Check
  <2>7. Generating'
    BY <2>4, <2>5, <2>6 DEF Generating
  <2>. QED
    BY <2>4, <2>7 DEF Progress
<1>. QED
  BY <1>1, <1>2

\* What is left to split has been split.
LEMMA SplitAgain ==
    ASSUME NEW raw, NEW docs
    PROVE  LET made == SplitTo(raw, docs) IN SplitTo(made.raw, made.docs) = made
<1>1. NothingToSplit(<<>>)
  BY DEF NothingToSplit
<1>2. CASE NothingToSplit(raw)
  BY <1>2 DEF SplitTo
<1>3. CASE ~NothingToSplit(raw)
  BY <1>1, <1>3 DEF SplitTo
<1>. QED
  BY <1>2, <1>3

\* A migration that was made is made again from the same tables.
LEMMA MigrateAgain ==
    ASSUME NEW x, NEW o, NEW p, RepositorySchema(p) = RepositorySchema(o)
    PROVE  /\ MigrationOf(x, p) = MigrationOf(x, o)
           /\ MigrationOf(x, o) # Failed => MigrationOf(MigrationOf(x, o), p) = MigrationOf(x, o)
<1>1. MigrationOf(x, p) = MigrationOf(x, o)
  BY DEF MigrationOf
<1>2. ASSUME NEW tables, GeneratePostgresMigration(Postgres(Service), x, tables) # Failed
      PROVE  LET y == GeneratePostgresMigration(Postgres(Service), x, tables)
             IN  GeneratePostgresMigration(Postgres(Service), y, tables) = y
  BY <1>2 DEF GeneratePostgresMigration, Managed
<1>. QED
  BY <1>1, <1>2 DEF MigrationOf

\* The generation of the API.
LEMMA ProtoProgress ==
    ASSUME IInv, UNCHANGED src, out = tool.found, "skipBuf" \notin tool.flags, tool.cache = <<>>,
           NEW step, step = Run(Proto, tool.path, tool.force, tool.cache), step.ok,
           out' = step.out, tool'.cache = step.cache, tool'.flags = tool.flags, tool'.found = tool.found
    PROVE  MadeApi' /\ Untouched' /\ out'[Migration] = tool'.found[Migration]
<1>1. /\ ApiIn(step.out) /\ step.cache = <<>>
      /\ \A seg \in Segments \ DOMAIN ApiFiles :
           /\ step.out["gen/api"][seg] = out["gen/api"][seg]
           /\ step.out["gen/zengo"].register[seg] = out["gen/zengo"].register[seg]
      /\ step.out["gen/openapi"] = SplitTo(Beside(out["gen/openapi"].raw), out["gen/openapi"].docs)
      /\ \A t \in TargetSet \ {"gen/api", "gen/zengo", "gen/openapi"} : step.out[t] = out[t]
  BY RunProto DEF IInv
<1>2. ApiFiles' = ApiFiles /\ ApiIn(out)'
  BY <1>1, SameSources
<1>3. ApiMade'
  BY <1>1, <1>2 DEF ApiMade
<1>4. RawFound' = Beside(out["gen/openapi"].raw)
  BY <1>2 DEF RawFound, Beside
<1>5. DocsMade'
  BY <1>1, <1>4 DEF DocsMade
<1>6. CacheOf(tool.cache, out)'
  BY <1>1, NothingRemembered
<1>7. /\ step.out["gen/db"] = out["gen/db"] /\ step.out["gen/cql"] = out["gen/cql"]
      /\ step.out["cmd/main.go"] = out["cmd/main.go"] /\ step.out[Migration] = out[Migration]
  BY <1>1 DEF TargetSet, Migration
<1>8. Untouched'
  BY <1>7 DEF Untouched, ShouldTrackGeneratedMain
<1>. QED
  BY <1>3, <1>5, <1>6, <1>7, <1>8 DEF MadeApi

\* Without buf: on what the check found, or on what it has made.
LEMMA ReprotoProgress ==
    ASSUME IInv, UNCHANGED src,
           \/ out = tool.found /\ "skipBuf" \in tool.flags /\ tool.cache = <<>>
           \/ MadeApi /\ Untouched,
           NEW step, step = Run(Reproto, tool.path, tool.force, tool.cache), step.ok,
           out' = step.out, tool'.cache = step.cache, tool'.flags = tool.flags, tool'.found = tool.found
    PROVE  /\ MadeApi' /\ Untouched' /\ out'[Migration] = out[Migration]
           /\ MigrationMade => MigrationMade'
<1>1. /\ step.cache = tool.cache
      /\ \A t \in TargetSet \ {"gen/openapi"} : step.out[t] = out[t]
      /\ step.out["gen/openapi"] = SplitTo(out["gen/openapi"].raw, out["gen/openapi"].docs)
  BY RunReproto DEF IInv
<1>2. /\ out'["gen/api"] = out["gen/api"] /\ out'["gen/zengo"] = out["gen/zengo"]
      /\ out'["gen/db"] = out["gen/db"] /\ out'["gen/cql"] = out["gen/cql"]
      /\ out'["cmd/main.go"] = out["cmd/main.go"] /\ out'[Migration] = out[Migration]
  BY <1>1 DEF TargetSet, Migration
<1>3. ApiMade
  BY DEF ApiMade, MadeApi
<1>4. ApiMade'
  BY <1>2, <1>3, SameApi
<1>5. DocsMade'
  <2>1. ApiFiles' = ApiFiles
    BY SameSources
  <2>2. RawFound' = RawFound
    BY <2>1 DEF RawFound, Beside
  <2>3. CASE out = tool.found /\ "skipBuf" \in tool.flags
    BY <1>1, <2>2, <2>3 DEF DocsMade, RawFound
  <2>4. CASE DocsMade
    BY <1>1, <2>2, <2>4, SplitAgain DEF DocsMade
  <2>. QED
    BY <2>3, <2>4 DEF MadeApi
<1>6. CacheOf(tool.cache, out)'
  BY <1>1, <1>2, NothingRemembered DEF CacheOf, MadeApi
<1>7. Untouched'
  <2>1. Untouched
    BY DEF Untouched
  <2>. QED
    BY <1>2, <2>1 DEF Untouched, ShouldTrackGeneratedMain
<1>8. MigrationMade => MigrationMade'
  BY <1>2, SameMigration
<1>. QED
  BY <1>2, <1>4, <1>5, <1>6, <1>7, <1>8 DEF MadeApi

LEMMA WireProgress ==
    ASSUME IInv, UNCHANGED src, MadeApi, Untouched,
           out[Migration] = tool.found[Migration] \/ MigrationMade,
           NEW step, step = Run(WireGroup, tool.path, tool.force, tool.cache), step.ok,
           out' = step.out, tool'.cache = step.cache, tool'.flags = tool.flags, tool'.found = tool.found
    PROVE  MadeApi' /\ WireIn(out)' /\ MigrationMade' /\ Untouched'
<1> DEFINE x == tool.found[Migration]
<1>1. CacheOf(tool.cache, out)
  BY DEF MadeApi
<1>2. /\ \A t \in TargetSet \ {"gen/zengo", Migration} : step.out[t] = out[t]
      /\ step.out["gen/zengo"].register = out["gen/zengo"].register
      /\ step.out["gen/zengo"].schema = out["gen/zengo"].schema
      /\ CacheOf(step.cache, step.out) /\ WireIn(step.out)
      /\ step.out[Migration] = MigrationOf(out[Migration], out)
      /\ MigrationOf(out[Migration], out) # Failed
  BY <1>1, RunWire DEF IInv
<1>3. /\ out'["gen/api"] = out["gen/api"] /\ out'["gen/openapi"] = out["gen/openapi"]
      /\ out'["gen/db"] = out["gen/db"] /\ out'["gen/cql"] = out["gen/cql"]
      /\ out'["cmd/main.go"] = out["cmd/main.go"]
  BY <1>2 DEF TargetSet, Migration
<1>4. ApiMade'
  BY <1>2, <1>3, SameApi DEF MadeApi
<1>5. DocsMade'
  BY <1>3, SameDocs DEF MadeApi
<1>6. CacheOf(tool.cache, out)' /\ WireIn(out)'
  BY <1>2, SameSources DEF CacheOf
<1>7. Untouched'
  BY <1>3 DEF Untouched, ShouldTrackGeneratedMain
<1>8. RepositorySchema(step.out) = RepositorySchema(out)
  BY <1>2 DEF RepositorySchema
<1>9. /\ MigrationOf(x, out)' = MigrationOf(x, step.out)
      /\ MigrationOf(x, step.out) = MigrationOf(x, out)
  <2>1. MigrationOf(x, step.out) = MigrationOf(x, out)
    BY <1>8, MigrateAgain
  <2>2. Service' = Service
    BY DEF Service
  <2>3. MigrationOf(x, out)' = MigrationOf(x, step.out)
    BY <2>2 DEF MigrationOf, RepositorySchema
  <2>. QED
    BY <2>1, <2>3
<1>10. step.out[Migration] = MigrationOf(x, out) /\ MigrationOf(x, out) # Failed
  <2>1. CASE out[Migration] = x
    BY <1>2, <2>1
  <2>2. CASE MigrationMade
    BY <1>2, <2>2, MigrateAgain DEF MigrationMade
  <2>. QED
    BY <2>1, <2>2
<1>11. MigrationMade'
  BY <1>9, <1>10 DEF MigrationMade
<1>. QED
  BY <1>4, <1>5, <1>6, <1>7, <1>11 DEF MadeApi

LEMMA RestProgress ==
    ASSUME M!NilIsNoRecord, IInv, UNCHANGED src, MadeApi, WireIn(out), MigrationMade, Untouched,
           NEW step, step = Run(RestGroup, tool.path, tool.force, tool.cache), step.ok,
           out' = step.out, tool'.cache = step.cache, tool'.flags = tool.flags, tool'.found = tool.found
    PROVE  MadeAll'
<1>1. /\ step.cache = tool.cache /\ RestIn(step.out)
      /\ \A t \in {"gen/api", "gen/zengo", "gen/openapi", Migration} : step.out[t] = out[t]
      /\ "sqlc.yaml" \notin src.files => step.out["gen/db"] = out["gen/db"]
      /\ src.cql = 0 => step.out["gen/cql"] = out["gen/cql"]
      /\ ShouldTrackGeneratedMain(out) => ShouldTrackGeneratedMain(step.out)
  BY RunRest DEF IInv
<1>2. /\ out'["gen/api"] = out["gen/api"] /\ out'["gen/zengo"] = out["gen/zengo"]
      /\ out'["gen/openapi"] = out["gen/openapi"] /\ out'[Migration] = out[Migration]
  BY <1>1
<1>3. ApiMade' /\ DocsMade' /\ MigrationMade'
  BY <1>2, SameApi, SameDocs, SameMigration DEF MadeApi
<1>4. WireIn(step.out)
  BY <1>1 DEF WireIn
<1>5. WireIn(out)' /\ RestIn(out)'
  BY <1>1, <1>4, SameSources
<1>6. CacheOf(tool.cache, out)'
  BY <1>1, <1>2 DEF CacheOf, MadeApi
<1>7. Untouched'
  BY <1>1 DEF Untouched, ShouldTrackGeneratedMain
<1>. QED
  BY <1>3, <1>5, <1>6, <1>7 DEF MadeApi, MadeAll

\* A group of its stages succeeds.
LEMMA StageProgress ==
    ASSUME M!NilIsNoRecord, IInv, ToolStage, Generating,
           NEW step, step = Run(Head(tool.todo), tool.path, tool.force, tool.cache), step.ok,
           tool'.todo = Tail(tool.todo), tool'.cache = step.cache, tool'.flags = tool.flags,
           tool'.found = tool.found
    PROVE  Generating'
<1>1. out' = step.out /\ UNCHANGED src /\ tool.todo # <<>>
  BY DEF ToolStage
<1>2. CASE /\ tool.todo = <<Proto, WireGroup, RestGroup>> /\ "skipBuf" \notin tool.flags
           /\ tool.cache = <<>> /\ out = tool.found
  <2>1. Head(tool.todo) = Proto /\ tool'.todo = <<WireGroup, RestGroup>>
    BY <1>2
  <2>2. MadeApi' /\ Untouched' /\ out'[Migration] = tool'.found[Migration]
    BY <1>1, <1>2, <2>1, ProtoProgress
  <2>. QED
    BY <2>1, <2>2 DEF Generating
<1>3. CASE /\ tool.todo = <<Reproto, WireGroup, RestGroup>> /\ "skipBuf" \in tool.flags
           /\ tool.cache = <<>> /\ out = tool.found
  <2>1. Head(tool.todo) = Reproto /\ tool'.todo = <<WireGroup, RestGroup>>
    BY <1>3
  <2>2. MadeApi' /\ Untouched' /\ out'[Migration] = out[Migration]
    BY <1>1, <1>3, <2>1, ReprotoProgress
  <2>. QED
    BY <1>3, <2>1, <2>2 DEF Generating
<1>4. CASE tool.todo = <<Reproto, WireGroup, RestGroup>> /\ MadeApi /\ MigrationMade /\ Untouched
  <2>1. Head(tool.todo) = Reproto /\ tool'.todo = <<WireGroup, RestGroup>>
    BY <1>4
  <2>2. MadeApi' /\ Untouched' /\ MigrationMade'
    BY <1>1, <1>4, <2>1, ReprotoProgress
  <2>. QED
    BY <2>1, <2>2 DEF Generating
<1>5. CASE /\ tool.todo = <<WireGroup, RestGroup>> /\ MadeApi /\ Untouched
           /\ out[Migration] = tool.found[Migration] \/ MigrationMade
  <2>1. Head(tool.todo) = WireGroup /\ tool'.todo = <<RestGroup>>
    BY <1>5
  <2>2. MadeApi' /\ WireIn(out)' /\ MigrationMade' /\ Untouched'
    BY <1>1, <1>5, <2>1, WireProgress
  <2>. QED
    BY <2>1, <2>2 DEF Generating
<1>6. CASE tool.todo = <<RestGroup>> /\ MadeApi /\ WireIn(out) /\ MigrationMade /\ Untouched
  <2>1. Head(tool.todo) = RestGroup /\ tool'.todo = <<>>
    BY <1>6
  <2>2. MadeAll'
    BY <1>1, <1>6, <2>1, RestProgress
  <2>. QED
    BY <2>1, <2>2 DEF Generating
<1>. QED
  BY <1>1, <1>2, <1>3, <1>4, <1>5, <1>6 DEF Generating

\* The stages are done: once more without buf, or the comparison.
LEMMA ComparisonProgress ==
    ASSUME IInv, Progress, CheckGenerated
    PROVE  Progress'
<1> SUFFICES ASSUME tool'.alone PROVE Progress'
  BY DEF Progress
<1> DEFINE Again(todo) == [tool EXCEPT !.todo = todo, !.again = FALSE]
           differs == \E t \in DOMAIN tool.snapshot : out[t] # tool.snapshot[t]
           Ends(result) == [tool EXCEPT !.pc = "restore", !.result = result]
<1>1. \/ tool' = Again(Stages({"skipBuf"}))
      \/ tool' = Ends(IF differs THEN "stale" ELSE "ok")
  BY DEF CheckGenerated
<1>2. /\ \A todo : /\ Again(todo).todo = todo /\ Again(todo).pc = tool.pc
                   /\ Again(todo).flags = tool.flags /\ Again(todo).cache = tool.cache
                   /\ Again(todo).alone = tool.alone /\ Again(todo).found = tool.found
      /\ \A result : /\ Ends(result).pc = "restore" /\ Ends(result).result = result
                     /\ Ends(result).flags = tool.flags /\ Ends(result).cache = tool.cache
                     /\ Ends(result).found = tool.found
                     /\ Ends(result).snapshot = tool.snapshot /\ Ends(result).alone = tool.alone
  BY IdleFields DEF IInv, ToolInv
<1>3. tool.cmd = "check" /\ tool.pc = "gen" /\ tool.todo = <<>> /\ UNCHANGED <<src, out>>
  BY DEF CheckGenerated
<1> HIDE DEF Again, Ends
<1>4. tool'.flags = tool.flags /\ tool'.cache = tool.cache /\ tool'.found = tool.found /\ tool.alone
  BY <1>1, <1>2
<1>5. Generating
  BY <1>3, <1>4 DEF Progress
<1>6. MadeAll
  BY <1>3, <1>5 DEF Generating
<1>7. MadeAll'
  BY <1>3, <1>4, <1>6, SameMade DEF MadeAll
<1>8. CASE tool' = Again(Stages({"skipBuf"}))
  <2>1. tool'.todo = <<Reproto, WireGroup, RestGroup>> /\ tool'.pc = "gen"
    BY <1>2, <1>3, <1>8, StagesOfCheck
  <2>2. Generating'
    BY <1>7, <2>1 DEF Generating, MadeAll
  <2>. QED
    BY <2>1, <2>2 DEF Progress
<1>9. CASE tool' = Ends(IF differs THEN "stale" ELSE "ok")
  <2>1. /\ tool'.pc = "restore" /\ tool'.result = IF differs THEN "stale" ELSE "ok"
        /\ tool'.snapshot = tool.snapshot
    BY <1>2, <1>9
  <2>2. tool'.result = "ok" <=> \A t \in DOMAIN tool.snapshot : out[t] = tool.snapshot[t]
    BY <2>1
  <2>3. tool'.result = "ok" <=> \A t \in DOMAIN tool'.snapshot : out'[t] = tool'.snapshot[t]
    BY <1>3, <2>1, <2>2
  <2>. QED
    BY <1>7, <2>1, <2>3 DEF Progress
<1>. QED
  BY <1>1, <1>8, <1>9

LEMMA ProgressStep ==
    ASSUME M!NilIsNoRecord, IInv, CheckInv, Progress, [Next]_vars
    PROVE  Progress'
<1>1. CASE Check
  BY <1>1, ProgressBegins
<1>2. CASE tool'.cmd # "check"
  BY <1>2 DEF Progress
<1>3. CASE tool' = [tool EXCEPT !.alone = FALSE]
  BY <1>3, IdleFields DEF Progress, IInv, ToolInv
<1>4. CASE UNCHANGED vars
  <2>1. UNCHANGED <<src, out, tool>>
    BY <1>4 DEF vars
  <2>2. /\ MadeApi => MadeApi'
        /\ WireIn(out) => WireIn(out)'
        /\ MigrationMade => MigrationMade'
        /\ RestIn(out) => RestIn(out)'
        /\ Untouched => Untouched'
    BY <2>1, SameMade
  <2>3. MadeAll => MadeAll'
    BY <2>2 DEF MadeAll
  <2>4. Generating => Generating'
    BY <2>1, <2>2, <2>3 DEF Generating
  <2>. QED
    BY <2>1, <2>3, <2>4 DEF Progress
<1>5. CASE ToolStage /\ ~End
  <2> DEFINE step == Run(Head(tool.todo), tool.path, tool.force, tool.cache)
             Goes(todo, cache) == [tool EXCEPT !.todo = todo, !.cache = cache]
             failed == [tool EXCEPT !.pc = "restore", !.todo = <<>>, !.result = "failed"]
  <2>1. (step.ok /\ tool' = Goes(Tail(tool.todo), step.cache)) \/ tool' = failed
    <3> HIDE DEF step
    <3>. QED
      BY <1>5 DEF ToolStage, step
  <2>2. /\ \A todo, cache : /\ Goes(todo, cache).todo = todo /\ Goes(todo, cache).cache = cache
                            /\ Goes(todo, cache).pc = tool.pc /\ Goes(todo, cache).cmd = tool.cmd
                            /\ Goes(todo, cache).alone = tool.alone
                            /\ Goes(todo, cache).flags = tool.flags
                            /\ Goes(todo, cache).found = tool.found
        /\ failed.pc = "restore" /\ failed.result = "failed"
    BY IdleFields DEF IInv, ToolInv
  <2> HIDE DEF step, Goes, failed
  <2>3. CASE tool' = failed
    BY <2>2, <2>3 DEF Progress
  <2>4. CASE step.ok /\ tool' = Goes(Tail(tool.todo), step.cache)
    <3>1. /\ tool'.todo = Tail(tool.todo) /\ tool'.cache = step.cache /\ tool'.flags = tool.flags
          /\ tool'.pc = "gen" /\ tool'.cmd = tool.cmd /\ tool'.alone = tool.alone
          /\ tool'.found = tool.found
      BY <1>5, <2>2, <2>4 DEF ToolStage
    <3>2. tool.cmd = "check" /\ tool.alone => Generating
      BY <1>5 DEF Progress, ToolStage
    <3>3. Generating => Generating'
      BY <1>5, <2>4, <3>1, StageProgress DEF step
    <3>. QED
      BY <3>1, <3>2, <3>3 DEF Progress
  <2>. QED
    BY <2>1, <2>3, <2>4
<1>6. CASE ToolProgramFails /\ ~End
  <2>1. tool' = [tool EXCEPT !.pc = "restore", !.todo = <<>>, !.result = "failed"]
    BY <1>6 DEF ToolProgramFails
  <2>2. tool'.pc = "restore" /\ tool'.result = "failed"
    BY <2>1, IdleFields DEF IInv, ToolInv
  <2>. QED
    BY <2>2 DEF Progress
<1>7. CASE UNCHANGED tool /\ dev.pc \in {"gen", "wait", "idle"}
  <2>1. tool.cmd = "check" => ~tool.alone
    BY <1>7 DEF CheckInv, Undisturbed
  <2>. QED
    BY <1>7, <2>1 DEF Progress
<1>8. CASE FreezeFile
  BY <1>8 DEF FreezeFile, IInv, ToolInv, Progress
<1>9. CASE CheckGenerated
  BY <1>9, ComparisonProgress
<1>. QED
  BY <1>1, <1>2, <1>3, <1>4, <1>5, <1>6, <1>7, <1>8, <1>9, NotACheck, DevActs, Disturbs
  DEF Next, ToolStep, DevStep


-----------------------------------------------------------------------------
(* The verdict, at the moment the check puts back what it found.               *)

Judged ==
    /\ IInv /\ CheckInv /\ tool.cmd = "check" /\ tool.alone /\ MadeAll
    /\ UNCHANGED src
    /\ out' = [t \in TargetSet |-> out'[t]]
    /\ \A t \in tool.targets : out'[t] = tool.found[t]
    /\ \A t \in TargetSet \ tool.targets : out'[t] = out[t]

\* The hub has files, so that buf makes documents.
LEMMA HubHasFiles ==
    /\ DOMAIN ApiFiles \subseteq Segments /\ "hub" \in DOMAIN ApiFiles
    /\ Beside(<<>>) = ApiFiles
    /\ \A g : Beside(g) # <<>>
<1>1. NumFiles \in Nat \ {0}
  BY WorkspaceAssumption
<1>2. HubRef(src.hub) # <<>>
  <2> HIDE DEF NumFiles
  <2>1. DOMAIN HubRef(src.hub) = 1..NumFiles /\ 1 \in 1..NumFiles
    BY <1>1 DEF HubRef
  <2>2. DOMAIN <<>> = {}
    OBVIOUS
  <2>. QED
    BY <2>1, <2>2
<1>3. "hub" \in DOMAIN ApiNow /\ ApiNow["hub"] # <<>>
  <2> HIDE DEF HubRef
  <2>. QED
    BY <1>2 DEF ApiNow
<1>4. DOMAIN ApiNow \subseteq Segments
  BY DEF ApiNow, Segments
<1>5. DOMAIN ApiFiles \subseteq Segments /\ "hub" \in DOMAIN ApiFiles
  <2> HIDE DEF ApiNow
  <2>. QED
    BY <1>3, <1>4 DEF ApiFiles
<1>6. ApiFiles = [seg \in DOMAIN ApiFiles |-> ApiFiles[seg]]
  BY DEF ApiFiles
<1> HIDE DEF ApiFiles
<1>7. Beside(<<>>) = ApiFiles
  <2>1. DOMAIN <<>> = {}
    OBVIOUS
  <2>. QED
    BY <1>6, <2>1 DEF Beside
<1>8. ASSUME NEW g PROVE Beside(g) # <<>>
  <2>1. "hub" \in DOMAIN Beside(g)
    BY <1>5 DEF Beside
  <2>2. DOMAIN <<>> = {}
    OBVIOUS
  <2>. QED
    BY <2>1, <2>2
<1>. QED
  BY <1>5, <1>7, <1>8

\* What the properties look at is named by the sources alone.
LEMMA FreshSources ==
    ASSUME UNCHANGED src
    PROVE  /\ ApiFiles' = ApiFiles /\ Service' = Service
           /\ LegacyVersions(Service)' = LegacyVersions(Service)
<1>1. Service' = Service
  BY DEF Service
<1>2. ApiNow' = ApiNow
  BY DEF ApiNow
<1>. QED
  BY <1>1, <1>2 DEF ApiFiles, LegacyVersions

\* What a check always tracks.
LEMMA AlwaysTracked ==
    ASSUME Judged
    PROVE  /\ {"gen/api", "gen/zengo", "gen/db", "gen/cql", ".cursor/rules", "docs/PROTO_REGISTRY.md"}
                \subseteq tool.targets
           /\ "gen/openapi" \in tool.targets <=> Service.REST # Nil
           /\ "cmd/main.go" \in tool.targets <=> Managed(tool.found["cmd/main.go"])
           /\ Migration \in tool.targets <=>
                ShouldTrackPostgresMigration(Postgres(Service), tool.found[Migration],
                                             RepositorySchema(tool.found))
           /\ tool.targets \subseteq TargetSet
           /\ \A t \in tool.targets : Shaped(t, tool.found[t])
<1>1. /\ tool.targets = Tracked(tool.found) /\ tool.snapshot = [t \in tool.targets |-> tool.found[t]]
      /\ \A t \in tool.targets : Shaped(t, tool.snapshot[t])
  BY DEF Judged, CheckInv, Undisturbed, IInv, ToolInv
<1>2. {"gen/api", "gen/zengo", "gen/db", "gen/cql", ".cursor/rules", "docs/PROTO_REGISTRY.md"}
         \subseteq tool.targets
  BY <1>1 DEF Tracked, TargetSet, Migration
<1>3. /\ "gen/openapi" \in tool.targets <=> Service.REST # Nil
      /\ "cmd/main.go" \in tool.targets <=> Managed(tool.found["cmd/main.go"])
  BY <1>1 DEF Tracked, TargetSet, Migration, ShouldTrackGeneratedMain
<1>4. Migration \in tool.targets <=>
        ShouldTrackPostgresMigration(Postgres(Service), tool.found[Migration],
                                     RepositorySchema(tool.found))
  BY <1>1 DEF Tracked, TargetSet, Migration
<1>5. tool.targets \subseteq TargetSet /\ \A t \in tool.targets : Shaped(t, tool.found[t])
  BY <1>1 DEF Tracked
<1>. QED
  BY <1>2, <1>3, <1>4, <1>5

-----------------------------------------------------------------------------
\* A check that finds no difference has made everything from the sources.
LEMMA NoDifference ==
    ASSUME M!NilIsNoRecord, Judged, \A t \in tool.targets : out[t] = tool.found[t],
           NEW skipBuf, skipBuf <=> "skipBuf" \in tool.flags
    PROVE  Fresh(Service, skipBuf)'
<1> DEFINE openapi == out["gen/openapi"]
<1>1. out' = out
  <2>1. \A t \in TargetSet : out'[t] = out[t]
    BY DEF Judged
  <2>2. out = [t \in TargetSet |-> out[t]]
    BY DEF Judged, IInv, OutInv
  <2>3. out' = [t \in TargetSet |-> out'[t]]
    BY DEF Judged
  <2>. QED
    BY <2>1, <2>2, <2>3
<1>2. /\ ApiMade /\ DocsMade /\ WireIn(out) /\ MigrationMade /\ RestIn(out)
  BY DEF Judged, MadeAll, MadeApi
<1>3. /\ ApiFiles' = ApiFiles /\ Service' = Service
      /\ LegacyVersions(Service)' = LegacyVersions(Service)
  BY FreshSources DEF Judged
<1>4. openapi = SplitTo(RawFound, tool.found["gen/openapi"].docs)
  BY <1>2 DEF DocsMade
<1>5. NothingToSplit(openapi.raw)
  <2>1. CASE NothingToSplit(RawFound)
    BY <1>4, <2>1 DEF SplitTo
  <2>2. CASE ~NothingToSplit(RawFound)
    <3>1. openapi.raw = <<>>
      BY <1>4, <2>2 DEF SplitTo
    <3>. QED
      BY <3>1 DEF NothingToSplit
  <2>. QED
    BY <2>1, <2>2
<1>6. ~skipBuf => ApiFresh'
  BY <1>1, <1>2, <1>3 DEF ApiMade, ApiIn, ApiFresh, Judged
<1>7. ~skipBuf => DocsFresh(Service)'
  <2> SUFFICES ASSUME ~skipBuf, Service.REST # Nil
               PROVE  IF openapi.raw = <<>> THEN openapi.docs = ApiFiles
                      ELSE openapi.raw = Beside(openapi.raw)
    BY <1>1, <1>3 DEF DocsFresh, Beside
  <2>1. openapi = tool.found["gen/openapi"]
    BY AlwaysTracked
  <2>2. openapi = SplitTo(Beside(openapi.raw), openapi.docs)
    BY <1>4, <2>1 DEF RawFound
  <2> HIDE DEF openapi
  <2>3. CASE NothingToSplit(Beside(openapi.raw))
    <3>1. openapi.raw = Beside(openapi.raw)
      BY <2>2, <2>3 DEF SplitTo
    <3>2. openapi.raw # <<>>
      BY <3>1, HubHasFiles
    <3>. QED
      BY <3>1, <3>2
  <2>4. CASE ~NothingToSplit(Beside(openapi.raw))
    <3>1. openapi.raw = <<>> /\ openapi.docs = Beside(openapi.raw)
      BY <2>2, <2>4 DEF SplitTo
    <3>2. openapi.docs = ApiFiles
      BY <3>1, HubHasFiles
    <3>. QED
      BY <3>1, <3>2
  <2>. QED
    BY <2>3, <2>4
<1>8. WireFresh(LegacyVersions(Service), out["gen/api"])
  BY <1>2 DEF WireIn, WireFresh
<1>9. FilesFresh(Service)
  <2>1. Postgres(Service) /\ RepositorySchema(out) \notin {Nil, {}} /\ Managed(out[Migration]) =>
           out[Migration] # Nil /\ out[Migration].Body = RepositorySchema(out)
    <3> DEFINE schemas == RepositorySchema(out)
    <3> SUFFICES ASSUME Postgres(Service), schemas \notin {Nil, {}}, Managed(out[Migration])
                 PROVE  out[Migration] # Nil /\ out[Migration].Body = schemas
      OBVIOUS
    <3>1. out[Migration] = GeneratePostgresMigration(Postgres(Service), tool.found[Migration], schemas)
      BY <1>2 DEF MigrationMade, MigrationOf
    <3> HIDE DEF schemas
    <3>2. out[Migration] = [Header |-> TRUE, Body |-> schemas]
      BY <3>1 DEF GeneratePostgresMigration
    <3>. QED
      BY <3>2, RecordIsNotNil
  <2>. QED
    BY <1>2, <2>1 DEF RestIn, FilesFresh, Migration
<1>10. QueriesFresh /\ CqlFresh
  BY <1>2 DEF RestIn, QueriesFresh, CqlFresh
<1>11. CodeFresh(Service)'
  BY <1>1, <1>3, <1>8, <1>9, <1>10 DEF Judged, CodeFresh, WireFresh, FilesFresh, QueriesFresh, CqlFresh
<1>. QED
  BY <1>1, <1>3, <1>5, <1>6, <1>7, <1>11 DEF Fresh

\* Where all that a check tracks is fresh, generating it again changes nothing.
LEMMA SameApiFound ==
    ASSUME Judged, "skipBuf" \in tool.flags \/ ApiFresh'
    PROVE  /\ out["gen/api"] = tool.found["gen/api"]
           /\ out["gen/zengo"].register = tool.found["gen/zengo"].register
           /\ out["gen/zengo"].schema = tool.found["gen/zengo"].schema
<1> DEFINE api == tool.found["gen/api"]
           zengo == tool.found["gen/zengo"]
<1>1. ApiMade
  BY DEF Judged, MadeAll, MadeApi
<1>2. CASE "skipBuf" \in tool.flags
  BY <1>1, <1>2 DEF ApiMade
<1>3. CASE "skipBuf" \notin tool.flags
  <2>1. /\ out'["gen/api"] = api /\ out'["gen/zengo"] = zengo
        /\ Shaped("gen/api", api) /\ Shaped("gen/zengo", zengo)
    BY AlwaysTracked DEF Judged
  <2>2. ApiFiles' = ApiFiles /\ src' = src
    BY FreshSources DEF Judged
  <2>3. /\ \A seg \in DOMAIN ApiFiles : api[seg] = ApiFiles[seg] /\ zengo.register[seg] = ApiFiles[seg]
        /\ zengo.schema = src.hub
    BY <1>3, <2>1, <2>2 DEF ApiFresh
  <2>4. /\ ApiIn(out)
        /\ \A seg \in Segments \ DOMAIN ApiFiles :
             out["gen/api"][seg] = api[seg] /\ out["gen/zengo"].register[seg] = zengo.register[seg]
    BY <1>1, <1>3 DEF ApiMade
  <2>5. \A seg \in Segments :
          out["gen/api"][seg] = api[seg] /\ out["gen/zengo"].register[seg] = zengo.register[seg]
    BY <2>3, <2>4 DEF ApiIn
  <2>6. /\ out["gen/api"] = [seg \in Segments |-> out["gen/api"][seg]]
        /\ IsZengo(out["gen/zengo"])
    BY Others DEF Judged, IInv, OutInv, Shaped
  <2>7. /\ api = [seg \in Segments |-> api[seg]]
        /\ IsZengo(zengo)
    BY <2>1 DEF Shaped
  <2>8. out["gen/zengo"].schema = zengo.schema
    BY <2>3, <2>4 DEF ApiIn
  <2>9. out["gen/api"] = api
    <3> HIDE DEF api
    <3>. QED
      BY <2>5, <2>6, <2>7
  <2>10. out["gen/zengo"].register = zengo.register
    <3>1. /\ out["gen/zengo"].register = [seg \in Segments |-> out["gen/zengo"].register[seg]]
          /\ zengo.register = [seg \in Segments |-> zengo.register[seg]]
      BY <2>6, <2>7 DEF IsZengo
    <3> HIDE DEF zengo
    <3>. QED
      BY <2>5, <3>1
  <2>. QED
    BY <2>8, <2>9, <2>10
<1>. QED
  BY <1>2, <1>3

LEMMA SameZengoFound ==
    ASSUME Judged, WireFresh(LegacyVersions(Service), out["gen/api"])',
           "skipBuf" \in tool.flags \/ ApiFresh'
    PROVE  out["gen/zengo"] = tool.found["gen/zengo"]
<1> DEFINE api == out["gen/api"]
           made == out["gen/zengo"]
           zengo == tool.found["gen/zengo"]
           legacy == LegacyVersions(Service)
<1>1. /\ api = tool.found["gen/api"] /\ made.register = zengo.register /\ made.schema = zengo.schema
  BY SameApiFound
<1>2. /\ out'["gen/api"] = api /\ out'["gen/zengo"] = zengo /\ Shaped("gen/zengo", zengo)
  BY <1>1, AlwaysTracked DEF Judged
<1>3. LegacyVersions(Service)' = legacy
  BY FreshSources DEF Judged
<1>4. /\ \A v \in Versions : zengo.convert[v] = IF v \in legacy THEN Adapted(v, api) ELSE Nil
      /\ zengo.runtime = [Hub |-> api["hub"], Register |-> zengo.register["hub"], Versions |-> legacy]
  BY <1>2, <1>3 DEF WireFresh
<1>5. /\ \A v \in Versions : made.convert[v] = IF v \in legacy THEN Adapted(v, api) ELSE Nil
      /\ made.runtime = [Hub |-> api["hub"], Register |-> made.register["hub"], Versions |-> legacy]
  BY DEF Judged, MadeAll, WireIn
<1>6. IsZengo(made) /\ IsZengo(zengo)
  BY <1>2, Others DEF Judged, IInv, OutInv, Shaped
<1> HIDE DEF api, made, zengo, legacy
<1>7. made.convert = zengo.convert
  <2>1. \A v \in Versions : made.convert[v] = zengo.convert[v]
    BY <1>4, <1>5
  <2>. QED
    BY <1>6, <2>1 DEF IsZengo
<1>8. made.runtime = zengo.runtime
  BY <1>1, <1>4, <1>5
<1>9. made = zengo
  BY <1>1, <1>6, <1>7, <1>8 DEF IsZengo
<1>. QED
  BY <1>9 DEF made, zengo

LEMMA SameDocsFound ==
    ASSUME M!NilIsNoRecord, Judged, Service.REST # Nil,
           NothingToSplit(out["gen/openapi"].raw)', "skipBuf" \in tool.flags \/ DocsFresh(Service)'
    PROVE  out["gen/openapi"] = tool.found["gen/openapi"]
<1> DEFINE found == tool.found["gen/openapi"]
<1>1. out'["gen/openapi"] = found /\ Shaped("gen/openapi", found)
  BY AlwaysTracked DEF Judged
<1>2. IsOpenAPI(found) /\ NothingToSplit(found.raw)
  BY <1>1 DEF Shaped, NothingToSplit
<1>3. out["gen/openapi"] = SplitTo(RawFound, found.docs)
  BY DEF Judged, MadeAll, MadeApi, DocsMade
<1>4. found = [raw |-> found.raw, docs |-> found.docs]
  BY <1>2 DEF IsOpenAPI
<1>5. CASE "skipBuf" \in tool.flags
  <2>1. RawFound = found.raw
    BY <1>5 DEF RawFound
  <2> HIDE DEF found
  <2>. QED
    BY <1>2, <1>3, <1>4, <2>1 DEF SplitTo, found
<1>6. CASE "skipBuf" \notin tool.flags
  <2>1. RawFound = Beside(found.raw)
    BY <1>6 DEF RawFound
  <2>2. IF found.raw = <<>> THEN found.docs = ApiFiles ELSE found.raw = Beside(found.raw)
    <3>1. ApiFiles' = ApiFiles /\ Service' = Service
      BY FreshSources DEF Judged
    <3>. QED
      BY <1>1, <1>6, <3>1 DEF DocsFresh, Beside
  <2>3. ApiFiles # Nil
    <3>1. ApiFiles = [seg \in DOMAIN ApiFiles |-> ApiFiles[seg]]
      BY DEF ApiFiles
    <3>. QED
      BY <3>1 DEF M!NilIsNoRecord
  <2> HIDE DEF found
  <2>4. CASE found.raw = <<>>
    <3>1. found.docs = ApiFiles /\ RawFound = ApiFiles
      BY <2>1, <2>2, <2>4, HubHasFiles
    <3>2. ~NothingToSplit(RawFound)
      BY <1>2, <2>3, <3>1 DEF IsOpenAPI
    <3>. QED
      BY <1>3, <1>4, <2>4, <3>1, <3>2 DEF SplitTo, found
  <2>5. CASE found.raw # <<>>
    <3>1. RawFound = found.raw
      BY <2>1, <2>2, <2>5
    <3>. QED
      BY <1>2, <1>3, <1>4, <3>1 DEF SplitTo, found
  <2>. QED
    BY <2>4, <2>5
<1>. QED
  BY <1>5, <1>6

LEMMA SameMigrationFound ==
    ASSUME M!NilIsNoRecord, Judged, FilesFresh(Service)', Migration \in tool.targets,
           out["gen/zengo"] = tool.found["gen/zengo"]
    PROVE  out[Migration] = tool.found[Migration]
<1> DEFINE file == tool.found[Migration]
           schemas == RepositorySchema(out)
           postgres == Postgres(Service)
<1>1. /\ RepositorySchema(tool.found) = schemas
      /\ out'["gen/zengo"] = out["gen/zengo"] /\ out'[Migration] = file
      /\ Service' = Service
  BY AlwaysTracked, FreshSources DEF Judged, RepositorySchema
<1>2. RepositorySchema(out)' = schemas
  BY <1>1 DEF RepositorySchema
<1>3. ShouldTrackPostgresMigration(postgres, file, schemas) /\ (file = Nil \/ IsFile(file))
  BY <1>1, AlwaysTracked DEF Shaped, HandFiles
<1>4. /\ out[Migration] = GeneratePostgresMigration(postgres, file, schemas)
      /\ GeneratePostgresMigration(postgres, file, schemas) # Failed
  BY DEF Judged, MadeAll, MigrationMade, MigrationOf
<1>5. postgres /\ schemas \notin {Nil, {}} /\ Managed(file) => file # Nil /\ file.Body = schemas
  BY <1>1, <1>2 DEF FilesFresh, Migration
<1> HIDE DEF file, schemas, postgres
<1>6. postgres /\ Managed(file) /\ (file = Nil => schemas \notin {Nil, {}})
  BY <1>3 DEF ShouldTrackPostgresMigration, Managed
<1>7. schemas # Nil
  BY <1>4, <1>6 DEF GeneratePostgresMigration
<1>8. CASE schemas = {}
  BY <1>4, <1>6, <1>7, <1>8 DEF GeneratePostgresMigration, file
<1>9. CASE schemas # {}
  <2>1. file # Nil /\ file.Body = schemas /\ IsFile(file)
    BY <1>3, <1>5, <1>6, <1>7, <1>9
  <2>2. file.Header = TRUE
    BY <1>6, <2>1 DEF Managed, IsFile
  <2>3. file = [Header |-> TRUE, Body |-> schemas]
    BY <2>1, <2>2 DEF IsFile
  <2>4. out[Migration] = [Header |-> TRUE, Body |-> schemas]
    BY <1>4, <1>6, <1>7, <1>9 DEF GeneratePostgresMigration
  <2>. QED
    BY <2>3, <2>4 DEF file
<1>. QED
  BY <1>8, <1>9

LEMMA SameRestFound ==
    ASSUME M!NilIsNoRecord, Judged, FilesFresh(Service)', QueriesFresh', CqlFresh',
           out'[Migration] = out[Migration]
    PROVE  /\ \A t \in {"gen/db", "gen/cql", ".cursor/rules", "docs/PROTO_REGISTRY.md"} :
                out[t] = tool.found[t]
           /\ "cmd/main.go" \in tool.targets => out["cmd/main.go"] = tool.found["cmd/main.go"]
<1> DEFINE db == tool.found["gen/db"]
           main == tool.found["cmd/main.go"]
<1>1. /\ out'["gen/db"] = db /\ out'["gen/cql"] = tool.found["gen/cql"]
      /\ out'[".cursor/rules"] = tool.found[".cursor/rules"]
      /\ out'["docs/PROTO_REGISTRY.md"] = tool.found["docs/PROTO_REGISTRY.md"]
      /\ src' = src /\ Service' = Service /\ Shaped("gen/db", db)
  BY AlwaysTracked, FreshSources DEF Judged
<1>2. RestIn(out) /\ Untouched
  BY DEF Judged, MadeAll
<1>3. out["gen/db"] = db
  <2>1. CASE "sqlc.yaml" \in src.files
    <3>1. MigrationBody(out)' = MigrationBody(out)
      BY DEF MigrationBody, Migration
    <3>2. db # Nil /\ db.schema = MigrationBody(out) /\ db.queries = src.queries
      BY <1>1, <2>1, <3>1 DEF FilesFresh, QueriesFresh
    <3>3. /\ out["gen/db"] # Nil /\ out["gen/db"].schema = MigrationBody(out)
          /\ out["gen/db"].queries = src.queries
      BY <1>2, <2>1 DEF RestIn
    <3>4. Shaped("gen/db", out["gen/db"])
      BY Others DEF Judged, IInv, OutInv
    <3> HIDE DEF db
    <3>. QED
      BY <1>1, <3>2, <3>3, <3>4 DEF Shaped
  <2>2. CASE "sqlc.yaml" \notin src.files
    BY <1>2, <2>2 DEF Untouched
  <2>. QED
    BY <2>1, <2>2
<1>4. out["gen/cql"] = tool.found["gen/cql"]
  BY <1>1, <1>2 DEF CqlFresh, RestIn, Untouched
<1>5. /\ out[".cursor/rules"] = tool.found[".cursor/rules"]
      /\ out["docs/PROTO_REGISTRY.md"] = tool.found["docs/PROTO_REGISTRY.md"]
  BY <1>1, <1>2 DEF FilesFresh, RestIn
<1>6. ASSUME "cmd/main.go" \in tool.targets PROVE out["cmd/main.go"] = main
  <2>1. out'["cmd/main.go"] = main /\ Managed(main) /\ Shaped("cmd/main.go", main)
    BY <1>6, AlwaysTracked DEF Judged
  <2>2. main # Nil /\ (main.Header => main.Body = M!GenerateMain(Service))
    BY <1>1, <2>1 DEF FilesFresh
  <2>3. /\ out["cmd/main.go"] # Nil /\ Managed(out["cmd/main.go"])
        /\ out["cmd/main.go"].Header => out["cmd/main.go"].Body = M!GenerateMain(Service)
    BY <1>2, <2>1 DEF RestIn, Untouched, ShouldTrackGeneratedMain
  <2>4. IsFile(main) /\ IsFile(out["cmd/main.go"])
    BY <2>1, <2>2, <2>3, Others DEF Judged, IInv, OutInv, Shaped, HandFiles, TargetSet
  <2>5. main.Header = TRUE /\ out["cmd/main.go"].Header = TRUE
    BY <2>1, <2>2, <2>3, <2>4 DEF Managed, IsFile
  <2>6. main.Body = M!GenerateMain(Service) /\ out["cmd/main.go"].Body = M!GenerateMain(Service)
    BY <2>2, <2>3, <2>5
  <2> HIDE DEF main
  <2>. QED
    BY <2>4, <2>5, <2>6 DEF IsFile
<1>. QED
  BY <1>3, <1>4, <1>5, <1>6

LEMMA NothingStale ==
    ASSUME M!NilIsNoRecord, Judged, NEW skipBuf, skipBuf <=> "skipBuf" \in tool.flags,
           Fresh(Service, skipBuf)'
    PROVE  \A t \in tool.targets : out[t] = tool.found[t]
<1>1. /\ Service'.REST # Nil => NothingToSplit(out["gen/openapi"].raw)'
      /\ "skipBuf" \in tool.flags \/ (ApiFresh' /\ DocsFresh(Service)')
      /\ WireFresh(LegacyVersions(Service), out["gen/api"])'
      /\ FilesFresh(Service)' /\ QueriesFresh' /\ CqlFresh'
  BY DEF Fresh, CodeFresh
<1>2. Service' = Service
  BY FreshSources DEF Judged
<1>3. out["gen/api"] = tool.found["gen/api"] /\ out["gen/zengo"] = tool.found["gen/zengo"]
  BY <1>1, SameApiFound, SameZengoFound
<1>4. "gen/openapi" \in tool.targets => out["gen/openapi"] = tool.found["gen/openapi"]
  BY <1>1, <1>2, AlwaysTracked, SameDocsFound
<1>5. Migration \in tool.targets => out[Migration] = tool.found[Migration]
  BY <1>1, <1>3, SameMigrationFound
<1>6. out'[Migration] = out[Migration]
  BY <1>5 DEF Judged, TargetSet, Migration
<1>7. /\ \A t \in {"gen/db", "gen/cql", ".cursor/rules", "docs/PROTO_REGISTRY.md"} :
           out[t] = tool.found[t]
      /\ "cmd/main.go" \in tool.targets => out["cmd/main.go"] = tool.found["cmd/main.go"]
  BY <1>1, <1>6, SameRestFound
<1>8. tool.targets \subseteq TargetSet
  BY AlwaysTracked
<1>. QED
  BY <1>3, <1>4, <1>5, <1>7, <1>8 DEF TargetSet, Migration

LEMMA VerdictStep ==
    ASSUME M!NilIsNoRecord, IInv, CheckInv, Progress
    PROVE  VerdictHonest
<1> SUFFICES ASSUME CheckRestores, tool.alone, NEW skipBuf, skipBuf <=> "skipBuf" \in tool.flags,
                    tool.result \in {"ok", "stale"}
             PROVE  tool.result = "ok" <=> Fresh(Service, skipBuf)'
  BY DEF VerdictHonest
<1>1. tool.cmd = "check" /\ tool.pc = "restore" /\ out' = Restored(Len(Targets)) /\ UNCHANGED src
  BY DEF CheckRestores, IInv, ToolInv
<1>2. /\ tool.snapshot = [t \in tool.targets |-> tool.found[t]]
      /\ MadeAll
      /\ tool.result = "ok" <=> \A t \in DOMAIN tool.snapshot : out[t] = tool.snapshot[t]
  BY <1>1 DEF CheckInv, Progress
<1>3. tool.result = "ok" <=> \A t \in tool.targets : out[t] = tool.found[t]
  BY <1>2
<1>4. ASSUME NEW t \in TargetSet PROVE \E i \in 1..Len(Targets) : Targets[i] = t
  <2>1. Len(Targets) = 9
    BY DEF Targets
  <2>2. \E i \in 1..9 : Targets[i] = t
    BY DEF Targets, TargetSet
  <2>. QED
    BY <2>1, <2>2
<1>5. out' = [t \in TargetSet |-> IF t \in tool.targets THEN tool.found[t] ELSE out[t]]
  <2>1. DOMAIN out = TargetSet
    BY DEF IInv, OutInv
  <2>. QED
    BY <1>1, <1>2, <1>4, <2>1 DEF Restored
<1>6. tool.targets \subseteq TargetSet
  BY <1>1 DEF IInv, ToolInv
<1>7. Judged
  BY <1>1, <1>2, <1>5, <1>6 DEF Judged
<1>. QED
  BY <1>3, <1>7, NoDifference, NothingStale

\* CheckHonest: a check that nobody disturbs says "ok" exactly when everything it
\* tracks is made from the sources as they are (with skip-buf, from the API as buf
\* left it), although it generates twice with the descriptors of the first time;
\* and, unless the restoration fails, it leaves every target as it found it,
\* Untracked ones excepted, whether the generation in between succeeded, failed or
\* was cut short (checkGenFreshIn, diffGeneratedTargets and
\* restoreGeneratedTargets, src/cmd/zengo/helpers.go, with the generation of
\* src/cmd/zengo/gen.go).
THEOREM CheckIsHonest == ASSUME M!NilIsNoRecord PROVE Spec => CheckHonest
<1>1. Init => IInv /\ CheckInv /\ Progress
  BY WorkspaceInit, IdleFields DEF Init, CheckInv, Progress
<1>2. IInv /\ CheckInv /\ Progress /\ [Next]_vars
        => IInv' /\ CheckInv' /\ Progress' /\ [TargetsRestored /\ VerdictHonest]_vars
  BY WorkspaceStep, CheckStep, ProgressStep, RestoreStep, VerdictStep
<1>. QED
  BY <1>1, <1>2, PTL DEF Spec, CheckHonest
=============================================================================
