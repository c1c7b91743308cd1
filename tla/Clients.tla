------------------------------- MODULE Clients -------------------------------
(***************************************************************************)
(* The constructors of the database, queue and storage clients             *)
(* (src/sdk/transport/db, queue/nats, queue/rabbitmq, storage/s3), and the *)
(* exporter of the traces (src/sdk/observability/tracing.go).              *)
(*                                                                         *)
(* What a constructor may give is the set of its outcomes, one for each    *)
(* step that can fail: [client, open], where client is Nil after an error  *)
(* and open says whether anything was left open.  Dialling, parsing a URL  *)
(* and instrumenting can always fail.                                      *)
(*                                                                         *)
(* A configuration is Nil or the spec of the message; an unset optional    *)
(* field is Nil.  Ports and limits are compared with the widths MaxPort    *)
(* (65535 in the code) and MaxInt (2^31 - 1).                              *)
(***************************************************************************)
EXTENDS Integers, Sequences, TlsConfig

CONSTANTS
    MaxPort, MaxInt,
    Specs    \* the configurations considered, by client

ASSUME WidthAssumption == MaxPort \in Nat \ {0} /\ MaxInt \in Nat \ {0}

\* Numbers are numbers.
ASSUME SpecsAssumption ==
    /\ Nil # Failed
    /\ \A s \in Specs.postgres : s # Nil /\ s.conn # Nil => s.conn.max_open \in Nat
    /\ \A s \in Specs.tracing : s # Nil /\ s.ratio # Nil => s.ratio \in Int

NoClient == [client |-> Nil, open |-> FALSE]
OpenClient(client) == [client |-> client, open |-> TRUE]
PlainClient(client)  == [client |-> client, open |-> FALSE]  \* a client that holds nothing

Default(value, default) == IF value = Nil THEN default ELSE value
Positive(n) == n # Nil /\ n > 0
ValidPort(port) == port > 0 /\ port <= MaxPort

\* What is dialled with TLS settings that could be built; NoClient otherwise.
WithTLS(spec, Outcomes(_)) ==
    UNION {IF tls = Failed THEN {NoClient} ELSE Outcomes(tls) :
             tls \in ClientConfig(ClientOptionsFromProto(spec.tls))}

\* PortFromEnv of postgres, nats and s3: raw is Nil for an unset or unparsable text.
PortFromEnv(raw, fallback) == IF raw # Nil /\ ValidPort(raw) THEN raw ELSE fallback

-----------------------------------------------------------------------------
(* Postgres.                                                               *)

SSLMode(mode) ==
    IF mode \in {"prefer", "allow", "require", "verify-ca", "verify-full"} THEN mode ELSE "disable"

PostgresDSN(spec) ==
    [host |-> spec.host, port |-> Default(spec.port, 5432), sslmode |-> SSLMode(spec.sslmode)]

\* pgxpool.ParseConfig: the TLS of the attempts to connect a mode asks for, in
\* order, Nil in the clear.  The first is ConnConfig.TLSConfig, the others are
\* ConnConfig.Fallbacks, which pgx tries when the first fails.
SSLModeAttempts(mode) ==
    LET tls == [verify |-> mode \in {"verify-ca", "verify-full"}]
    IN  CASE mode = "disable" -> <<Nil>>
          [] mode = "allow"   -> <<Nil, tls>>
          [] mode = "prefer"  -> <<tls, Nil>>
          [] OTHER            -> <<tls>>

\* The limits of the pool; 0 leaves pgxpool's own.  max_idle is a time in seconds
\* here, and max_idle_time replaces it.
PoolLimits(conn) ==
    IF conn = Nil THEN [max |-> 0, min |-> 0, idle |-> 0]
    ELSE [max |-> conn.max_open, min |-> conn.min_open,
          idle |-> Default(conn.max_idle_time, conn.max_idle)]

Overflows(conn) == conn # Nil /\ (conn.max_open > MaxInt \/ conn.min_open > MaxInt)

\* Configured TLS replaces that of the first attempt and no other.  A nil
\* configuration panics: it has no outcome.
NewPool(cfg) ==
    LET attempts == SSLModeAttempts(PostgresDSN(cfg).sslmode)
        Open(tls) ==
            {NoClient} \cup
            IF Overflows(cfg.conn) THEN {}
            ELSE {OpenClient([addr      |-> <<cfg.host, PostgresDSN(cfg).port>>,
                              tls       |-> Default(tls, Head(attempts)),
                              fallbacks |-> Tail(attempts),
                              limits    |-> PoolLimits(cfg.conn)])}
    IN  IF cfg = Nil THEN {}
        ELSE IF ~ValidPort(PostgresDSN(cfg).port) THEN {NoClient}
        ELSE WithTLS(cfg, Open)

PoolConfigFromPort(host, port) ==
    IF ~ValidPort(port) THEN Nil
    ELSE [host |-> host, port |-> port, sslmode |-> Nil, tls |-> Nil, conn |-> Nil]

-----------------------------------------------------------------------------
(* Redis.                                                                  *)

\* A URL of the scheme rediss has TLS of its own, which configured TLS replaces.
\* With a URL neither the addresses nor the database of the spec count.
RedisOptions(spec, tls) ==
    IF spec.url # ""
      THEN [addr |-> spec.url, db |-> 0,
            tls  |-> IF tls = Nil /\ spec.url = "rediss" THEN "url" ELSE tls]
      ELSE [addr |-> IF spec.addrs = <<>> THEN "localhost:6379" ELSE Head(spec.addrs),
            db   |-> Default(spec.db, 0), tls |-> tls]

\* Instrumenting or the ping fails: the client is closed.
RedisNew(cfg) ==
    LET Open(tls) == {NoClient, OpenClient(RedisOptions(cfg, tls))}
    IN  IF cfg = Nil THEN {NoClient} ELSE WithTLS(cfg, Open)

RedisClientFromPort(host, port, db) ==
    IF ~ValidPort(port) \/ db \notin 0..MaxInt THEN {NoClient}
    ELSE RedisNew([url |-> "", addrs |-> <<IF host = "" THEN "localhost" ELSE host>>,
                   db |-> db, tls |-> Nil])

-----------------------------------------------------------------------------
(* Oracle and Cassandra.                                                   *)

OracleDSN(spec) == <<spec.host, IF Positive(spec.port) THEN spec.port ELSE 1521>>

OracleValid(cfg) == cfg # Nil /\ "" \notin {cfg.host, cfg.service, cfg.user}

\* A database that cannot be pinged is closed.
OracleConnect(cfg) ==
    LET Open(tls) == {NoClient, OpenClient([addr |-> OracleDSN(cfg), tls |-> tls])}
    IN  IF ~OracleValid(cfg) THEN {NoClient} ELSE WithTLS(cfg, Open)

\* gocql closes a session it cannot create.
CassandraConnect(cfg) ==
    LET Open(tls) ==
            {NoClient, OpenClient([addr   |-> IF cfg.addrs = <<>> THEN <<"localhost:9042">> ELSE cfg.addrs,
                              verify |-> tls # Nil /\ ~tls.skip,
                              tls    |-> tls])}
    IN  IF cfg = Nil THEN {NoClient} ELSE WithTLS(cfg, Open)

-----------------------------------------------------------------------------
(* S3, NATS, RabbitMQ.                                                     *)

\* An HTTP client of its own is used where a timeout or TLS asks for one; a
\* timeout of zero is none.
LoadAWSConfig(spec, tls) ==
    [addr |-> spec.endpoint, region |-> Default(spec.region, "us-east-1"),
     http |-> Positive(spec.timeout) \/ tls # Nil, tls |-> tls]

S3NewClient(cfg) ==
    LET Open(tls) == {NoClient, PlainClient(LoadAWSConfig(cfg, tls))}
    IN  IF cfg = Nil THEN {NoClient} ELSE WithTLS(cfg, Open)

ClientFromMinIO(host, port) ==
    IF ~ValidPort(port) THEN {NoClient}
    ELSE S3NewClient([endpoint |-> <<IF host = "" THEN "localhost" ELSE host, port>>,
                      region |-> "us-east-1", timeout |-> Nil, tls |-> Nil])

NatsOptions(spec, tls) ==
    [addr |-> IF spec.addrs = <<>> THEN <<"nats://127.0.0.1:4222">> ELSE spec.addrs, tls |-> tls]

NatsConnect(cfg) ==
    LET Open(tls) == {NoClient, OpenClient(NatsOptions(cfg, tls))}
    IN  IF cfg = Nil THEN {NoClient} ELSE WithTLS(cfg, Open)

NatsConnectDefault == NatsConnect([addrs |-> <<"nats://127.0.0.1:4222">>, tls |-> Nil])

\* Validated settings only, nothing is dialled.
RabbitConnect(cfg) ==
    LET Open(tls) == {PlainClient([addr |-> cfg.addrs, tls |-> tls])}
    IN  IF cfg = Nil \/ cfg.addrs = <<>> THEN {NoClient} ELSE WithTLS(cfg, Open)

-----------------------------------------------------------------------------
(* The exporter of the traces, in an environment env of endpoint, insecure and   *)
(* sampler, the OTEL_ variables.                                                 *)

\* An endpoint is Nil or [scheme, host], the scheme "" where the text has none.
Endpoint(cfg, env) == Default(cfg.endpoint, env.endpoint)

Stdout == [addr |-> Nil, protocol |-> "stdout", plain |-> TRUE, tls |-> Nil]

\* Settings that cannot be built are an error even where they would not be used.
NewTraceExporter(cfg, env) ==
    LET endpoint == Endpoint(cfg, env)
        insecure == endpoint.scheme = "http" \/ env.insecure
        Open(tls) == {NoClient, OpenClient(
            [addr |-> endpoint.host, protocol |-> cfg.protocol, plain |-> insecure,
             tls  |-> IF insecure THEN Nil ELSE tls])}
    IN  IF cfg = Nil \/ Endpoint(cfg, env) = Nil THEN {NoClient, PlainClient(Stdout)}
        ELSE WithTLS(cfg, Open)

\* In hundredths.  An unset ratio is the environment's, where that is one; a ratio
\* of the configuration is clamped.
SamplingRatio(cfg, env) ==
    IF cfg = Nil \/ cfg.ratio = Nil
      THEN IF env.sampler # Nil /\ env.sampler \in 0..100 THEN env.sampler ELSE 100
      ELSE IF cfg.ratio < 0 THEN 0 ELSE IF cfg.ratio > 100 THEN 100 ELSE cfg.ratio

\* The client is the tracer that is stored; after an error what was stored stays.
\* resource.Merge may fail when the exporter is there, which is then left open.
InitTracer(cfg, env) ==
    LET Tracer(o) == [client |-> [exporter |-> o.client, ratio |-> SamplingRatio(cfg, env)],
                      open   |-> o.open]
        MergeFails(o) == [client |-> Nil, open |-> o.open]
    IN  UNION {IF o.client = Nil THEN {NoClient} ELSE {Tracer(o), MergeFails(o)} :
                 o \in NewTraceExporter(cfg, env)}

-----------------------------------------------------------------------------
\* A constructor of a client that fails leaves nothing open.  One that succeeds
\* uses the TLS settings of the configuration, where there are any: settings that
\* cannot be built never give a client without them, or with the ones of a URL.
Sound(outcomes, spec) ==
    \A o \in outcomes :
        /\ o.client = Nil => ~o.open
        /\ o.client # Nil /\ ClientOptionsFromProto(spec.tls) # Nil =>
             o.client.tls \in ClientConfig(ClientOptionsFromProto(spec.tls)) \ {Failed}

\* For a pool that is the first attempt to connect.  It has another one, which
\* configured TLS does not reach, with the modes allow and prefer only: with the
\* other modes but disable, and with configured TLS, nothing is dialled in the
\* clear.  No limit has wrapped.
PoolIsSound(s) ==
    /\ Sound(NewPool(s), s)
    /\ \A o \in NewPool(s) : o.client # Nil =>
         LET mode == SSLMode(s.sslmode)
         IN  /\ mode \notin {"allow", "prefer"} => o.client.fallbacks = <<>>
             /\ o.client.tls = Nil => mode \in {"disable", "allow"}
             /\ s.conn # Nil =>
                  o.client.limits.max = s.conn.max_open /\ s.conn.max_open <= MaxInt

\* Spans leave the process unencrypted only where the endpoint or the environment
\* says so, and with the TLS settings of the configuration everywhere else; the
\* ratio is one.  Settings that cannot be built give no tracer, and leave no
\* exporter open; another failure may, where the exporter is one that dials.
TracingSound(cfg, env) ==
    LET Dials == cfg # Nil /\ Endpoint(cfg, env) # Nil
    IN  \A t \in InitTracer(cfg, env) :
          /\ t.open => Dials /\ ClientConfig(ClientOptionsFromProto(cfg.tls)) # {Failed}
          /\ t.client # Nil =>
               /\ t.client.ratio \in 0..100
               /\ Dials =>
                    LET options == ClientOptionsFromProto(cfg.tls)
                        exporter == t.client.exporter
                    IN  /\ ClientConfig(options) # {Failed}
                        /\ exporter.plain => env.insecure \/ Endpoint(cfg, env).scheme = "http"
                        /\ ~exporter.plain /\ options # Nil =>
                             exporter.tls \in ClientConfig(options) \ {Failed}

\* Every constructor is sound, a port from the environment is a port, and the
\* development helpers refuse what is not one.
ClientsSound ==
    /\ \A s \in Specs.postgres : PoolIsSound(s)
    /\ \A s \in Specs.redis : Sound(RedisNew(s), s)
    /\ \A s \in Specs.oracle : Sound(OracleConnect(s), s)
    /\ \A s \in Specs.cassandra :
         /\ Sound(CassandraConnect(s), s)
         /\ \A o \in CassandraConnect(s) :
              o.client # Nil /\ o.client.tls # Nil => o.client.verify = ~s.tls.skip
    /\ \A s \in Specs.s3 : Sound(S3NewClient(s), s)
    /\ \A s \in Specs.queues : Sound(NatsConnect(s), s) /\ Sound(RabbitConnect(s), s)
    /\ \A port \in Specs.ports :
         /\ ValidPort(PortFromEnv(port, 1))
         /\ port # Nil =>
              LET made == {PoolConfigFromPort("host", port) # Nil}
                          \cup {\E o \in RedisClientFromPort("", port, 0) : o.open}
                          \cup {\E o \in ClientFromMinIO("", port) : o.client # Nil}
              IN  made = {ValidPort(port)}
    /\ \E o \in NatsConnectDefault : o.open
    /\ \A s \in Specs.tracing, env \in Specs.otel : TracingSound(s, env)
=============================================================================
