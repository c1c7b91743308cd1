# Verification of zengo

TLA+ models of the zengo service framework (Go), checked with TLC on small
instances and, where it matters most, proved with TLAPS for every size. Paths
below are relative to the repository (`src/` in the map of `PROJECT.json`).

## 1. The system

zengo is an SDK and a code generator for Go services. The parts with logic of
their own, the state they keep and what makes them correct:

| Part | State | Operations | Correct when |
|---|---|---|---|
| App lifecycle, `app/app.go` | result channel, wait group, shutdown context, position in the shutdown walk | `Run`, `shutdown` | `Run` returns, nothing is sent on a closed channel, no failure is lost, nil means all stopped |
| gRPC server, `sdk/transport/grpc/server.go`; gateway, `sdk/gateway/gateway.go` | listener, requests in flight | `New`, `Serve`, `Shutdown` | a graceful stop that does not end is forced; no TLS setting is dropped |
| Service runtime, `sdk/service/service.go` | the app it assembles, what it holds | `New`, `Run` | a failing `New` keeps as little as it can; order of components and hooks |
| Health, `sdk/health/health.go` | `shuttingDown`, `startupComplete`, checks | probes, `MarkShuttingDown` | not ready once shutdown has begun; started stays started |
| Policy, `sdk/policy/policy.go` | token bucket, breaker, semaphore | `Do`, gRPC and HTTP wrappers | rate bounded, permits balanced, one verdict per call |
| errx, `sdk/errx/errx.go`; auth | none | wrap, normalise, interceptors | code and public message survive the wire, internal text does not leave |
| Kafka consumer, `sdk/transport/queue/kafka/kafka.go` | groups, root context, claims, marks | `Register`, `consume`, `ConsumeClaim`, `Close` | no message lost, redelivery only after a loss, `Close` ends and leaves nothing running |
| Kafka producer and brokers, same directory | map of producers, lock | `Publish`, `Close`, resolution of brokers | every producer created is closed; all clients talk to one cluster |
| tlsconfig, client constructors, tracing exporter | none | build options, connect | a failing client constructor leaves nothing open; configured TLS is used wherever the code says so |
| CLI, `cmd/zengo` | working tree, snapshots, child process | `init`, `gen`, `check`, `add`, `version freeze`, `dev` | hand-written files are kept, the tree is restored, the last edit is built |
| Manifest and scaffold, `internal/manifest`, `internal/scaffold` | the manifest file | load, validate, update, add | no section is lost on the way through the struct |
| Versioning, `internal/versioning` | descriptor cache, frozen versions | load, classify, freeze, generate | generated converters carry what the versions share |
| Generators, protoc plugin | generated files | OpenAPI split, migration, registration code | documents closed, generated calls exist |
| Example services, `examples/` | table, topic, Redis cache | REST and gRPC calls, event handler | answers are true and fresh; a user that is not announced is accounted for; no event a group is due is skipped |

How they interact: `service.New` builds an `App` and registers with it the
health hook, the user's hooks, the gRPC server and the gateway. The gateway's
policy wraps its whole mux and proxies to the gRPC server, where errx, policy
and auth surround the handler. The generated `main` opens pool, producer and
consumer before the service and closes them, last opened first, after it. The
commands of the CLI run the generators on one directory that an editor and
`zengo dev` use at the same time. The example services are joined by gRPC calls
and the topic `user.events`.

What is hard: the goroutines of `Run` against cancellation and deadline; calls
of `Do` that share one limiter, breaker and semaphore and read the clock before
they take a lock; probes and requests that cross a shutdown; Kafka sessions that
end under running handlers, evictions, crashes and lost commits; `Register` and
`Publish` against `Close`; partial failure and concurrent edits in the CLI's
file work; a store and a topic written without a transaction, through a producer
that retries without being idempotent, and a cache in front of them. The complete
list, by line, is `hazards` in `PROJECT.json`. Several of them do go wrong in the
code; no property can hold of those. Such a hazard has a note that names the
exception its property makes, or why there is no property.

## 2. Modules

```
AppLifecycle                                 <- MCAppLifecycle, AppLifecycleProofs
RateLimiter                                  <- MCRateLimiter, RateLimiterProofs
PolicyExecutor (implements RateLimiter)      <- MCPolicyExecutor, PolicyExecutorProofs
KafkaConsumer (implements AtLeastOnce)       <- MCKafkaConsumer, KafkaConsumerProofs
Errx <- ServiceRuntime, UserPlatform
TlsConfig <- Gateway, Clients, KafkaClient, Manifest
ServiceRuntime (Errx, Gateway, Clients, AppLifecycle) <- MCServiceRuntime, ServiceRuntimeProofs
KafkaClient                                  <- MCKafkaClient, KafkaClientProofs
ProtoPlugin <- Versioning, OpenApi
Workspace (Versioning, OpenApi, Manifest)    <- WorkspaceProofs, Conversions <- MCWorkspace
UserPlatform (ExampleApis, Errx, AtLeastOnce) <- MCUserPlatform, UserPlatformProofs
```

**AppLifecycle.** `pc`, `k` and `busy` are where `Run` and `shutdown()` are;
`Plan` is the list of calls `shutdown()` makes; `errCh` and `chClosed` are the
channel; `serve`, `server` and `inflight` describe each component's goroutine,
its stop and its running handlers; `deadline` is the shutdown context. There is
one action for each branch of the two selects, each call and return of the walk,
and each thing a server may do. grpc-go and net/http are external and modelled
from the wrappers: an HTTP `Serve` returns as soon as `Shutdown` is called, a
gRPC one when the stop is complete, and a `Serve` entered after the stop returns
at once. A request is only a count.

**RateLimiter.** `Allow` is one critical section; `Capture` is the evaluation of
`time.Now()` before it, so timestamps arrive in any order. A token is worth
`Per` units, which makes refilling exact; float rounding is not modelled.
`Observe` moves the start of an observed window (history only).

**PolicyExecutor.** `Executor.Do` by several goroutines; `pc[p]` walks through
limiter, breaker, semaphore, attempts, backoff, verdict and release. Errors are
reduced to what `shouldRetry` tells apart. Constants of 0 switch a guard off, as
`NewExecutor` does.

**KafkaConsumer.** A member is a process with one registered topic. `mode` is
the `consume` loop, `stage[m][p]` the `ConsumeClaim` goroutine of a partition
(select, handling, marking, exited), `pos` the message it is at, `marked` the
offset its session would commit, `close` the progress of `Close`. External,
from the use the code makes of sarama: joining and rebalancing, heartbeats,
background commits, the flush at the end of a session, refusal of commits from
members put out of the group, eviction, crash and restart. A restarted process
joins under a new id; the model lets it join once the old id has expired.
`exec.Do` is one step. `StartOffset` is the consequence of `consumerConfig`,
which keeps sarama's default initial offset (newest).

**AtLeastOnce.** What the consumer promises: handling in order per partition,
an offset that never goes back and passes only handled or malformed messages.

**TlsConfig, Errx, Gateway, Clients.** Pure code as operators. Reading a file,
parsing PEM, binding a port and dialling can fail, so a builder or constructor
is the *set* of its outcomes. A Postgres pool has the attempts to connect that
`pgxpool.ParseConfig` makes of its `sslmode`: configured TLS replaces the first
only, and `allow` and `prefer` have a second. An error is a chain of links (application error,
gRPC status, context error, any other), and a text is where it comes from, which
is all that matters for what may leave the process. `Clients` also has the
choice of the trace exporter, its TLS settings and the sampling ratio, and the
exit of `initTracer` that leaves the exporter open (`resource.Merge` is external;
the model lets it fail).

**ServiceRuntime.** `service.New` step by step with its failure paths (`new`,
`held`), then the App it configures, as an INSTANCE of `AppLifecycle` whose
components are the gRPC server and the gateway and whose first hook is
`MarkShuttingDown`. Requests are processes: a probe or an API call passes the
gateway's policy (breaker and semaphore; its rate limiter, which can only refuse
more, is left out), is answered by a probe handler or forwarded, and comes back
through the interceptors. The probe reads `shuttingDown` before its checks run.
`App!...` actions are the whole steps of the App; what they mean for a request
(a call cut by `Stop`, an orphaned handler) is conjoined to them.

**KafkaClient.** What `KafkaConsumer` leaves out: who creates and closes
consumer groups and SyncProducers, and which goroutines are left. `main` is the
generated main function of one of the example services, with its list of
cleanups; `reg`, `grp`, `loop`, `errs`
are a call of `Register` and the two goroutines of its group; `mu`, `current`,
`handle`, `pub` are the producer. `Late` topics are registered by other code at
any time, also during `Close`. The connection comes from the config files, the
manifest and the environment as `brokers.go` resolves them.

**Manifest, ProtoPlugin, Versioning, OpenApi.** Operators, over abstract
sources: a proto file is its messages, services and imports. `Manifest` has both
conversions, validation, lookup of the file and the patches of `zengo add`.
`ProtoPlugin` has the functions and the repository schema protoc-gen-zengo
writes, and the migration. `Versioning` has the loader and its cache, the
comparison of two schemas, the conversion plan, the adapters, the runtime's
calls and freezing. `OpenApi` has the split of per-file or merged documents.
`Conversions`, on top of `Workspace`, runs the generated converters
(`LegacyToHub`, `HubToLegacy`) on messages; nested messages make that recursive
(a RECURSIVE operator), so it is a module of its own, which only TLC uses.

**Workspace.** The commands, `zengo dev` and an editor on one directory, without
a lock between them. `src` is what people write (manifest, a second manifest
file, hub revision, frozen versions, converters, queries, CQL), `out` what is
generated, kept as its provenance. A generation is a sequence of groups of
stages; a group is one step and others may act between groups. External programs
may fail. A check takes a snapshot, generates, compares and restores, and
restoring may stop half way.

**ExampleApis, UserPlatform.** The three example services as one system: the
route tables, decoders, method tables and v1 adapters of the generated code (as
tables, a table for each service and version), the handlers with their store,
topic, cache and gRPC client, crashes of user-service and search-service,
failing statements, publishes and SETs.
A publish is up to `Retries + 1` attempts inside sarama (`Attempt`), each of which
lands or does not; the producer is not idempotent, so an attempt whose answer was
lost leaves a copy and is followed by another, and a publish that fails may leave
some. It is acknowledged by the leader alone: `replicated` is how much of the topic
the followers have, and `LeaderFails` loses what is past it. notification-service
reads what is replicated, as `AtLeastOnce` says, which `KafkaConsumer` is shown to
implement, from where its group starts: that is the newest offset of each session
until the group has committed one (`Rejoin`, from `consumerConfig`). Replication
and election are external; an election of a follower that has less than
`replicated` is left out.

Operators whose comment begins with "Mutant" are faulty variants of the
definition that follows them. No specification uses them; they show that each
property notices the fault.

## 3. Runs

| Run | Instance | Shows |
|---|---|---|
| `app_lifecycle` | 1 hook, gRPC + HTTP component, 2 cleanups, 1 request each | all lifecycle properties, with liveness |
| `app_cleanup_order` | same | violated: a cleanup runs while a handler is running |
| `rate_limiter` | 3 callers (symmetric), 2 requests per 3 ticks, burst 2, clock to 5 | rate bound and admission with timestamps out of order |
| `policy_executor` | 2 callers, all guards on, 2 attempts, clock to 2 | permits, verdicts, breaker, refinement of the limiter, `Do` returns |
| `policy_circuit_window` | 2 callers, breaker at 1 failure | violated: an open circuit is closed early |
| `kafka_consumer` | 2 members, 1 partition with 2 messages (the second malformed), 2 failures | delivery, redelivery, `Close`, refinement, liveness |
| `kafka_first_message` | 1 member, no committed offset, 1 failure | violated: a failed message is not delivered again |
| `service_runtime` | 2 requests (symmetric), 1 user hook and cleanup, breaker at 1 failure, every REST TLS message over three materials, 8 error chains, probes that fail or panic, client configurations at the edges of their ranges | construction, probes and calls through a shutdown, errors on the wire |
| `service_liveness` | same, plain options, checks that pass | violated: the liveness probe is answered with 503 |
| `kafka_client` | 2 topics, 1 late one, 1 RPC that publishes, 2 SyncProducers, 1 broker error, 7 configurations of the three services | release of clients, one cluster, `Close` returns or raced |
| `tooling` | 4 revisions of a hub of 2 files, 1 version, 2 commands, 1 edit, dev at any time | hand-written files, honest checks, sound generation, dev converges |
| `user_platform` | 2 clients (symmetric), 3 calls of 10 kinds over REST and gRPC, a user that may be there and one to create, 1 retry of the producer, time to live 2, lag 1 | announced or reported, nothing due is skipped, fresh answers |

What the newer properties say, beyond their names:

* `ProbesKnow`: a readiness probe that arrives once the App is past its first
  hook is never told "ready", and a startup probe that arrives after one
  succeeded is never refused. A probe that had read its state before is excused:
  that is the race of `health.go:83`.
* `ShutdownOrder`: the gateway reports an outage of the gRPC server behind it
  only after readiness was withdrawn, or when the server itself failed; and
  telemetry goes last.
* `ConstructionSound`: a `New` that fails keeps at most telemetry with the gRPC
  listener, or an exporter of the traces without a tracer and nothing else (which
  nobody can release: `service.go:204`, `tracing.go:66`); one that succeeds asks
  for the client certificates its configuration asks for. A client constructor
  that fails leaves nothing open; one that succeeds uses the configured TLS, for a
  Postgres pool in its first attempt to connect. A pool has another attempt with
  `allow` and `prefer` only, and one in the clear with these and `disable` only. No
  limit wraps.
* `WireErrors`: the code is the one `errx.Code` gives, the text the public
  message, with the two exceptions listed in the findings.
* `ClientsReleased`, `OnlyOrphansPanic`, `OneCluster`, `CloseReturnsOrRaces`:
  what `Consumer.Close` and the cleanups of a start that fails leave behind,
  who may hit a closed producer, that producers and consumers never disagree
  about brokers or TLS, and that `Close` returns unless a `Register` appended
  its group behind its back.
* `HandWrittenKept`, `CheckHonest`: no command changes what people wrote; an
  undisturbed check says "ok" exactly when all it tracks is made from the sources
  as they are, and puts everything back. What "made from the sources" means is
  stated for each target (`Fresh`); for the OpenAPI documents: they are those of
  the API, or, when no API file has a path and there is nothing to split, buf's own
  documents are there with the API's sources (`DocsFresh`).
* `ConversionSound`, `OpenAPIClosed`: converters are *run* on messages and
  compared field by field; documents have all calls of their version and exactly
  the definitions these reach.
* `DevConverges`: once edits stop, `zengo dev` has built the last of them, with
  the excuses its comment lists (`.cql` files, stale descriptors, a check that
  puts old outputs back).
* `AnnouncedOrReported`: across crashes, lost answers, retries and a failing leader,
  emails are unique, only stored users are announced, each at most once per attempt
  of sarama, and a stored user that is not announced belongs to a call under way, to
  a client that was told of a failure, or to an event that went with the leader. That
  an acknowledged user is announced once, or at all, is *not* true of the code.
* `DueIsHandledOrAhead`: the event of a user created after notification-service's
  first commit is handled or still ahead of it, and nothing handled or committed is
  ever past the end of the topic, although a leader that fails gives offsets out
  again. Users created before that commit are due nothing, for the reason
  `kafka_first_message` shows.
* `AnswersAreFresh`: the cache is never staler than its time to live and the time the
  fill took.

Why the bounds are enough: two components are the most the runtime registers,
and one request each already outlives a deadline; three timestamps in flight
allow an old one between two newer ones; a limit of one permit with two callers
gives every conflict at the semaphore, and two attempts give first, last and
retried; with two members a partition changes hands, and two failures allow a
failure during the recovery from another. Two requests in `ServiceRuntime` let
one open the circuit or cross the shutdown while the other is inside. Two
SyncProducers allow one to be made after the first was closed. Two commands and
an edit put an edit inside a command, or a command between the two generations
of dev; the four hub revisions give an added field, a renamed one, an
incompatible one and a schema the migration refuses. Three calls give a fill of
the cache that overlaps a creation and a later read; one retry already leaves a
second copy of an event, and the user that is there from the start lets the group
be established or not when the other one is created. Ad-hoc runs of
`KafkaConsumer` with two partitions (1.4 million states, safety only) and with
three messages found nothing else; for safety the proofs cover all sizes.

`MaxClock`, `MaxInflight`, `Length`, `MaxFaults`, `MaxHandles`, `MaxErrors`,
`MaxCommands`, `MaxEdits`, `MaxCalls` and `MaxLag` bound what is unbounded in
the program; `Retries` is 3 in the code and 1 in the run. `SYMMETRY` is used only
in `rate_limiter`, `service_runtime`, `service_liveness` and `user_platform`, where
nothing but safety is checked. `CHECK_DEADLOCK` is off
where the program may end: every one of these systems stops, or its bound on
calls or commands is used up.

### The violations

* `app_cleanup_order`: `service.go:77` says cleanups run after components have
  stopped. After a timed-out `Shutdown` they run while handlers are running.
  `OrphansReported` shows that such a run is at least reported as an error.
* `policy_circuit_window`: `policy.go:62` says the circuit stays open for
  `OpenFor`. `Success` resets it whoever calls.
* `kafka_first_message`: the design note of 2026-08-26 (line 21) says the next
  session receives a failed message again. In a group with no committed offset
  for the partition it starts at the newest offset and skips it.
* `service_liveness`: `health.go:78` says shutdown keeps liveness intact. The
  gateway's policy wraps the probe endpoints, and an open circuit answers 503.

Further findings, without a run of their own because a property states exactly
the exception (`findings` in `PROJECT.json` quotes each line): hooks can hold
`Run` past `ShutdownTimeout`; a policy or errx answer that carries the text of a
whole chain; `Register` racing with `Close`; the descriptor cache that outlives
its generation in `zengo dev`; `field_map` and the convert option without
effect; `max_idle` used as a time; a second attempt to connect to Postgres without
the configured TLS material; a stored user that is never announced and
cannot be created again; an endpoint in a README that is not served.

### Fairness

`app_lifecycle`: goroutines run, the context expires, hooks return and a stop
that was requested takes effect; handlers are *not* assumed to finish.
`policy_executor`: a goroutine inside `Do` goes on and the wrapped function
returns, since it is given a context with the deadline of the attempt.
`kafka_consumer`: loops, claims, heartbeats, commits and the coordinator go on,
handlers return, a crashed process is started again; failures, `Close` and new
messages are never owed. The last is why `EverythingCommitted` excuses a group
in which every member is closed, and it assumes finitely many failures: a
handler that always fails blocks its partition, by design.
`kafka_client`: the goroutines of a group run (weak); a handler returns however
often it publishes, and sarama ends a session whose context is cancelled however
often the loop was busy elsewhere (strong); nothing is owed by `main`, by RPC
handlers or by a `Register` that has not listed its group.
`tooling`: a started command and the ticker of dev go on (weak; written with its
enabling condition spelled out, which TLC would otherwise find by running a
generation); the developer and the service under dev owe nothing.
`user_platform` checks safety only and assumes no fairness.

## 4. Proofs

All constants are arbitrary, up to these named assumptions, which every run
evaluates on its own values.

| Assumption | What it says | Why the code justifies it |
|---|---|---|
| `LifecycleAssumption`, `LimiterAssumption`, `ConsumerAssumption`, `ExecutorAssumption` | numbers are numbers, a rate is positive, a set of callers is finite | `NewExecutor` makes no limiter for a rate of 0 |
| `ServiceAssumption` | the same, and that telemetry is not empty | `observability.Init` makes at least one provider |
| `ErrorsAssumption` | an application error in a handler's chain has a code other than OK and a public text, which is the internal text of a chain only where a wrapped status lies below it | errx builds every error through its constructors, which finish it, and takes a public text from its caller or from what it wraps |
| `ClientAssumption`, `NamesAssumption` | the topics of main and of other code differ, a service is one of the three, holders of a lock have distinct names | one group per topic; a goroutine is not another one |
| `TrimAssumption`, `SettingsAssumption` | trimming a broker twice changes nothing more; a config file that was decoded is a message with a list of brokers | `strings.TrimSpace`; the decoder |
| `WidthAssumption`, `SpecsAssumption` | limits and counts in client configurations are numbers | their protobuf types |
| `WorkspaceAssumption` | every hub revision has the same number of files, at least one; frozen names are version directories; a manifest that is given can be decoded | a revision is a state of the same `.proto` files; `versionDirPattern`; `manifest.Load` |
| `PlatformAssumption` | a request names a service, a version, an RPC and a message of the API | there is no other stub or route to send it by |

Theorems that tell a missing value from a value that is there (`ConnectionAsConfigured`,
`ConstructionIsSound` and those of `WorkspaceProofs`) have the hypothesis
`NilIsNoRecord`: `Nil` is no record. It is a hypothesis and not an ASSUME because TLC,
for which `Nil` is a model value, refuses to evaluate it.

* **AppLifecycleProofs**: types, `NoSendOnClosedChannel`, `OrphansReported`,
  `NoFailureLostSilently`, `NilMeansStopped`, and `StopsInRegistrationOrder`
  (proved only; no run checks it). The invariant `IInv` adds where in the plan
  each component may be stopped (`PositionInv`), that a drained component runs
  no handler and a forced one was reported (`DrainInv`), and that the results of
  exited components are in the channel or accounted for (`ResultInv`); the
  properties speak only about the end of `Run` and say nothing about the way
  there.
* **RateLimiterProofs**: types, `WindowBound` and `SpacedCallsAdmitted`. The
  invariant is a potential: tokens and admitted calls together never exceed the
  burst plus the time `last` has advanced, even when an old timestamp moves
  `last` back, because the tokens it takes are the ones it will pay in again.
* **KafkaConsumerProofs**: types; `NothingLost`; and the refinement of
  `AtLeastOnce`. The invariant says that only sessions have claims, that a
  partition has one owner among the known members, that a claim holds a message
  of the log, and that everything before a claim's position is settled, for
  evicted members too. One owner is what keeps the offset from going back;
  settled positions are what make every mark safe to commit. These two
  theorems assume `Established`: without committed offsets they are false, as
  `kafka_first_message` shows.
  `RedeliveryNeedsLoss` needs the invariant `RInv`, a budget for each message. What was handled but is neither committed nor
  marked by a claim will be handled again, and each such case was paid for by a loss
  at the moment it arose; without counting the messages that *will* come again the
  property cannot be carried through a rebalance. `ClosedIsQuiet` follows from the
  same invariant when every budget is unspent.
* **PolicyExecutorProofs**: types, `PermitsMatchCalls`, `OneVerdictPerCall`, and
  that `Do` implements `RateLimiter` (every step is one of `Capture`, `Allow` and
  `Tick`, or stutters). Cardinality is handled by lemmas on adding and removing one
  caller. `AdmissionBound` composes the refinement with `WindowBound` of
  `RateLimiterProofs`: the bound holds of the calls of `Do`.
* **KafkaClientProofs**: types, `ClientsReleased`, `OnlyOrphansPanic`, `OneCluster`
  (and the weaker `OneConnection`, which needs no hypothesis). The invariant says how far main is for each list of cleanups
  (`MainInv`), which goroutines a group has for each stage of its registration and
  what holds of a group that `Close` has or has not seen (`GroupInv`), that there is
  at most one open SyncProducer and that a publisher's one is closed only after the
  consumers (`HandleInv`), what a start that is under way has opened (`StartInv`), and
  that all connections were made with the settings of the process (`ClusterInv`). The
  race of `Register` with `Close` is why `GroupInv` is as long as it is: a group may
  be created after `Close` has taken the list. What `OneCluster` says about the brokers
  themselves rests on lemmas about `SelectSeq` and the order in which `brokers.go` asks
  the file, the manifest, the environment and the default.
* **UserPlatformProofs**: `AnnouncedOrReported`, `DueIsHandledOrAhead` and
  `AnswersAreFresh`. For the first (`DualWriteSound`) the invariant adds that a row
  between INSERT and the end of its publish belongs to exactly one call, whose
  attempts have left no more copies than there were, and at least one, or a lost one,
  if an answer may arrive (`PublishInv`, `Tried`); without it a second publisher of
  the same row could not be excluded, nor copies be counted. The copies of an event
  are a finite set, which an attempt adds to and a leader that fails takes from
  (lemmas on `Copies`). For the second (`DueIsNotSkipped`) `GroupInv` says that a
  group has handled what it committed since its beginning, reads no further than what
  is replicated, and that the copies of what it is due lie behind its beginning: a
  session moves the beginning only while nothing is due, a commit passes only what
  was handled, and an election takes only what nobody has read. For the third
  (`AnswersFresh`) the invariant `FreshInv` dates
  everything that was read from the table: a row missing from the users a search has
  fetched is no older than the time since the fetch, and one missing from the cached
  list no older than that time and what is gone of the entry's time to live together.
  `Grown`, a relation of the table before and after a step, carries these bounds
  through every step at once. The theorem rests on `RoutedFacts`: by REST or by gRPC, a call that
  reaches a handler reaches that of the RPC, the version and the request it was made
  with (the routes of the five groups are told apart by method, verb, length and
  first segment), and on `FetchCodes`: the codes that fetchUser and fetchAllUsers
  pass on.
* **ServiceRuntimeProofs**: the whole runtime implements `AppLifecycle` (every step
  of a request or a probe is a handler that begins or ends, or a stutter), so the
  App's inductive invariant, and with it every theorem of `AppLifecycleProofs`, holds
  of the runtime (`RuntimeImplementsApp`, `AppInvariance`). On top of it: types,
  `ProbesKnow`, `ShutdownOrder`, `WireErrors` and `ConstructionSound`. The invariant `RInv`
  ties the health latch to the App's place in the plan (`HealthInv`), the servers to
  what New holds (`NewInv`, `ServeInv`), counts requests inside the servers against
  the App's `inflight` (`CountInv`: the App sees only numbers, and that an orphaned
  request was reported follows only if each request is one of them), and relates the
  last reply to the chain it was made of (`ReplyInv`). `WireErrors` rests on lemmas
  about the operators of `Errx` for every chain: the first link of a kind, what
  finishing, wrapping and receiving an error keep of its code and public text, and what
  the server interceptor sends.
  `ConstructionIsSound` assumes that each set of REST options was converted from a
  configuration message, as `service.New` does. Its other half is one lemma for each
  constructor (pool with its attempts, Redis, Oracle, Cassandra, S3, NATS, RabbitMQ, exporter) over every
  outcome of every configuration.
* **WorkspaceProofs**: `HandWrittenKept` and `CheckHonest`, in every interleaving of
  commands, dev and edits.
  * `WorkspaceSound` is the inductive invariant `IInv`: the shape of sources and outputs
    (`SrcInv`, `OutInv`), which command may be at which point and may write a main.go in
    any case (`ToolInv`), and that a version being copied is a sequence (`CopyInv`). The
    shapes are needed because "nothing else changed" is an equality of records, which
    follows from their fields only if one knows that these are all.
  * `HandWrittenIsKept` needs two things besides. Each stage leaves files without the
    header alone (`HandKept`, one lemma for each stage, composed in `RunKeeps`). And a
    manifest that goes through the struct and back keeps its meaning, section by section
    (`Written`, `MeaningWritten`), so that a patch changes only its own section
    (`AddKeeps`); this holds of manifests whose parts were decoded (`IsManifest`), which
    is why `SrcInv` says that every manifest on disk is one.
  * `CheckIsHonest` needs `CheckInv` (the snapshot is what was found; as long as nobody
    else acts, what is not tracked is as found or `Untracked`) and `Progress`: after each
    group of stages, what has been made, exactly and in terms of the sources and of what
    the check found (`Generating`, `MadeAll`). "Exactly" matters: that "ok" implies fresh
    follows from what was made; that "stale" implies that something is not fresh needs
    that generating on fresh outputs changes nothing (`NothingStale`), hence also what the
    stages do *not* write. The second generation uses the loader that the first one
    cached; `CacheOf` says that it is the API's, `SplitAgain` and `MigrateAgain` that
    splitting and migrating twice is as good as once.

Every inductive invariant was checked by TLC on the instance of the run before it
was proved.

Only model-checked:

* liveness, which is out of the prover's reach: `RunReturns`, `EveryServeReturns`,
  `EveryDoReturns`, `EverythingCommitted`, `CloseTerminates`, `CloseReturnsOrRaces`,
  `DevConverges`;
* `ConversionSound`: it runs converters on nested messages, a RECURSIVE operator, and
  its proof would be an induction over the depth of a message;
* `OpenAPIClosed`: the definitions of a document are collected by iterating to a fixed
  point and documents are merged by a fold; that the result is the least closed set is
  an induction over the data.

## 5. Not modelled

See `components` in `PROJECT.json`. Left out for good, because there is no state
to get wrong or nothing to check but text: generated protobuf accessors and
descriptors; the text of templates, SQL and Go code; protoc-gen-go-zz, which
renames the output of another plugin; the JSON envelope of `router`; the build
tasks of the magefiles; build information; logging, spans and attributes;
stack traces and log fields of errx; the copying of a buffered response;
parsing of configuration files and flags; the rate limiter of the gateway's
policy (checked on its own in `RateLimiter`); the consumer of user-service that
only logs.

Of the properties of safety that the runs check, all but `ConversionSound` and
`OpenAPIClosed` are proved; those two and liveness stay with TLC, for the reasons
above.

## 6. Running

```
tlc -workers 2 -config AppLifecycle.cfg MCAppLifecycle
tlc -workers 2 -config PolicyExecutor.cfg MCPolicyExecutor
tlc -workers 2 -config KafkaConsumer.cfg MCKafkaConsumer
tlc -workers 2 -config ServiceRuntime.cfg MCServiceRuntime
tlc -workers 2 -config KafkaClient.cfg MCKafkaClient
tlc -workers 2 -config Workspace.cfg MCWorkspace
tlc -workers 2 -config UserPlatform.cfg MCUserPlatform
for m in *Proofs.tla; do tlapm $m; done
```

The longest runs (`service_runtime`, `kafka_client`, `tooling`, `user_platform`)
take two to three minutes each.
