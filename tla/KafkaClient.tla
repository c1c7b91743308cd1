----------------------------- MODULE KafkaClient -----------------------------
(***************************************************************************)
(* The Kafka clients of one service: Producer and Consumer of              *)
(* src/sdk/transport/queue/kafka/kafka.go, the brokers they are given      *)
(* (brokers.go), and the generated main function that opens them,          *)
(* registers the topics, runs the service and closes them again            *)
(* (cmd/main.go of the services in src/examples).                          *)
(*                                                                         *)
(* KafkaConsumer models the messages of one consumer group; this module    *)
(* models the groups as such: who creates them, who closes them, and which *)
(* goroutines are left.  Sarama is external: group.Close waits for Consume *)
(* to return and closes the channel of errors; a SyncProducer flushes what *)
(* it was handed when it is closed, and a SendMessage after that panics.   *)
(***************************************************************************)
EXTENDS Integers, Sequences, FiniteSets, Functions, TlsConfig

CONSTANTS
    Topics,       \* topics the generated RegisterKafka registers
    Late,         \* topics other code registers at a time of its choosing
    Rpcs,         \* RPC handlers that publish
    MaxHandles,   \* bound on the SyncProducers created
    MaxErrors,    \* bound on the failures of the broker
    Settings,     \* the configurations the process may find, see below
    Trim          \* Trim[b]: strings.TrimSpace(b), for the brokers in use

ASSUME ClientAssumption ==
    /\ IsFiniteSet(Topics) /\ IsFiniteSet(Late) /\ Topics \cap Late = {}
    /\ MaxHandles \in Nat /\ MaxErrors \in Nat
    /\ \A s \in Settings : s.service \in {"user", "notification", "search"}

\* A text that was trimmed has nothing left to trim.
DefaultBroker == "localhost:9092"
ASSUME TrimAssumption ==
    /\ \A b \in DOMAIN Trim : Trim[b] \in DOMAIN Trim /\ Trim[Trim[b]] = Trim[b]
    /\ DefaultBroker \in DOMAIN Trim /\ Trim[DefaultBroker] = DefaultBroker

\* A config file that was decoded is a message, its brokers a list of texts.
ASSUME SettingsAssumption ==
    \A s \in Settings :
        /\ s.manifest \in Seq(DOMAIN Trim) /\ s.env \in Seq(DOMAIN Trim)
        /\ \A f \in s.files : f.spec \notin {Failed, Nil} =>
              /\ f.spec = [brokers |-> f.spec.brokers, tls |-> f.spec.tls]
              /\ f.spec.brokers \in Seq(DOMAIN Trim)

Groups == Topics \cup Late
Publishers == Rpcs \cup Groups    \* a handler of a group publishes under its name
Nobody == "nobody"

\* The holder of a lock is told by its name.
ASSUME NamesAssumption == {Nobody, "close"} \cap Publishers = {}

VARIABLES
    main,       \* where main is
    cleanups,   \* what main has opened and will close, oldest first
    settings,   \* the configuration of this process
    tls,        \* the TLS configuration of the two clients

    (* The Consumer. *)
    stopped,    \* c.ctx is cancelled
    listed,     \* c.groups
    reg,        \* reg[t]: where the call of Register for t is
    grp,        \* grp[t]: the consumer group of t
    loop,       \* loop[t]: the goroutine in consume
    errs,       \* errs[t]: the goroutine in consumeErrors
    close,      \* where Consumer.Close is
    copied,     \* the groups Close has copied from the list

    (* The Producer. *)
    mu,         \* who holds p.mu
    current,    \* the handle p.producers has for the brokers; 0: none
    handle,     \* handle[h]: a SyncProducer
    pub,        \* pub[p]: where p is in Publish, and the handle it got

    (* History: no part of the program. *)
    before,     \* topics whose Register had returned when Close began
    panicked,   \* publishers that sent on a closed SyncProducer
    clusters,   \* connections a group or a SyncProducer was created for
    errors      \* failures of the broker so far

mainVars == <<main, cleanups, settings, tls>>
consumerVars == <<stopped, listed, reg, grp, loop, errs, close, copied, before>>
producerVars == <<mu, current, handle, pub, panicked>>
vars == <<mainVars, consumerVars, producerVars, clusters, errors>>

-----------------------------------------------------------------------------
(* Broker lists.  A configuration of the process is the service it is, its  *)
(* config files, the brokers the manifest lists, and what KAFKA_BROKERS     *)
(* holds, split at its commas (<<>> when it is not set).  A file has a kind its metadata names  *)
(* (Failed: unreadable), and a body: Failed, Nil or a spec.                 *)

\* Loader.Get: the metadata of every file is parsed to find the one of a kind,
\* so one bad file hides them all.
LoadConfig(files, kind) ==
    LET ofKind == {f \in files : f.kind = kind} IN
    IF (\E f \in files : f.kind = Failed) \/ Cardinality(ofKind) # 1 THEN Failed
    ELSE (CHOOSE f \in ofKind : TRUE).spec

\* kept[n]: what is kept of the first n brokers.
NormalizeBrokers(brokers) ==
    LET kept[n \in 0..Len(brokers)] ==
            IF n = 0 THEN <<>>
            ELSE IF Trim[brokers[n]] = "" THEN kept[n - 1]
            ELSE Append(kept[n - 1], Trim[brokers[n]])
    IN  kept[Len(brokers)]

FallbackBrokers(s) ==
    LET manifest == NormalizeBrokers(s.manifest) IN
    IF manifest # <<>> THEN manifest
    ELSE IF s.env # <<>> THEN NormalizeBrokers(s.env)
    ELSE <<DefaultBroker>>

\* Mutant: a file without brokers is replaced as a whole, its TLS included.
ConfigFromLoaderDropsTls(s) ==
    LET spec == LoadConfig(s.files, "kafka") IN
    IF spec \in {Failed, Nil} \/ NormalizeBrokers(spec.brokers) = <<>>
      THEN [brokers |-> FallbackBrokers(s), tls |-> Nil]
      ELSE spec

\* The typed configuration: a file that loads is kept, its brokers replaced by
\* the fallback when it lists none; otherwise there is only the fallback.
ConfigFromLoader(s) ==
    LET spec == LoadConfig(s.files, "kafka") IN
    IF spec \in {Failed, Nil} THEN [brokers |-> FallbackBrokers(s), tls |-> Nil]
    ELSE IF NormalizeBrokers(spec.brokers) = <<>>
      THEN [spec EXCEPT !.brokers = FallbackBrokers(s)]
    ELSE spec

Brokers(config) ==
    LET brokers == NormalizeBrokers(config.brokers) IN
    IF brokers = <<>> THEN <<DefaultBroker>> ELSE brokers

\* Publish: the brokers of the call, those of the producer, or the default.
EffectiveBrokers(brokers, defaults) ==
    LET own == NormalizeBrokers(brokers) IN
    IF own # <<>> THEN own ELSE IF defaults # <<>> THEN defaults ELSE <<DefaultBroker>>

\* The main functions of the example services are one text in which the steps for
\* what the manifest does not ask for are missing: the step each begins with, and
\* the handlers that publish.  notification-service hands its producer to handlers
\* that make no use of it; search-service has neither a pool nor Kafka clients.
UserMain == [first |-> "pool", publishers |-> Publishers]
NotificationMain == [first |-> "producer", publishers |-> {}]
SearchMain == [first |-> "service", publishers |-> {}]
Main == CASE settings.service = "user" -> UserMain
          [] settings.service = "notification" -> NotificationMain
          [] settings.service = "search" -> SearchMain

\* What main hands to NewProducerFromConfig, to the handlers and to Register.
KafkaConfig == ConfigFromLoader(settings)
ServiceBrokers == Brokers(KafkaConfig)

\* kafkaTLSConfig: the outcomes it may have.
KafkaTLSConfig == ClientConfig(ClientOptionsFromProto(KafkaConfig.tls))

\* The connection a SyncProducer and a consumer group of this service make.
ProducerCluster ==
    [brokers |-> EffectiveBrokers(ServiceBrokers, NormalizeBrokers(ServiceBrokers)),
     tls |-> tls]
ConsumerCluster ==
    LET brokers == NormalizeBrokers(ServiceBrokers) IN
    [brokers |-> IF brokers = <<>> THEN <<DefaultBroker>> ELSE brokers, tls |-> tls]

-----------------------------------------------------------------------------
Init ==
    /\ settings \in Settings
    /\ main = Main.first
    /\ cleanups = <<>>
    /\ tls = Nil
    /\ stopped = FALSE
    /\ listed = {}
    /\ reg = [t \in Groups |-> "none"]
    /\ grp = [t \in Groups |-> "none"]
    /\ loop = [t \in Groups |-> "none"]
    /\ errs = [t \in Groups |-> "none"]
    /\ close = "open"
    /\ copied = {}
    /\ mu = Nobody
    /\ current = 0
    /\ handle = [h \in 1..MaxHandles |-> "unused"]
    /\ pub = [p \in Publishers |-> [at |-> "idle", h |-> 0]]
    /\ before = {}
    /\ panicked = {}
    /\ clusters = {}
    /\ errors = 0

\* A failure of the broker or of the network.
BrokerError == errors < MaxErrors /\ errors' = errors + 1

-----------------------------------------------------------------------------
(* Register, consume and consumeErrors.                                    *)

\* The generated code registers its topics one after the other, and stops at
\* the first error; other code may call Register as soon as there is a Consumer.
CalledNow(t) ==
    /\ reg[t] = "none"
    /\ IF t \in Topics
         THEN main = "register" /\ \A u \in Topics : reg[u] \in {"none", "done"}
         ELSE Main # SearchMain /\ main \in {"register", "service", "run", "shutdown"}

\* newConsumerGroup returns a group, or an error.
CreateGroup(t) ==
    /\ CalledNow(t)
    /\ reg' = [reg EXCEPT ![t] = "created"]
    /\ grp' = [grp EXCEPT ![t] = "open"]
    /\ clusters' = clusters \cup {ConsumerCluster}
    /\ UNCHANGED <<mainVars, stopped, listed, loop, errs, close, copied,
                   before, producerVars, errors>>

CreateGroupFails(t) ==
    /\ CalledNow(t)
    /\ BrokerError
    /\ reg' = [reg EXCEPT ![t] = "failed"]
    /\ UNCHANGED <<mainVars, stopped, listed, grp, loop, errs, close, copied,
                   before, producerVars, clusters>>

\* c.groups = append(c.groups, group), under the lock.
List(t) ==
    /\ reg[t] = "created"
    /\ reg' = [reg EXCEPT ![t] = "listed"]
    /\ listed' = listed \cup {t}
    /\ UNCHANGED <<mainVars, stopped, grp, loop, errs, close, copied, before,
                   producerVars, clusters, errors>>

\* The two goroutines are started one after the other.
StartConsume(t) ==
    /\ reg[t] = "listed"
    /\ reg' = [reg EXCEPT ![t] = "half"]
    /\ loop' = [loop EXCEPT ![t] = "head"]
    /\ UNCHANGED <<mainVars, stopped, listed, grp, errs, close, copied, before,
                   producerVars, clusters, errors>>

StartErrors(t) ==
    /\ reg[t] = "half"
    /\ reg' = [reg EXCEPT ![t] = "done"]
    /\ errs' = [errs EXCEPT ![t] = "range"]
    /\ UNCHANGED <<mainVars, stopped, listed, grp, loop, close, copied, before,
                   producerVars, clusters, errors>>

LoopTo(t, from, to) ==
    /\ loop[t] = from
    /\ loop' = [loop EXCEPT ![t] = to]
    /\ UNCHANGED <<mainVars, stopped, listed, reg, grp, errs, close, copied,
                   before, producerVars, clusters>>

\* The head of the loop: c.ctx.Err(), then group.Consume.
LoopHead(t) == LoopTo(t, "head", IF stopped THEN "done" ELSE "consume") /\ UNCHANGED errors

\* A message of a claim reaches the handler, and the handler returns.
Receive(t) ==
    /\ grp[t] = "open"
    /\ LoopTo(t, "consume", "handle")
    /\ UNCHANGED errors
Handled(t) ==
    /\ pub[t].at = "idle"
    /\ LoopTo(t, "handle", "consume")
    /\ UNCHANGED errors

\* Consume returns nil: the session is over.
ConsumeNil(t) == LoopTo(t, "consume", "head") /\ UNCHANGED errors

\* Consume returns an error: the loop ends if the consumer is stopped and
\* pauses otherwise.  A closed group always gives an error.
ConsumeError(t) ==
    /\ IF grp[t] = "closed" THEN UNCHANGED errors ELSE BrokerError
    /\ LoopTo(t, "consume", IF stopped THEN "done" ELSE "pause")
Pause(t) == LoopTo(t, "pause", IF stopped THEN "done" ELSE "head") /\ UNCHANGED errors

\* The channel of errors is closed with the group.
ErrorsEnd(t) ==
    /\ errs[t] = "range"
    /\ grp[t] = "closed"
    /\ errs' = [errs EXCEPT ![t] = "done"]
    /\ UNCHANGED <<mainVars, stopped, listed, reg, grp, loop, close, copied,
                   before, producerVars, clusters, errors>>

-----------------------------------------------------------------------------
(* Consumer.Close.                                                         *)

\* main, or the application it has run, is at the cleanup of c: the newest left.
Closing(c) ==
    /\ main \in {"cleanup", "shutdown"}
    /\ cleanups # <<>>
    /\ cleanups[Len(cleanups)] = c

CloseTo(from, to) ==
    /\ close = from
    /\ close' = to
    /\ UNCHANGED <<mainVars, listed, reg, loop, errs, producerVars, clusters,
                   errors>>

\* c.stop().
Stop ==
    /\ Closing("consumer")
    /\ CloseTo("open", "stopped")
    /\ stopped' = TRUE
    /\ before' = {t \in Groups : reg[t] = "done"}
    /\ UNCHANGED <<grp, copied>>

CopyGroups ==
    /\ CloseTo("stopped", "closing")
    /\ copied' = listed
    /\ UNCHANGED <<stopped, grp, before>>

\* The goroutines the wait group counts.
Running == {t \in Groups : loop[t] \notin {"none", "done"} \/ errs[t] = "range"}

\* Mutant: the wait for the goroutines comes before the groups are closed.
CloseGroupAfterWait(t) ==
    /\ t \in copied
    /\ grp[t] = "open"
    /\ Running = {}
    /\ CloseTo("closing", "closing")
    /\ grp' = [grp EXCEPT ![t] = "closed"]
    /\ UNCHANGED <<stopped, copied, before>>

\* The groups are closed one after the other; each waits for its Consume.
CloseGroup(t) ==
    /\ t \in copied
    /\ grp[t] = "open"
    /\ loop[t] \notin {"consume", "handle"}
    /\ CloseTo("closing", "closing")
    /\ grp' = [grp EXCEPT ![t] = "closed"]
    /\ UNCHANGED <<stopped, copied, before>>

\* Mutant: Close does not wait for the goroutines.
CloseReturnsNoWait ==
    /\ \A t \in copied : grp[t] = "closed"
    /\ CloseTo("closing", "returned")
    /\ UNCHANGED <<stopped, grp, copied, before>>

\* c.wg.Wait().
CloseReturns ==
    /\ \A t \in copied : grp[t] = "closed"
    /\ Running = {}
    /\ CloseTo("closing", "returned")
    /\ UNCHANGED <<stopped, grp, copied, before>>

-----------------------------------------------------------------------------
(* The Producer.                                                           *)

\* A consumer handler publishes while it runs, an RPC handler while the
\* application serves; one the shutdown did not wait for goes on.
MayPublish(p) ==
    /\ p \in Main.publishers
    /\ IF p \in Groups THEN loop[p] = "handle" ELSE main \in {"run", "shutdown"}

\* Mutant: the lock is not held while a SyncProducer is created.
LookupUnlocked(p) ==
    /\ pub[p].at = "idle"
    /\ MayPublish(p)
    /\ mu = Nobody
    /\ IF current # 0
         THEN pub' = [pub EXCEPT ![p] = [at |-> "send", h |-> current]]
         ELSE /\ \E h \in 1..MaxHandles : handle[h] = "unused"
              /\ pub' = [pub EXCEPT ![p].at = "creating"]
    /\ UNCHANGED <<mainVars, consumerVars, mu, current, handle, panicked, clusters, errors>>

\* producer(): the lock is held while a missing SyncProducer is created.
Lookup(p) ==
    /\ pub[p].at = "idle"
    /\ MayPublish(p)
    /\ mu = Nobody
    /\ IF current # 0
         THEN pub' = [pub EXCEPT ![p] = [at |-> "send", h |-> current]] /\ UNCHANGED mu
         ELSE /\ \E h \in 1..MaxHandles : handle[h] = "unused"
              /\ pub' = [pub EXCEPT ![p].at = "creating"]
              /\ mu' = p
    /\ UNCHANGED <<mainVars, consumerVars, current, handle, panicked, clusters, errors>>

Created(p) ==
    /\ pub[p].at = "creating"
    /\ \E h \in 1..MaxHandles :
         /\ handle[h] = "unused"
         /\ \A k \in 1..(h - 1) : handle[k] # "unused"
         /\ handle' = [handle EXCEPT ![h] = "open"]
         /\ current' = h
         /\ pub' = [pub EXCEPT ![p] = [at |-> "send", h |-> h]]
    /\ mu' = Nobody
    /\ clusters' = clusters \cup {ProducerCluster}
    /\ UNCHANGED <<mainVars, consumerVars, panicked, errors>>

CreateFails(p) ==
    /\ pub[p].at = "creating"
    /\ BrokerError
    /\ pub' = [pub EXCEPT ![p].at = "idle"]
    /\ mu' = Nobody
    /\ UNCHANGED <<mainVars, consumerVars, current, handle, panicked, clusters>>

\* SendMessage: accepted, refused because the SyncProducer is shutting down, or
\* a send on the channel its Close has closed, which ends the process.
Send(p) ==
    /\ pub[p].at = "send"
    /\ LET state == handle[pub[p].h] IN
       /\ pub' = [pub EXCEPT ![p].at = IF state = "open" THEN "flight" ELSE "idle"]
       /\ IF state = "closed"
            THEN panicked' = panicked \cup {p} /\ main' = "crashed"
            ELSE UNCHANGED <<panicked, main>>
    /\ UNCHANGED <<cleanups, settings, tls, consumerVars, mu, current, handle, clusters, errors>>

\* The broker has answered, or the retries are used up.
SendDone(p) ==
    /\ pub[p].at = "flight"
    /\ pub' = [pub EXCEPT ![p] = [at |-> "idle", h |-> 0]]
    /\ UNCHANGED <<mainVars, consumerVars, mu, current, handle, panicked, clusters, errors>>

\* Producer.Close: under the lock, every SyncProducer is flushed, closed and
\* forgotten.
CloseProducer ==
    /\ Closing("producer")
    /\ mu = Nobody
    /\ mu' = "close"
    /\ handle' = [h \in DOMAIN handle |-> IF h = current THEN "closing" ELSE handle[h]]
    /\ UNCHANGED <<mainVars, consumerVars, current, pub, panicked, clusters, errors>>

ProducerClosed ==
    /\ mu = "close"
    /\ ~\E p \in Publishers : pub[p] = [at |-> "flight", h |-> current]
    /\ handle' = [h \in DOMAIN handle |-> IF h = current THEN "closed" ELSE handle[h]]
    /\ current' = 0
    /\ mu' = Nobody
    /\ cleanups' = SubSeq(cleanups, 1, Len(cleanups) - 1)
    /\ UNCHANGED <<main, settings, tls, consumerVars, pub, panicked, clusters, errors>>

-----------------------------------------------------------------------------
(* main.                                                                   *)

\* Mutant: what is opened last is put first, and so closed last.
MainToPrepends(from, to, opened) ==
    /\ main = from
    /\ main' = to
    /\ cleanups' = opened \o cleanups
    /\ UNCHANGED <<settings, consumerVars, producerVars, clusters>>

MainTo(from, to, opened) ==
    /\ main = from
    /\ main' = to
    /\ cleanups' = cleanups \o opened
    /\ UNCHANGED <<settings, consumerVars, producerVars, clusters>>

\* openPostgres needs its own config file, and a server that answers.
OpenPool == MainTo("pool", "producer", <<"pool">>) /\ UNCHANGED <<tls, errors>>
            /\ LoadConfig(settings.files, "postgres") # Failed
PoolFails ==
    /\ IF LoadConfig(settings.files, "postgres") = Failed THEN UNCHANGED errors ELSE BrokerError
    /\ MainTo("pool", "cleanup", <<>>)
    /\ UNCHANGED tls

OpenProducer ==
    \E outcome \in KafkaTLSConfig :
        /\ UNCHANGED errors
        /\ IF outcome = Failed
             THEN MainTo("producer", "cleanup", <<>>) /\ UNCHANGED tls
             ELSE MainTo("producer", "consumer", <<"producer">>) /\ tls' = outcome

\* The material was read a moment ago; it may be gone.
OpenConsumer ==
    \E outcome \in KafkaTLSConfig \cap {tls, Failed} :
        /\ IF outcome = Failed
             THEN MainTo("consumer", "cleanup", <<>>)
             ELSE MainTo("consumer", "register", <<"consumer">>)
        /\ UNCHANGED <<tls, errors>>

RegisterReturns ==
    /\ \A t \in Topics : reg[t] \in {"done", "failed"} \/ \E u \in Topics : reg[u] = "failed"
    /\ MainTo("register", IF \E t \in Topics : reg[t] = "failed" THEN "cleanup" ELSE "service",
              <<>>)
    /\ UNCHANGED <<tls, errors>>

\* service.New: a port in use ends the start.
NewService == MainTo("service", "run", <<>>) /\ UNCHANGED <<tls, errors>>
NewServiceFails == MainTo("service", "cleanup", <<>>) /\ BrokerError /\ UNCHANGED tls

\* A signal, or a component that fails, starts the shutdown of the application;
\* the components are stopped, or left behind, when the cleanups begin.
Shutdown == MainTo("run", "shutdown", <<>>) /\ UNCHANGED <<tls, errors>>

\* Cleanups that are calls without interesting steps, and the return from
\* Consumer.Close.
Cleaned ==
    /\ Closing("pool") \/ (Closing("consumer") /\ close = "returned")
    /\ cleanups' = SubSeq(cleanups, 1, Len(cleanups) - 1)
    /\ UNCHANGED <<main, settings, tls, consumerVars, producerVars, clusters, errors>>

Exit ==
    /\ main \in {"cleanup", "shutdown"}
    /\ cleanups = <<>>
    /\ main' = IF main = "cleanup" THEN "failed" ELSE "exit"
    /\ UNCHANGED <<cleanups, settings, tls, consumerVars, producerVars, clusters, errors>>

-----------------------------------------------------------------------------
ConsumerStep(t) ==
    \/ CreateGroup(t) \/ CreateGroupFails(t) \/ List(t) \/ StartConsume(t) \/ StartErrors(t)
    \/ LoopHead(t) \/ Receive(t) \/ Handled(t) \/ ConsumeNil(t) \/ ConsumeError(t)
    \/ Pause(t) \/ ErrorsEnd(t)

CloseStep == Stop \/ CopyGroups \/ (\E t \in Groups : CloseGroup(t)) \/ CloseReturns

PublishStep(p) == Lookup(p) \/ Created(p) \/ CreateFails(p) \/ Send(p) \/ SendDone(p)

MainStep ==
    \/ OpenPool \/ PoolFails \/ OpenProducer \/ OpenConsumer \/ RegisterReturns
    \/ NewService \/ NewServiceFails \/ Shutdown
    \/ CloseProducer \/ ProducerClosed \/ Cleaned \/ Exit

\* The process ends with main or with a panic, whatever else runs.
Alive == main \notin {"exit", "failed", "crashed"}

Next ==
    /\ Alive
    /\ \/ \E t \in Groups : ConsumerStep(t)
       \/ CloseStep
       \/ \E p \in Publishers : PublishStep(p)
       \/ MainStep

\* What Consumer.Close waits for goes on: the goroutines of a group run, what
\* they publish is answered, a handler returns however often it publishes, and
\* sarama ends a session whose context is cancelled.  No fairness for main, for
\* RPC handlers or for calls of Register that have not listed their group.
GroupRuns(t) ==
    \/ StartConsume(t) \/ StartErrors(t) \/ LoopHead(t) \/ Pause(t) \/ ErrorsEnd(t)
    \/ Created(t) \/ CreateFails(t) \/ Send(t) \/ SendDone(t)

Fairness ==
    /\ WF_vars(Alive /\ CloseStep)
    /\ \A t \in Groups :
         /\ WF_vars(Alive /\ GroupRuns(t))
         /\ SF_vars(Alive /\ Handled(t))
         /\ SF_vars(Alive /\ stopped /\ (ConsumeNil(t) \/ ConsumeError(t)))

Spec == Init /\ [][Next]_vars /\ Fairness

-----------------------------------------------------------------------------
\* The lock is held by whoever creates or closes a SyncProducer, a handle that
\* publishers may get is one that exists, and goroutines belong to a group.
TypeOK ==
    /\ main \in {"pool", "producer", "consumer", "register", "service", "run", "shutdown",
                "cleanup", "exit", "failed", "crashed"}
    /\ mu \in Publishers \cup {Nobody, "close"}
    /\ \A p \in Publishers : pub[p].at = "creating" <=> mu = p
    /\ current # 0 => handle[current] \in {"open", "closing"}
    /\ \A h \in DOMAIN handle : handle[h] = "closing" => mu = "close"
    /\ \A t \in Groups : grp[t] = "none" => loop[t] = "none" /\ errs[t] = "none"
    /\ copied \subseteq listed

\* Consumer.Close keeps the promise of its comment for every topic whose Register
\* had returned: its group is closed, both goroutines have ended, and none of its
\* handlers is in Publish.  (Register racing with Close: see CloseReturnsOrRaces.)
CloseComplete ==
    close = "returned" =>
        \A t \in before : /\ grp[t] = "closed"
                          /\ loop[t] = "done" /\ errs[t] = "done"
                          /\ pub[t].at = "idle"

\* No consumer handler sends on a SyncProducer that was closed under it, in a
\* shutdown or in a start that fails: main opens the producer first and closes it
\* last.  An RPC handler that outlives the shutdown has no such protection, and
\* only such a one ends the process.
OnlyOrphansPanic == panicked \subseteq Rpcs /\ (panicked # {} => cleanups \in {<<>>, <<"pool">>})

\* A start that fails at any stage, also with consumers already handling
\* messages, leaves no group of its topics and no SyncProducer open.
FailedStartReleases ==
    main = "failed" => /\ \A t \in Topics : grp[t] # "open" /\ loop[t] \in {"none", "done"}
                       /\ \A h \in DOMAIN handle : handle[h] \in {"unused", "closed"}

\* What Close, or the cleanups of a start that failed, leave behind
\* (kafka.go:289-307, main.go:149-157).
ClientsReleased == CloseComplete /\ FailedStartReleases

\* Everything that connects does so with the same brokers, at least one, and with
\* a TLS configuration that was built, without an error, from the service's options.
OneConnection ==
    \A c \in clusters : clusters = {c} /\ c.brokers # <<>> /\ c.tls \in KafkaTLSConfig \ {Failed}

\* Producers and consumers connect to one cluster: the one the kafka config file
\* names where it loads and names one, with the TLS that file asks for.
OneCluster ==
    /\ OneConnection
    /\ \A c \in clusters :
        LET spec == LoadConfig(settings.files, "kafka") IN
        /\ \A i \in DOMAIN c.brokers : c.brokers[i] = Trim[c.brokers[i]] /\ c.brokers[i] # ""
        /\ spec \notin {Failed, Nil} =>
             /\ c.tls # Nil <=> ClientOptionsFromProto(spec.tls) # Nil
             /\ (\E b \in Range(spec.brokers) : Trim[b] # "") =>
                   Range(c.brokers) \subseteq {Trim[b] : b \in Range(spec.brokers)}

\* Consumer.Close returns once it was called, whatever the loops and handlers
\* were doing, unless a Register has appended its group after Close copied the
\* list: nobody closes that one and its consumeErrors never ends.
CloseReturnsOrRaces ==
    close = "stopped" ~> \/ close = "returned"
                         \/ ~Alive
                         \/ close = "closing" /\ listed \ copied # {}
=============================================================================
