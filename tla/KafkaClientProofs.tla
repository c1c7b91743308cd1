-------------------------- MODULE KafkaClientProofs --------------------------
(* Safety of KafkaClient for any topics, publishers and configurations.      *)
EXTENDS KafkaClient, SequenceTheorems, FiniteSetTheorems, WellFoundedInduction, TLAPS

\* The lists of cleanups there are: main opens the clients in one order only.
NoClients == {<<>>, <<"pool">>}
OnlyProducer == {<<"producer">>, <<"pool", "producer">>}
WithConsumer == {<<"producer", "consumer">>, <<"pool", "producer", "consumer">>}

Search == settings.service = "search"
Early == {"pool", "producer", "consumer", "register"}
Leaving == {"cleanup", "shutdown", "exit", "failed", "crashed"}

Types ==
    /\ main \in Early \cup Leaving \cup {"service", "run"}
    /\ cleanups \in NoClients \cup OnlyProducer \cup WithConsumer
    /\ settings \in Settings
    /\ stopped \in BOOLEAN
    /\ listed \in SUBSET Groups /\ copied \in SUBSET Groups /\ before \in SUBSET Groups
    /\ reg \in [Groups -> {"none", "failed", "created", "listed", "half", "done"}]
    /\ grp \in [Groups -> {"none", "open", "closed"}]
    /\ loop \in [Groups -> {"none", "head", "consume", "handle", "pause", "done"}]
    /\ errs \in [Groups -> {"none", "range", "done"}]
    /\ close \in {"open", "stopped", "closing", "returned"}
    /\ mu \in Publishers \cup {Nobody, "close"}
    /\ current \in 0..MaxHandles
    /\ handle \in [1..MaxHandles -> {"unused", "open", "closing", "closed"}]
    /\ pub \in [Publishers -> [at : {"idle", "creating", "send", "flight"}, h : 0..MaxHandles]]

\* How far main is tells what is open: the consumer is closed before the producer
\* and both before the process ends.
MainInv ==
    /\ main = "pool" => cleanups = <<>>
    /\ main = "producer" => cleanups \in NoClients
    /\ main = "consumer" => cleanups \in OnlyProducer
    /\ main \in Early => ~Search
    /\ main \in {"register", "service", "run"} /\ ~Search => cleanups \in WithConsumer
    /\ main = "shutdown" /\ ~Search => cleanups \in WithConsumer \/ close = "returned"
    /\ Search => cleanups = <<>>
    /\ main \in {"exit", "failed"} => cleanups = <<>>
    /\ main = "crashed" => cleanups \in NoClients
    /\ close # "open" => main \in Leaving
    /\ close \in {"stopped", "closing"} => cleanups \in WithConsumer
    /\ \A t \in Groups : reg[t] # "none" => cleanups \in WithConsumer \/ close = "returned"

\* The calls of Register, the groups and the goroutines they have started, and
\* what Close has copied, closed and waited for.
GroupInv ==
    /\ stopped <=> close # "open"
    /\ copied \subseteq listed
    /\ \A t \in Groups :
         /\ grp[t] = "none" <=> reg[t] \in {"none", "failed"}
         /\ t \in listed <=> reg[t] \in {"listed", "half", "done"}
         /\ loop[t] # "none" <=> reg[t] \in {"half", "done"}
         /\ errs[t] # "none" <=> reg[t] = "done"
         /\ t \in before => reg[t] = "done"
         /\ t \in before /\ close \in {"closing", "returned"} => t \in copied
         /\ t \in copied /\ close = "returned" => grp[t] = "closed"
         /\ t \in before /\ close = "returned" => loop[t] = "done" /\ errs[t] = "done"
         /\ close = "returned" => loop[t] \notin {"consume", "handle", "pause"}
         /\ pub[t].at # "idle" => loop[t] = "handle"

\* The SyncProducers: one that is open is the one publishers find, one that is
\* closed was closed after the consumer.
HandleInv ==
    /\ \A p \in Publishers : pub[p].at = "creating" <=> mu = p
    /\ mu \in Publishers => current = 0
    /\ mu = "close" => main \in {"cleanup", "shutdown"} /\ cleanups \in OnlyProducer
    /\ current # 0 => handle[current] \in {"open", "closing"}
    /\ \A h \in 1..MaxHandles :
         /\ handle[h] \in {"open", "closing"} => h = current
         /\ handle[h] = "closing" => mu = "close"
         /\ handle[h] = "closed" => cleanups \in NoClients /\ main \in Leaving
    /\ \A p \in Publishers : pub[p].at \in {"send", "flight"} => pub[p].h \in 1..MaxHandles
    /\ panicked # {} => main = "crashed"
    /\ panicked \subseteq Rpcs

\* A start that fails: main's own calls of Register are over, they were all
\* known to Close, and no RPC handler was ever called.  search-service never publishes.
StartInv ==
    /\ \A t, u \in Topics : t # u /\ reg[t] \notin {"none", "done"} => reg[u] \in {"none", "done"}
    /\ main \notin Early => \A t \in Topics : reg[t] \in {"none", "done", "failed"}
    /\ close # "open" => \A t \in Topics : reg[t] = "done" => t \in before
    /\ main \notin {"run", "shutdown", "exit", "crashed"} =>
         /\ \A p \in Publishers \ Groups : pub[p].at = "idle"
         /\ current # 0 => cleanups \in OnlyProducer \cup WithConsumer
    /\ Search => \A p \in Publishers : pub[p].at = "idle"

\* The TLS configuration is settled before anything connects.
ClusterInv ==
    /\ main \in {"pool", "producer"} => clusters = {}
    /\ clusters \subseteq {ConsumerCluster}
    /\ \/ clusters # {}
       \/ cleanups \in OnlyProducer \cup WithConsumer
       \/ close = "returned"
       => tls \in KafkaTLSConfig \ {Failed}

IInv == Types /\ MainInv /\ GroupInv /\ HandleInv /\ StartInv /\ ClusterInv

-----------------------------------------------------------------------------
\* A sequence without its last element.
LEMMA Popped ==
    ASSUME NEW S, NEW s \in Seq(S), NEW t \in Seq(S),
           Len(s) = Len(t) + 1, \A i \in 1..Len(t) : s[i] = t[i]
    PROVE  SubSeq(s, 1, Len(s) - 1) = t
  <1>1. Len(t) \in Nat /\ \A i \in 1..Len(t) : s[i] \in S
    BY LenProperties, ElementOfSeq
  <1> DEFINE u == SubSeq(s, 1, Len(t))
  <1>2. u \in Seq(S) /\ Len(u) = Len(t) /\ \A i \in 1..Len(t) : u[i] = s[i]
    BY <1>1, SubSeqProperties
  <1>3. u = t
    BY <1>2, SeqEqual
  <1> QED
    BY <1>1, <1>3

\* A sequence with one element more.
LEMMA Pushed ==
    ASSUME NEW S, NEW s \in Seq(S), NEW e \in S, NEW t \in Seq(S),
           Len(t) = Len(s) + 1, \A i \in 1..Len(s) : s[i] = t[i], t[Len(s) + 1] = e
    PROVE  s \o <<e>> = t
  <1>1. Len(s) \in Nat
    BY LenProperties
  <1> DEFINE u == Append(s, e)
  <1>2. u \in Seq(S) /\ Len(u) = Len(t) /\ \A i \in 1..Len(t) : u[i] = t[i]
    BY <1>1, AppendProperties
  <1>3. u = t
    BY <1>2, SeqEqual
  <1> QED
    BY <1>3, AppendIsConcat

\* Both, for the short sequences main builds.
LEMMA ShortLists ==
    ASSUME NEW S, NEW a \in S, NEW b \in S, NEW c \in S
    PROVE  /\ SubSeq(<<a, b, c>>, 1, Len(<<a, b, c>>) - 1) = <<a, b>>
           /\ SubSeq(<<a, b>>, 1, Len(<<a, b>>) - 1) = <<a>>
           /\ SubSeq(<<a>>, 1, Len(<<a>>) - 1) = <<>>
           /\ <<a, b>> \o <<c>> = <<a, b, c>>
           /\ <<a>> \o <<b>> = <<a, b>>
           /\ <<>> \o <<a>> = <<a>>
           /\ <<a, b, c>> \o <<>> = <<a, b, c>> /\ <<a, b>> \o <<>> = <<a, b>>
           /\ <<a>> \o <<>> = <<a>> /\ <<>> \o <<>> = <<>>
  <1> DEFINE l0 == <<>>  l1 == <<a>>  l2 == <<a, b>>  l3 == <<a, b, c>>
  <1>1. /\ l0 \in Seq(S) /\ Len(l0) = 0
        /\ l1 \in Seq(S) /\ Len(l1) = 1 /\ l1[1] = a
        /\ l2 \in Seq(S) /\ Len(l2) = 2 /\ l2[1] = a /\ l2[2] = b
        /\ l3 \in Seq(S) /\ Len(l3) = 3 /\ l3[1] = a /\ l3[2] = b /\ l3[3] = c
    OBVIOUS
  <1>2. \A i \in 1..2 : i = 1 \/ i = 2
    OBVIOUS
  <1> HIDE DEF l0, l1, l2, l3
  <1>3. SubSeq(l3, 1, Len(l3) - 1) = l2
    BY <1>1, <1>2, Popped
  <1>4. SubSeq(l2, 1, Len(l2) - 1) = l1
    BY <1>1, <1>2, Popped
  <1>5. SubSeq(l1, 1, Len(l1) - 1) = l0
    BY <1>1, Popped
  <1>6. l2 \o <<c>> = l3
    <2>1. l3[Len(l2) + 1] = c /\ Len(l3) = Len(l2) + 1 /\ \A i \in 1..Len(l2) : l2[i] = l3[i]
      BY <1>1, <1>2
    <2> QED
      BY <1>1, <2>1, Pushed
  <1>7. l1 \o <<b>> = l2
    <2>1. l2[Len(l1) + 1] = b /\ Len(l2) = Len(l1) + 1 /\ \A i \in 1..Len(l1) : l1[i] = l2[i]
      BY <1>1, <1>2
    <2> QED
      BY <1>1, <2>1, Pushed
  <1>8. l0 \o <<a>> = l1
    BY <1>1, Pushed
  <1>9. l3 \o <<>> = l3 /\ l2 \o <<>> = l2 /\ l1 \o <<>> = l1 /\ l0 \o <<>> = l0
    BY <1>1, ConcatEmptySeq
  <1> QED
    BY <1>3, <1>4, <1>5, <1>6, <1>7, <1>8, <1>9 DEF l0, l1, l2, l3

\* What the cleanup that runs, and the next client main opens, make of the list.
LEMMA CleanupLists ==
    /\ \A s \in WithConsumer :
         s # <<>> /\ s[Len(s)] = "consumer" /\ SubSeq(s, 1, Len(s) - 1) \in OnlyProducer
    /\ \A s \in OnlyProducer :
         /\ s # <<>> /\ s[Len(s)] = "producer" /\ SubSeq(s, 1, Len(s) - 1) \in NoClients
         /\ s \o <<"consumer">> \in WithConsumer
    /\ \A s \in NoClients :
         /\ s # <<>> => s[Len(s)] = "pool" /\ SubSeq(s, 1, Len(s) - 1) = <<>>
         /\ s \o <<"producer">> \in OnlyProducer
    /\ \A s \in NoClients \cup OnlyProducer \cup WithConsumer : s \o <<>> = s
    /\ <<>> \o <<"pool">> = <<"pool">>
  <1> DEFINE S == {"pool", "producer", "consumer"}
  <1>0. "pool" \in S /\ "producer" \in S /\ "consumer" \in S
    OBVIOUS
  <1> HIDE DEF S
  <1>1. \A s \in NoClients \cup OnlyProducer \cup WithConsumer : s \o <<>> = s
    <2>1. /\ <<"pool", "producer", "consumer">> \o <<>> = <<"pool", "producer", "consumer">>
          /\ <<"pool", "producer">> \o <<>> = <<"pool", "producer">>
          /\ <<"pool">> \o <<>> = <<"pool">> /\ <<>> \o <<>> = <<>>
          /\ <<"producer">> \o <<>> = <<"producer">>
          /\ <<"producer", "consumer">> \o <<>> = <<"producer", "consumer">>
      BY <1>0, ShortLists, Zenon
    <2> QED
      BY <2>1, Zenon DEF WithConsumer, OnlyProducer, NoClients
  <1>2. /\ SubSeq(<<"pool", "producer", "consumer">>, 1,
                  Len(<<"pool", "producer", "consumer">>) - 1) = <<"pool", "producer">>
        /\ SubSeq(<<"pool", "producer">>, 1, Len(<<"pool", "producer">>) - 1) = <<"pool">>
        /\ SubSeq(<<"pool">>, 1, Len(<<"pool">>) - 1) = <<>>
        /\ <<"pool", "producer">> \o <<"consumer">> = <<"pool", "producer", "consumer">>
        /\ <<"pool">> \o <<"producer">> = <<"pool", "producer">>
        /\ <<>> \o <<"pool">> = <<"pool">>
    BY <1>0, ShortLists, Zenon
  <1>3. /\ SubSeq(<<"producer", "consumer">>, 1, Len(<<"producer", "consumer">>) - 1) = <<"producer">>
        /\ SubSeq(<<"producer">>, 1, Len(<<"producer">>) - 1) = <<>>
        /\ <<"producer">> \o <<"consumer">> = <<"producer", "consumer">>
        /\ <<>> \o <<"producer">> = <<"producer">>
    BY <1>0, ShortLists, Zenon
  <1>4. \A s \in WithConsumer : SubSeq(s, 1, Len(s) - 1) \in OnlyProducer
    BY <1>2, <1>3, Zenon DEF WithConsumer, OnlyProducer
  <1>5. \A s \in OnlyProducer :
          SubSeq(s, 1, Len(s) - 1) \in NoClients /\ s \o <<"consumer">> \in WithConsumer
    BY <1>2, <1>3, Zenon DEF WithConsumer, OnlyProducer, NoClients
  <1>6. \A s \in NoClients :
          (s # <<>> => SubSeq(s, 1, Len(s) - 1) = <<>>) /\ s \o <<"producer">> \in OnlyProducer
    BY <1>2, <1>3, Zenon DEF OnlyProducer, NoClients
  <1>7. /\ \A s \in WithConsumer : s # <<>> /\ s[Len(s)] = "consumer"
        /\ \A s \in OnlyProducer : s # <<>> /\ s[Len(s)] = "producer"
        /\ \A s \in NoClients : s # <<>> => s[Len(s)] = "pool"
    BY DEF WithConsumer, OnlyProducer, NoClients
  <1> QED
    BY <1>1, <1>2, <1>4, <1>5, <1>6, <1>7

\* The three stages of the list exclude each other.
LEMMA CleanupStages ==
    /\ NoClients \cap OnlyProducer = {}
    /\ NoClients \cap WithConsumer = {}
    /\ OnlyProducer \cap WithConsumer = {}
    /\ <<>> \in NoClients
  BY DEF WithConsumer, OnlyProducer, NoClients

\* The main function of a service: only search-service is without clients.
LEMMA MainOf ==
    ASSUME settings \in Settings
    PROVE  /\ Main.first \in {"pool", "producer", "service"}
           /\ Main.first = "service" <=> Search
           /\ Search => Main = SearchMain
  BY ClientAssumption DEF Main, UserMain, NotificationMain, SearchMain, Search

\* A SyncProducer is created for the connection a consumer group makes.
LEMMA SameCluster == ProducerCluster = ConsumerCluster
  BY DEF ProducerCluster, ConsumerCluster, EffectiveBrokers

\* What settles the connection and the kind of service stays as it is.
LEMMA ConnectionStable ==
    ASSUME UNCHANGED settings
    PROVE  /\ Search' = Search /\ KafkaTLSConfig' = KafkaTLSConfig
           /\ UNCHANGED tls => ConsumerCluster' = ConsumerCluster
  BY DEF Search, KafkaTLSConfig, ConsumerCluster, ServiceBrokers, KafkaConfig

LEMMA InitIInv == Init => IInv
  <1> SUFFICES ASSUME Init PROVE IInv
    OBVIOUS
  <1> USE DEF Init
  <1>1. /\ main \in {"pool", "producer", "service"}
        /\ main = "service" <=> Search
    BY MainOf
  <1>2. Types
    <2>1. [at |-> "idle", h |-> 0] \in [at : {"idle", "creating", "send", "flight"}, h : 0..MaxHandles]
      BY ClientAssumption
    <2>2. pub \in [Publishers -> [at : {"idle", "creating", "send", "flight"}, h : 0..MaxHandles]]
      BY <2>1
    <2>3. reg \in [Groups -> {"none", "failed", "created", "listed", "half", "done"}]
      OBVIOUS
    <2>4. grp \in [Groups -> {"none", "open", "closed"}] /\ errs \in [Groups -> {"none", "range", "done"}]
      OBVIOUS
    <2>5. loop \in [Groups -> {"none", "head", "consume", "handle", "pause", "done"}]
      OBVIOUS
    <2>6. handle \in [1..MaxHandles -> {"unused", "open", "closing", "closed"}] /\ current \in 0..MaxHandles
      BY ClientAssumption
    <2>7. main \in Early \cup Leaving \cup {"service", "run"} /\ cleanups \in NoClients
      BY <1>1, CleanupStages DEF Early
    <2> QED
      BY <2>2, <2>3, <2>4, <2>5, <2>6, <2>7 DEF Types
  <1>3. MainInv
    BY <1>1, CleanupStages DEF MainInv, Early, Leaving
  <1>4. GroupInv
    BY DEF GroupInv, Publishers
  <1>5. HandleInv
    BY NamesAssumption DEF HandleInv, Nobody
  <1>6. StartInv
    BY DEF StartInv, Groups
  <1>7. ClusterInv
    BY <1>1, CleanupStages DEF ClusterInv
  <1> QED
    BY <1>2, <1>3, <1>4, <1>5, <1>6, <1>7 DEF IInv

-----------------------------------------------------------------------------
\* Register, and the goroutines of a group.
LEMMA ConsumerStepInv ==
    ASSUME IInv, NEW t \in Groups, ConsumerStep(t)
    PROVE  IInv'
  <1> USE DEF IInv
  <1>1. UNCHANGED <<mainVars, producerVars, stopped, close, copied, before>>
    BY DEF ConsumerStep, CreateGroup, CreateGroupFails, List, StartConsume, StartErrors,
           LoopHead, Receive, Handled, ConsumeNil, ConsumeError, Pause, LoopTo, ErrorsEnd
  <1> USE <1>1 DEF mainVars, producerVars
  <1>2. Search' = Search /\ KafkaTLSConfig' = KafkaTLSConfig /\ ConsumerCluster' = ConsumerCluster
    BY ConnectionStable
  <1>3. HandleInv'
    BY DEF HandleInv
  <1>4. CASE CreateGroup(t)
    <2> USE <1>4 DEF CreateGroup, CalledNow
    <2>1. Types'
      BY DEF Types
    <2>2. MainInv'
      BY <1>2, MainOf DEF MainInv, Types, Early, Leaving, GroupInv
    <2>3. GroupInv'
      BY DEF GroupInv, Types
    <2>4. StartInv'
      BY <1>2 DEF StartInv, Types, Early, Groups, MainInv, Leaving
    <2>5. ClusterInv'
      BY <1>2, MainOf DEF ClusterInv, MainInv, Early, Types
    <2> QED
      BY <1>3, <2>1, <2>2, <2>3, <2>4, <2>5
  <1>5. CASE CreateGroupFails(t)
    <2> USE <1>5 DEF CreateGroupFails, CalledNow, BrokerError
    <2>1. Types'
      BY DEF Types
    <2>2. MainInv'
      BY <1>2, MainOf DEF MainInv, Types, Early, Leaving, GroupInv
    <2>3. GroupInv'
      BY DEF GroupInv, Types
    <2>4. StartInv'
      BY <1>2 DEF StartInv, Types, Early, Groups, MainInv, Leaving
    <2>5. ClusterInv'
      BY <1>2, MainOf DEF ClusterInv, MainInv, Early, Types
    <2> QED
      BY <1>3, <2>1, <2>2, <2>3, <2>4, <2>5
  <1>6. CASE List(t)
    <2> USE <1>6 DEF List
    <2>1. Types'
      BY DEF Types
    <2>2. MainInv'
      BY <1>2, MainOf DEF MainInv, Types, Early, Leaving, GroupInv
    <2>3. GroupInv'
      BY DEF GroupInv, Types
    <2>4. StartInv'
      BY <1>2 DEF StartInv, Types, Early, Groups, MainInv, Leaving
    <2>5. ClusterInv'
      BY <1>2, MainOf DEF ClusterInv, MainInv, Early, Types
    <2> QED
      BY <1>3, <2>1, <2>2, <2>3, <2>4, <2>5
  <1>7. CASE StartConsume(t)
    <2> USE <1>7 DEF StartConsume
    <2>1. Types'
      BY DEF Types
    <2>2. MainInv'
      BY <1>2, MainOf DEF MainInv, Types, Early, Leaving, GroupInv
    <2>3. GroupInv'
      BY DEF GroupInv, Types
    <2>4. StartInv'
      BY <1>2 DEF StartInv, Types, Early, Groups, MainInv, Leaving
    <2>5. ClusterInv'
      BY <1>2, MainOf DEF ClusterInv, MainInv, Early, Types
    <2> QED
      BY <1>3, <2>1, <2>2, <2>3, <2>4, <2>5
  <1>8. CASE StartErrors(t)
    <2> USE <1>8 DEF StartErrors
    <2>1. Types'
      BY DEF Types
    <2>2. MainInv'
      BY <1>2, MainOf DEF MainInv, Types, Early, Leaving, GroupInv
    <2>3. GroupInv'
      BY DEF GroupInv, Types
    <2>4. StartInv'
      BY <1>2 DEF StartInv, Types, Early, Groups, MainInv, Leaving
    <2>5. ClusterInv'
      BY <1>2, MainOf DEF ClusterInv, MainInv, Early, Types
    <2> QED
      BY <1>3, <2>1, <2>2, <2>3, <2>4, <2>5
  <1>9. CASE LoopHead(t)
    <2> USE <1>9 DEF LoopHead, LoopTo
    <2>1. Types'
      BY DEF Types
    <2>2. MainInv'
      BY <1>2, MainOf DEF MainInv, Types, Early, Leaving, GroupInv
    <2>3. GroupInv'
      BY DEF GroupInv, Types
    <2>4. StartInv'
      BY <1>2 DEF StartInv, Types, Early, Groups, MainInv, Leaving
    <2>5. ClusterInv'
      BY <1>2, MainOf DEF ClusterInv, MainInv, Early, Types
    <2> QED
      BY <1>3, <2>1, <2>2, <2>3, <2>4, <2>5
  <1>10. CASE Receive(t)
    <2> USE <1>10 DEF Receive, LoopTo
    <2>1. Types'
      BY DEF Types
    <2>2. MainInv'
      BY <1>2, MainOf DEF MainInv, Types, Early, Leaving, GroupInv
    <2>3. GroupInv'
      BY DEF GroupInv, Types
    <2>4. StartInv'
      BY <1>2 DEF StartInv, Types, Early, Groups, MainInv, Leaving
    <2>5. ClusterInv'
      BY <1>2, MainOf DEF ClusterInv, MainInv, Early, Types
    <2> QED
      BY <1>3, <2>1, <2>2, <2>3, <2>4, <2>5
  <1>11. CASE Handled(t)
    <2> USE <1>11 DEF Handled, LoopTo
    <2>1. Types'
      BY DEF Types
    <2>2. MainInv'
      BY <1>2, MainOf DEF MainInv, Types, Early, Leaving, GroupInv
    <2>3. GroupInv'
      BY DEF GroupInv, Types
    <2>4. StartInv'
      BY <1>2 DEF StartInv, Types, Early, Groups, MainInv, Leaving
    <2>5. ClusterInv'
      BY <1>2, MainOf DEF ClusterInv, MainInv, Early, Types
    <2> QED
      BY <1>3, <2>1, <2>2, <2>3, <2>4, <2>5
  <1>12. CASE ConsumeNil(t)
    <2> USE <1>12 DEF ConsumeNil, LoopTo
    <2>1. Types'
      BY DEF Types
    <2>2. MainInv'
      BY <1>2, MainOf DEF MainInv, Types, Early, Leaving, GroupInv
    <2>3. GroupInv'
      BY DEF GroupInv, Types
    <2>4. StartInv'
      BY <1>2 DEF StartInv, Types, Early, Groups, MainInv, Leaving
    <2>5. ClusterInv'
      BY <1>2, MainOf DEF ClusterInv, MainInv, Early, Types
    <2> QED
      BY <1>3, <2>1, <2>2, <2>3, <2>4, <2>5
  <1>13. CASE ConsumeError(t)
    <2> USE <1>13 DEF ConsumeError, LoopTo
    <2>1. Types'
      BY DEF Types
    <2>2. MainInv'
      BY <1>2, MainOf DEF MainInv, Types, Early, Leaving, GroupInv
    <2>3. GroupInv'
      BY DEF GroupInv, Types
    <2>4. StartInv'
      BY <1>2 DEF StartInv, Types, Early, Groups, MainInv, Leaving
    <2>5. ClusterInv'
      BY <1>2, MainOf DEF ClusterInv, MainInv, Early, Types
    <2> QED
      BY <1>3, <2>1, <2>2, <2>3, <2>4, <2>5
  <1>14. CASE Pause(t)
    <2> USE <1>14 DEF Pause, LoopTo
    <2>1. Types'
      BY DEF Types
    <2>2. MainInv'
      BY <1>2, MainOf DEF MainInv, Types, Early, Leaving, GroupInv
    <2>3. GroupInv'
      BY DEF GroupInv, Types
    <2>4. StartInv'
      BY <1>2 DEF StartInv, Types, Early, Groups, MainInv, Leaving
    <2>5. ClusterInv'
      BY <1>2, MainOf DEF ClusterInv, MainInv, Early, Types
    <2> QED
      BY <1>3, <2>1, <2>2, <2>3, <2>4, <2>5
  <1>15. CASE ErrorsEnd(t)
    <2> USE <1>15 DEF ErrorsEnd
    <2>1. Types'
      BY DEF Types
    <2>2. MainInv'
      BY <1>2, MainOf DEF MainInv, Types, Early, Leaving, GroupInv
    <2>3. GroupInv'
      BY DEF GroupInv, Types
    <2>4. StartInv'
      BY <1>2 DEF StartInv, Types, Early, Groups, MainInv, Leaving
    <2>5. ClusterInv'
      BY <1>2, MainOf DEF ClusterInv, MainInv, Early, Types
    <2> QED
      BY <1>3, <2>1, <2>2, <2>3, <2>4, <2>5
  <1> QED
    BY <1>4, <1>5, <1>6, <1>7, <1>8, <1>9, <1>10, <1>11, <1>12, <1>13, <1>14, <1>15 DEF ConsumerStep

\* Consumer.Close.
LEMMA CloseStepInv ==
    ASSUME IInv, CloseStep
    PROVE  IInv'
  <1> USE DEF IInv
  <1>1. UNCHANGED <<mainVars, producerVars, listed, reg, loop, errs, clusters>>
    BY DEF CloseStep, Stop, CopyGroups, CloseGroup, CloseReturns, CloseTo
  <1> USE <1>1 DEF mainVars, producerVars
  <1>2. Search' = Search /\ KafkaTLSConfig' = KafkaTLSConfig /\ ConsumerCluster' = ConsumerCluster
    BY ConnectionStable
  <1>3. HandleInv'
    BY DEF HandleInv
  <1>4. CASE Stop
    <2> USE <1>4 DEF Stop, CloseTo, Closing
    <2>1. Types'
      BY DEF Types
    <2>2. MainInv'
      BY <1>2, CleanupLists DEF MainInv, Types, Early, Leaving
    <2>3. GroupInv'
      BY DEF GroupInv, Types
    <2>4. StartInv'
      BY <1>2 DEF StartInv, Types, Early, Groups, MainInv, Leaving
    <2>5. ClusterInv'
      BY <1>2 DEF ClusterInv, MainInv
    <2> QED
      BY <1>3, <2>1, <2>2, <2>3, <2>4, <2>5
  <1>5. CASE CopyGroups
    <2> USE <1>5 DEF CopyGroups, CloseTo
    <2>1. Types'
      BY DEF Types
    <2>2. MainInv'
      BY <1>2, CleanupLists DEF MainInv, Types, Early, Leaving
    <2>3. GroupInv'
      BY DEF GroupInv, Types
    <2>4. StartInv'
      BY <1>2 DEF StartInv, Types, Early, Groups, MainInv, Leaving
    <2>5. ClusterInv'
      BY <1>2 DEF ClusterInv, MainInv
    <2> QED
      BY <1>3, <2>1, <2>2, <2>3, <2>4, <2>5
  <1>6. CASE \E t \in Groups : CloseGroup(t)
    <2> USE <1>6 DEF CloseGroup, CloseTo
    <2>1. Types'
      BY DEF Types
    <2>2. MainInv'
      BY <1>2, CleanupLists DEF MainInv, Types, Early, Leaving
    <2>3. GroupInv'
      BY DEF GroupInv, Types
    <2>4. StartInv'
      BY <1>2 DEF StartInv, Types, Early, Groups, MainInv, Leaving
    <2>5. ClusterInv'
      BY <1>2 DEF ClusterInv, MainInv
    <2> QED
      BY <1>3, <2>1, <2>2, <2>3, <2>4, <2>5
  <1>7. CASE CloseReturns
    <2> USE <1>7 DEF CloseReturns, CloseTo
    <2>1. Types'
      BY DEF Types
    <2>2. MainInv'
      BY <1>2, CleanupLists DEF MainInv, Types, Early, Leaving
    <2>3. GroupInv'
      BY DEF GroupInv, Types, Running
    <2>4. StartInv'
      BY <1>2 DEF StartInv, Types, Early, Groups, MainInv, Leaving
    <2>5. ClusterInv'
      BY <1>2 DEF ClusterInv, MainInv
    <2> QED
      BY <1>3, <2>1, <2>2, <2>3, <2>4, <2>5
  <1> QED
    BY <1>4, <1>5, <1>6, <1>7 DEF CloseStep

\* A publisher at work is a consumer handler under a consumer that is not closed,
\* or an RPC handler of an application that was started.
LEMMA BusyPublisher ==
    ASSUME IInv, Alive, NEW p \in Publishers, pub[p].at # "idle"
    PROVE  /\ ~Search
           /\ \/ p \in Groups /\ loop[p] = "handle" /\ cleanups \in WithConsumer
              \/ p \notin Groups /\ main \in {"run", "shutdown"}
           /\ cleanups \in WithConsumer \/ close = "returned"
  <1>1. ~Search
    BY DEF IInv, StartInv
  <1>2. CASE p \in Groups
    <2>1. loop[p] = "handle" /\ close # "returned" /\ reg[p] # "none"
      BY <1>2 DEF IInv, GroupInv
    <2>2. cleanups \in WithConsumer
      BY <1>2, <2>1 DEF IInv, MainInv
    <2> QED
      BY <1>1, <1>2, <2>1, <2>2
  <1>3. CASE p \notin Groups
    <2>1. main \in {"run", "shutdown"}
      BY <1>3 DEF IInv, StartInv, Alive
    <2> QED
      BY <1>1, <1>3, <2>1 DEF IInv, MainInv
  <1> QED
    BY <1>2, <1>3

\* Publish.
LEMMA PublishStepInv ==
    ASSUME IInv, Alive, NEW p \in Publishers, PublishStep(p)
    PROVE  IInv'
  <1> USE DEF IInv
  <1>1. UNCHANGED <<cleanups, settings, tls, consumerVars>>
    BY DEF PublishStep, Lookup, Created, CreateFails, Send, SendDone, mainVars
  <1> USE <1>1 DEF consumerVars
  <1>2. Search' = Search /\ KafkaTLSConfig' = KafkaTLSConfig /\ ConsumerCluster' = ConsumerCluster
    BY ConnectionStable
  <1>3. Groups \subseteq Publishers
    BY DEF Publishers
  <1>4. CASE Lookup(p)
    <2>1. /\ pub[p].at = "idle" /\ mu = Nobody
          /\ p \in Main.publishers
          /\ IF p \in Groups THEN loop[p] = "handle" ELSE main \in {"run", "shutdown"}
          /\ UNCHANGED <<main, current, handle, panicked, clusters>>
      BY <1>4 DEF Lookup, MayPublish, mainVars
    <2>2. ~Search
      <3>1. Search => Main.publishers = {}
        BY MainOf DEF Types, SearchMain
      <3> QED
        BY <2>1, <3>1
    <2>3. /\ \A q \in Publishers : q # p => pub'[q] = pub[q]
          /\ pub' \in [Publishers -> [at : {"idle", "creating", "send", "flight"}, h : 0..MaxHandles]]
          /\ \/ current # 0 /\ pub'[p] = [at |-> "send", h |-> current] /\ mu' = mu
             \/ current = 0 /\ pub'[p].at = "creating" /\ mu' = p
      <3>1. CASE current # 0
        <4>1. pub' = [pub EXCEPT ![p] = [at |-> "send", h |-> current]] /\ mu' = mu
          BY <1>4, <3>1 DEF Lookup
        <4> QED
          BY <3>1, <4>1 DEF Types
      <3>2. CASE current = 0
        <4>1. pub' = [pub EXCEPT ![p].at = "creating"] /\ mu' = p
          BY <1>4, <3>2 DEF Lookup
        <4> QED
          BY <3>2, <4>1 DEF Types
      <3> QED
        BY <3>1, <3>2
    <2>4. Types'
      BY <2>1, <2>3 DEF Types
    <2>5. MainInv'
      BY <1>2, <2>1 DEF MainInv
    <2>6. GroupInv'
      BY <1>3, <2>1, <2>3 DEF GroupInv
    <2>7. HandleInv'
      <3>1. \A q \in Publishers : pub'[q].at = "creating" <=> mu' = q
        BY <2>1, <2>3, NamesAssumption DEF HandleInv, Nobody
      <3>2. /\ mu' # "close"
            /\ mu' \in Publishers => current = 0
            /\ \A h \in 1..MaxHandles : handle[h] # "closing"
        BY <2>1, <2>3, NamesAssumption DEF HandleInv, Nobody
      <3>3. \A q \in Publishers : pub'[q].at \in {"send", "flight"} => pub'[q].h \in 1..MaxHandles
        BY <2>3, ClientAssumption DEF HandleInv, Types
      <3> QED
        BY <2>1, <3>1, <3>2, <3>3 DEF HandleInv
    <2>8. StartInv'
      BY <1>2, <2>1, <2>2, <2>3 DEF StartInv
    <2>9. ClusterInv'
      BY <1>2, <2>1 DEF ClusterInv
    <2> QED
      BY <2>4, <2>5, <2>6, <2>7, <2>8, <2>9
  <1>5. CASE Created(p)
    <2>1. PICK h \in 1..MaxHandles :
            /\ handle[h] = "unused"
            /\ handle' = [handle EXCEPT ![h] = "open"]
            /\ current' = h
            /\ pub' = [pub EXCEPT ![p] = [at |-> "send", h |-> h]]
      BY <1>5 DEF Created
    <2>2. /\ pub[p].at = "creating" /\ mu = p /\ mu' = Nobody
          /\ clusters' = clusters \cup {ConsumerCluster}
          /\ UNCHANGED <<main, panicked>>
      BY <1>5, SameCluster DEF Created, mainVars, HandleInv
    <2>3. /\ ~Search /\ main \notin {"pool", "producer"}
          /\ (p \in Groups /\ cleanups \in WithConsumer) \/ main \in {"run", "shutdown"}
          /\ cleanups \in WithConsumer \/ close = "returned"
      BY <2>2, BusyPublisher, CleanupStages DEF MainInv, Leaving
    <2>4. /\ \A q \in Publishers : q # p => pub'[q] = pub[q]
          /\ pub'[p].at = "send" /\ pub'[p].h = h
          /\ pub' \in [Publishers -> [at : {"idle", "creating", "send", "flight"}, h : 0..MaxHandles]]
      BY <2>1, ClientAssumption DEF Types
    <2>5. current = 0
      BY <2>2 DEF HandleInv
    <2>6. Types'
      BY <2>1, <2>2, <2>4, ClientAssumption DEF Types
    <2>7. MainInv'
      BY <1>2, <2>2 DEF MainInv
    <2>8. GroupInv'
      BY <1>3, <2>2, <2>4 DEF GroupInv
    <2>9. HandleInv'
      BY <2>1, <2>2, <2>4, <2>5, NamesAssumption DEF HandleInv, Types, Nobody
    <2>10. StartInv'
      BY <1>2, <2>1, <2>2, <2>3, <2>4 DEF StartInv
    <2>11. ClusterInv'
      BY <1>2, <2>2, <2>3 DEF ClusterInv
    <2> QED
      BY <2>6, <2>7, <2>8, <2>9, <2>10, <2>11
  <1>6. CASE CreateFails(p)
    <2>1. /\ pub[p].at = "creating" /\ mu = p /\ mu' = Nobody
          /\ UNCHANGED <<main, current, handle, panicked, clusters>>
          /\ pub' = [pub EXCEPT ![p].at = "idle"]
      BY <1>6 DEF CreateFails, mainVars, HandleInv
    <2>2. /\ \A q \in Publishers : q # p => pub'[q] = pub[q]
          /\ pub'[p].at = "idle"
          /\ pub' \in [Publishers -> [at : {"idle", "creating", "send", "flight"}, h : 0..MaxHandles]]
      BY <2>1 DEF Types
    <2>3. Types'
      BY <2>1, <2>2 DEF Types
    <2>4. MainInv'
      BY <1>2, <2>1 DEF MainInv
    <2>5. GroupInv'
      BY <1>3, <2>1, <2>2 DEF GroupInv
    <2>6. HandleInv'
      BY <2>1, <2>2, NamesAssumption DEF HandleInv, Nobody
    <2>7. StartInv'
      BY <1>2, <2>1, <2>2 DEF StartInv
    <2>8. ClusterInv'
      BY <1>2, <2>1 DEF ClusterInv
    <2> QED
      BY <2>3, <2>4, <2>5, <2>6, <2>7, <2>8
  <1>7. CASE Send(p)
    <2>1. pub[p].at = "send" /\ pub[p].h \in 1..MaxHandles
      BY <1>7 DEF Send, HandleInv
    <2>2. /\ \A q \in Publishers : q # p => pub'[q] = pub[q]
          /\ pub'[p].at \in {"flight", "idle"} /\ pub'[p].h = pub[p].h
          /\ pub' \in [Publishers -> [at : {"idle", "creating", "send", "flight"}, h : 0..MaxHandles]]
          /\ UNCHANGED <<mu, current, handle, clusters>>
      BY <1>7 DEF Send, Types
    <2>3. \/ UNCHANGED <<main, panicked>>
          \/ /\ main' = "crashed" /\ panicked' = panicked \cup {p}
             /\ handle[pub[p].h] = "closed"
      BY <1>7 DEF Send
    <2>4. main' = "crashed" =>
            /\ p \in Rpcs /\ cleanups \in NoClients /\ main \in {"run", "shutdown"}
            /\ main \in Leaving
      <3>1. main # "crashed"
        BY DEF Alive
      <3>2. main' = "crashed" => cleanups \in NoClients /\ main \in Leaving
        BY <2>1, <2>3, <3>1 DEF HandleInv
      <3>3. main' = "crashed" => p \notin Groups /\ main \in {"run", "shutdown"}
        BY <2>1, <3>2, BusyPublisher, CleanupStages
      <3> QED
        BY <3>2, <3>3 DEF Publishers
    <2>5. main' = main \/ main' = "crashed"
      BY <2>3
    <2>6. Types'
      BY <2>2, <2>5 DEF Types, Leaving
    <2>7. MainInv'
      BY <1>2, <2>4, <2>5 DEF MainInv, Early, Leaving
    <2>8. GroupInv'
      BY <1>3, <2>1, <2>2 DEF GroupInv
    <2>9. HandleInv'
      <3>1. \A q \in Publishers : pub'[q].at = "creating" <=> mu' = q
        BY <2>1, <2>2 DEF HandleInv
      <3>2. \A q \in Publishers : pub'[q].at \in {"send", "flight"} => pub'[q].h \in 1..MaxHandles
        BY <2>1, <2>2 DEF HandleInv
      <3>3. mu = "close" => main' # "crashed"
        BY <2>4, CleanupStages DEF HandleInv
      <3>4. panicked' \subseteq Rpcs /\ (panicked' # {} => main' = "crashed")
        BY <2>3, <2>4 DEF HandleInv
      <3> QED
        BY <2>2, <2>5, <3>1, <3>2, <3>3, <3>4 DEF HandleInv, Leaving
    <2>10. StartInv'
      BY <1>2, <2>1, <2>2, <2>4, <2>5 DEF StartInv, Early, Leaving
    <2>11. ClusterInv'
      BY <1>2, <2>2, <2>5 DEF ClusterInv
    <2> QED
      BY <2>6, <2>7, <2>8, <2>9, <2>10, <2>11
  <1>8. CASE SendDone(p)
    <2>1. /\ pub[p].at = "flight"
          /\ UNCHANGED <<main, mu, current, handle, panicked, clusters>>
          /\ pub' = [pub EXCEPT ![p] = [at |-> "idle", h |-> 0]]
      BY <1>8 DEF SendDone, mainVars
    <2>2. /\ \A q \in Publishers : q # p => pub'[q] = pub[q]
          /\ pub'[p].at = "idle"
          /\ pub' \in [Publishers -> [at : {"idle", "creating", "send", "flight"}, h : 0..MaxHandles]]
      BY <2>1, ClientAssumption DEF Types
    <2>3. Types'
      BY <2>1, <2>2 DEF Types
    <2>4. MainInv'
      BY <1>2, <2>1 DEF MainInv
    <2>5. GroupInv'
      BY <1>3, <2>1, <2>2 DEF GroupInv
    <2>6. HandleInv'
      BY <2>1, <2>2 DEF HandleInv
    <2>7. StartInv'
      BY <1>2, <2>1, <2>2 DEF StartInv
    <2>8. ClusterInv'
      BY <1>2, <2>1 DEF ClusterInv
    <2> QED
      BY <2>3, <2>4, <2>5, <2>6, <2>7, <2>8
  <1> QED
    BY <1>4, <1>5, <1>6, <1>7, <1>8 DEF PublishStep

\* What the steps of main that open or fail to open something do: where main goes
\* and what becomes of the list of cleanups.
LEMMA StartSteps ==
    ASSUME Types, MainInv
    PROVE  /\ OpenPool => main = "pool" /\ main' = "producer" /\ cleanups' \in NoClients
           /\ OpenProducer => \/ /\ main = "producer" /\ main' = "cleanup"
                                 /\ UNCHANGED <<cleanups, tls>>
                              \/ /\ main = "producer" /\ main' = "consumer"
                                 /\ cleanups' \in OnlyProducer
                                 /\ tls' \in KafkaTLSConfig \ {Failed}
           /\ OpenConsumer => \/ main = "consumer" /\ main' = "cleanup" /\ UNCHANGED cleanups
                              \/ /\ main = "consumer" /\ main' = "register"
                                 /\ cleanups' \in WithConsumer
           /\ PoolFails \/ RegisterReturns \/ NewService \/ NewServiceFails \/ Shutdown =>
                UNCHANGED cleanups
  <1>1. \A s \in NoClients \cup OnlyProducer \cup WithConsumer : s \o <<>> = s
    BY CleanupLists
  <1>2. cleanups \o <<>> = cleanups
    BY <1>1, Zenon DEF Types
  <1>3. OpenPool => main = "pool" /\ main' = "producer" /\ cleanups' \in NoClients
    <2>1. OpenPool => main = "pool" /\ main' = "producer" /\ cleanups' = cleanups \o <<"pool">>
      BY DEF OpenPool, MainTo
    <2>2. main = "pool" => cleanups \o <<"pool">> = <<"pool">>
      BY CleanupLists DEF MainInv
    <2> QED
      BY <2>1, <2>2, Zenon DEF NoClients
  <1>4. ASSUME OpenProducer
        PROVE  \/ main = "producer" /\ main' = "cleanup" /\ UNCHANGED <<cleanups, tls>>
               \/ /\ main = "producer" /\ main' = "consumer" /\ cleanups' \in OnlyProducer
                  /\ tls' \in KafkaTLSConfig \ {Failed}
    <2>1. PICK outcome \in KafkaTLSConfig :
            IF outcome = Failed
              THEN MainTo("producer", "cleanup", <<>>) /\ UNCHANGED tls
              ELSE MainTo("producer", "consumer", <<"producer">>) /\ tls' = outcome
      BY <1>4 DEF OpenProducer
    <2>2. CASE outcome = Failed
      BY <1>2, <2>1, <2>2, Zenon DEF MainTo
    <2>3. CASE outcome # Failed
      <3>1. /\ main = "producer" /\ main' = "consumer" /\ cleanups' = cleanups \o <<"producer">>
            /\ tls' = outcome
        BY <2>1, <2>3 DEF MainTo
      <3>2. cleanups \in NoClients
        BY <3>1 DEF MainInv
      <3>3. cleanups' \in OnlyProducer
        BY <3>1, <3>2, CleanupLists, Zenon
      <3> QED
        BY <2>3, <3>1, <3>3
    <2> QED
      BY <2>2, <2>3
  <1>5. ASSUME OpenConsumer
        PROVE  \/ main = "consumer" /\ main' = "cleanup" /\ UNCHANGED cleanups
               \/ main = "consumer" /\ main' = "register" /\ cleanups' \in WithConsumer
    <2>1. \/ MainTo("consumer", "cleanup", <<>>)
          \/ MainTo("consumer", "register", <<"consumer">>)
      BY <1>5 DEF OpenConsumer
    <2>2. CASE MainTo("consumer", "cleanup", <<>>)
      BY <1>2, <2>2, Zenon DEF MainTo
    <2>3. CASE MainTo("consumer", "register", <<"consumer">>)
      <3>1. main = "consumer" /\ main' = "register" /\ cleanups' = cleanups \o <<"consumer">>
        BY <2>3 DEF MainTo
      <3>2. cleanups \in OnlyProducer
        BY <3>1 DEF MainInv
      <3>3. cleanups' \in WithConsumer
        BY <3>1, <3>2, CleanupLists, Zenon
      <3> QED
        BY <3>1, <3>3
    <2> QED
      BY <2>1, <2>2, <2>3
  <1>6. PoolFails \/ RegisterReturns \/ NewService \/ NewServiceFails \/ Shutdown =>
          UNCHANGED cleanups
    BY <1>2, Zenon DEF PoolFails, RegisterReturns, NewService, NewServiceFails, Shutdown, MainTo
  <1> QED
    BY <1>3, <1>4, <1>5, <1>6

\* A start step leaves the clients as they are, so what the invariant says of
\* them has to be checked against main alone.
LEMMA StartStepInv ==
    ASSUME IInv, \/ OpenPool \/ PoolFails \/ OpenProducer \/ OpenConsumer
                 \/ RegisterReturns \/ NewService \/ NewServiceFails \/ Shutdown
    PROVE  IInv'
  <1> USE DEF IInv
  <1>1. UNCHANGED <<settings, consumerVars, producerVars, clusters>>
    BY DEF OpenPool, PoolFails, OpenProducer, OpenConsumer, RegisterReturns, NewService,
           NewServiceFails, Shutdown, MainTo
  <1> USE <1>1 DEF consumerVars, producerVars
  <1>2. /\ Search' = Search /\ KafkaTLSConfig' = KafkaTLSConfig
        /\ UNCHANGED tls => ConsumerCluster' = ConsumerCluster
    BY ConnectionStable
  <1>3. \/ main = "pool" /\ main' = "producer" /\ cleanups' \in NoClients /\ UNCHANGED tls
        \/ /\ main = "producer" /\ main' = "consumer" /\ cleanups' \in OnlyProducer
           /\ tls' \in KafkaTLSConfig \ {Failed}
        \/ main = "consumer" /\ main' = "register" /\ cleanups' \in WithConsumer /\ UNCHANGED tls
        \/ /\ main \in {"pool", "producer", "consumer", "service"} /\ main' = "cleanup"
           /\ UNCHANGED <<cleanups, tls>>
        \/ /\ main = "register" /\ main' \in {"cleanup", "service"} /\ UNCHANGED <<cleanups, tls>>
           /\ \A t \in Topics : reg[t] \in {"done", "failed"} \/ \E u \in Topics : reg[u] = "failed"
        \/ main = "service" /\ main' = "run" /\ UNCHANGED <<cleanups, tls>>
        \/ main = "run" /\ main' = "shutdown" /\ UNCHANGED <<cleanups, tls>>
    <2>1. CASE OpenPool
      BY <2>1, StartSteps DEF OpenPool
    <2>2. CASE PoolFails
      BY <2>2, StartSteps DEF PoolFails, MainTo
    <2>3. CASE OpenProducer
      BY <2>3, StartSteps
    <2>4. CASE OpenConsumer
      BY <2>4, StartSteps DEF OpenConsumer
    <2>5. CASE RegisterReturns
      BY <2>5, StartSteps DEF RegisterReturns, MainTo
    <2>6. CASE NewService
      BY <2>6, StartSteps DEF NewService, MainTo
    <2>7. CASE NewServiceFails
      BY <2>7, StartSteps DEF NewServiceFails, MainTo
    <2>8. CASE Shutdown
      BY <2>8, StartSteps DEF Shutdown, MainTo
    <2> QED
      BY <2>1, <2>2, <2>3, <2>4, <2>5, <2>6, <2>7, <2>8
  <1>4. close = "open" /\ mu # "close" /\ main \notin Leaving
    BY <1>3 DEF MainInv, HandleInv, Leaving
  <1>5. main \in {"pool", "producer", "consumer"} => \A t \in Groups : reg[t] = "none"
    BY <1>4, CleanupStages DEF MainInv
  <1>6. Types'
    BY <1>3 DEF Types, Early, Leaving
  <1>7. MainInv'
    BY <1>2, <1>3, <1>4, <1>5, CleanupStages DEF MainInv, Early, Leaving
  <1>8. GroupInv'
    BY DEF GroupInv
  <1>9. HandleInv'
    BY <1>3, <1>4 DEF HandleInv, Leaving
  <1>10. StartInv'
    <2>1. \A t \in Topics : t \in Groups
      BY DEF Groups
    <2>2. main' \notin Early => \A t \in Topics : reg[t] \in {"none", "done", "failed"}
      <3>1. CASE main = "register"
        BY <1>3, <2>1, <3>1 DEF StartInv, Types
      <3>2. CASE main # "register"
        BY <1>3, <1>5, <2>1, <3>2 DEF StartInv, Early
      <3> QED
        BY <3>1, <3>2
    <2>3. main' \notin {"run", "shutdown", "exit", "crashed"} =>
            /\ \A p \in Publishers \ Groups : pub[p].at = "idle"
            /\ current # 0 => cleanups' \in OnlyProducer \cup WithConsumer
      BY <1>3, CleanupStages DEF StartInv, MainInv
    <2> QED
      BY <1>2, <1>4, <2>2, <2>3 DEF StartInv
  <1>11. ClusterInv'
    BY <1>2, <1>3, <1>4, CleanupStages DEF ClusterInv, MainInv
  <1> QED
    BY <1>6, <1>7, <1>8, <1>9, <1>10, <1>11

\* Which cleanup is due is told by the list, and what is left of it.
LEMMA CleanupSteps ==
    ASSUME Types
    PROVE  /\ Closing("consumer") => cleanups \in WithConsumer
           /\ Closing("producer") => cleanups \in OnlyProducer
           /\ Closing("pool") => cleanups \in NoClients
           /\ cleanups \in WithConsumer => SubSeq(cleanups, 1, Len(cleanups) - 1) \in OnlyProducer
           /\ cleanups \in OnlyProducer => SubSeq(cleanups, 1, Len(cleanups) - 1) \in NoClients
           /\ Closing("pool") => SubSeq(cleanups, 1, Len(cleanups) - 1) = <<>>
  <1>1. cleanups \in WithConsumer =>
          /\ cleanups[Len(cleanups)] = "consumer"
          /\ SubSeq(cleanups, 1, Len(cleanups) - 1) \in OnlyProducer
    BY CleanupLists, Zenon
  <1>2. cleanups \in OnlyProducer =>
          /\ cleanups[Len(cleanups)] = "producer"
          /\ SubSeq(cleanups, 1, Len(cleanups) - 1) \in NoClients
    BY CleanupLists, Zenon
  <1>3. cleanups \in NoClients /\ cleanups # <<>> =>
          /\ cleanups[Len(cleanups)] = "pool"
          /\ SubSeq(cleanups, 1, Len(cleanups) - 1) = <<>>
    BY CleanupLists, Zenon
  <1>4. \/ cleanups \in WithConsumer \/ cleanups \in OnlyProducer \/ cleanups \in NoClients
    BY Zenon DEF Types
  <1>5. "pool" # "producer" /\ "pool" # "consumer" /\ "producer" # "consumer"
    OBVIOUS
  <1>6. /\ Closing("consumer") => cleanups # <<>> /\ cleanups[Len(cleanups)] = "consumer"
        /\ Closing("producer") => cleanups # <<>> /\ cleanups[Len(cleanups)] = "producer"
        /\ Closing("pool") => cleanups # <<>> /\ cleanups[Len(cleanups)] = "pool"
    BY Zenon DEF Closing
  <1> QED
    BY <1>1, <1>2, <1>3, <1>4, <1>5, <1>6, Zenon

\* The cleanups.
LEMMA CleanupStepInv ==
    ASSUME IInv, CloseProducer \/ ProducerClosed \/ Cleaned \/ Exit
    PROVE  IInv'
  <1> USE DEF IInv
  <1>1. UNCHANGED <<settings, tls, consumerVars, pub, panicked, clusters>>
    BY DEF CloseProducer, ProducerClosed, Cleaned, Exit, mainVars, producerVars
  <1> USE <1>1 DEF consumerVars
  <1>2. Search' = Search /\ KafkaTLSConfig' = KafkaTLSConfig /\ ConsumerCluster' = ConsumerCluster
    BY ConnectionStable
  <1>3. GroupInv'
    BY DEF GroupInv
  <1>4. CASE CloseProducer
    <2>1. /\ main \in {"cleanup", "shutdown"} /\ cleanups \in OnlyProducer
          /\ mu = Nobody /\ mu' = "close" /\ UNCHANGED <<main, cleanups, current>>
      BY <1>4, CleanupSteps DEF CloseProducer, mainVars, Closing
    <2>2. handle' = [h \in 1..MaxHandles |-> IF h = current THEN "closing" ELSE handle[h]]
      <3>1. DOMAIN handle = 1..MaxHandles
        BY DEF Types
      <3> QED
        BY <1>4, <3>1 DEF CloseProducer
    <2>3. Types'
      BY <2>1, <2>2 DEF Types
    <2>4. MainInv'
      BY <1>2, <2>1 DEF MainInv
    <2>5. HandleInv'
      BY <2>1, <2>2, NamesAssumption DEF HandleInv, Types, Nobody
    <2>6. StartInv'
      BY <1>2, <2>1 DEF StartInv
    <2>7. ClusterInv'
      BY <1>2, <2>1 DEF ClusterInv
    <2> QED
      BY <1>3, <2>3, <2>4, <2>5, <2>6, <2>7
  <1>5. CASE ProducerClosed
    <2>1. /\ mu = "close" /\ mu' = Nobody /\ current' = 0 /\ UNCHANGED main
          /\ main \in {"cleanup", "shutdown"} /\ cleanups \in OnlyProducer
      BY <1>5 DEF ProducerClosed, HandleInv
    <2>2. cleanups' \in NoClients
      BY <1>5, <2>1, CleanupSteps, Zenon DEF ProducerClosed
    <2>3. handle' = [h \in 1..MaxHandles |-> IF h = current THEN "closed" ELSE handle[h]]
      <3>1. DOMAIN handle = 1..MaxHandles
        BY DEF Types
      <3> QED
        BY <1>5, <3>1 DEF ProducerClosed
    <2>4. ~Search /\ close \notin {"stopped", "closing"}
      BY <2>1, CleanupStages DEF MainInv
    <2>5. \A t \in Groups : reg[t] # "none" => close = "returned"
      BY <2>1, CleanupStages DEF MainInv
    <2>6. main = "shutdown" => close = "returned"
      BY <2>1, <2>4, CleanupStages DEF MainInv
    <2>7. Types'
      BY <2>1, <2>2, <2>3, ClientAssumption DEF Types
    <2>8. MainInv'
      BY <1>2, <2>1, <2>2, <2>4, <2>5, <2>6 DEF MainInv, Early, Leaving
    <2>9. HandleInv'
      <3>1. \A p \in Publishers : p # Nobody /\ p # "close"
        BY NamesAssumption
      <3>2. mu' # "close"
        BY <2>1 DEF Nobody
      <3> QED
        BY <2>1, <2>2, <2>3, <3>1, <3>2 DEF HandleInv, Types, Leaving
    <2>10. StartInv'
      BY <1>2, <2>1, <2>2 DEF StartInv, Early
    <2>11. ClusterInv'
      BY <1>2, <2>1, <2>2, CleanupStages DEF ClusterInv
    <2> QED
      BY <1>3, <2>7, <2>8, <2>9, <2>10, <2>11
  <1>6. CASE Cleaned
    <2>1. UNCHANGED <<main, mu, current, handle>> /\ main \in {"cleanup", "shutdown"}
      BY <1>6 DEF Cleaned, Closing, producerVars
    <2>2. \/ cleanups \in NoClients /\ cleanups' = <<>>
          \/ cleanups \in WithConsumer /\ cleanups' \in OnlyProducer /\ close = "returned"
      BY <1>6, CleanupSteps, Zenon DEF Cleaned
    <2>3. Types'
      BY <2>1, <2>2, CleanupStages DEF Types
    <2>4. MainInv'
      BY <1>2, <2>1, <2>2, CleanupStages DEF MainInv, Early, Leaving
    <2>5. HandleInv'
      BY <2>1, <2>2, CleanupStages DEF HandleInv
    <2>6. StartInv'
      BY <1>2, <2>1, <2>2, CleanupStages DEF StartInv
    <2>7. ClusterInv'
      BY <1>2, <2>1, <2>2, CleanupStages DEF ClusterInv
    <2> QED
      BY <1>3, <2>3, <2>4, <2>5, <2>6, <2>7
  <1>7. CASE Exit
    <2>1. /\ UNCHANGED <<cleanups, mu, current, handle>> /\ cleanups = <<>>
          /\ \/ main = "cleanup" /\ main' = "failed"
             \/ main = "shutdown" /\ main' = "exit"
      BY <1>7 DEF Exit, producerVars
    <2>2. mu # "close" /\ cleanups \in NoClients
      BY <2>1, CleanupStages DEF HandleInv
    <2>3. Types'
      BY <2>1 DEF Types, Leaving
    <2>4. MainInv'
      BY <1>2, <2>1 DEF MainInv, Early, Leaving
    <2>5. HandleInv'
      BY <2>1, <2>2 DEF HandleInv, Leaving
    <2>6. StartInv'
      BY <1>2, <2>1 DEF StartInv, Early
    <2>7. ClusterInv'
      BY <1>2, <2>1 DEF ClusterInv
    <2> QED
      BY <1>3, <2>3, <2>4, <2>5, <2>6, <2>7
  <1> QED
    BY <1>4, <1>5, <1>6, <1>7

-----------------------------------------------------------------------------
\* Whatever the clients, their goroutines and main do, in every order, the
\* invariant holds (kafka.go, main.go).
THEOREM Invariance == Spec => []IInv
  <1>1. ASSUME IInv, [Next]_vars PROVE IInv'
    <2>1. CASE UNCHANGED vars
      <3> USE <1>1, <2>1 DEF vars, mainVars, consumerVars, producerVars
      <3>1. Search' = Search /\ KafkaTLSConfig' = KafkaTLSConfig /\ ConsumerCluster' = ConsumerCluster
        BY ConnectionStable
      <3>2. Types' /\ MainInv' /\ GroupInv'
        BY <3>1 DEF IInv, Types, MainInv, GroupInv
      <3>3. HandleInv' /\ StartInv' /\ ClusterInv'
        BY <3>1 DEF IInv, HandleInv, StartInv, ClusterInv
      <3> QED
        BY <3>2, <3>3 DEF IInv
    <2>2. CASE Next
      BY <1>1, <2>2, ConsumerStepInv, CloseStepInv, PublishStepInv, StartStepInv, CleanupStepInv
         DEF Next, MainStep
    <2> QED
      BY <1>1, <2>1, <2>2
  <1> QED
    BY <1>1, InitIInv, PTL DEF Spec

\* The lock of the producer, its SyncProducers and the goroutines of the groups
\* belong together as TypeOK says (kafka.go:63-80, 217-287).
THEOREM TypeCorrect == Spec => []TypeOK
  <1>1. IInv => TypeOK
    <2> SUFFICES ASSUME Types, HandleInv, GroupInv PROVE TypeOK
      BY DEF IInv
    <2>1. /\ main \in {"pool", "producer", "consumer", "register", "service", "run", "shutdown",
                      "cleanup", "exit", "failed", "crashed"}
          /\ mu \in Publishers \cup {Nobody, "close"}
      BY DEF Types, Early, Leaving
    <2>2. /\ \A p \in Publishers : pub[p].at = "creating" <=> mu = p
          /\ current # 0 => handle[current] \in {"open", "closing"}
          /\ \A h \in DOMAIN handle : handle[h] = "closing" => mu = "close"
      BY DEF Types, HandleInv
    <2>3. /\ \A t \in Groups : grp[t] = "none" => loop[t] = "none" /\ errs[t] = "none"
          /\ copied \subseteq listed
      BY DEF GroupInv
    <2> QED
      BY <2>1, <2>2, <2>3 DEF TypeOK
  <1> QED
    BY <1>1, Invariance, PTL

\* After Close nothing of a topic that was registered is left, and a start that
\* fails leaves nothing open (kafka.go:289-307, main.go:149-157).
THEOREM NothingLeftOpen == Spec => []ClientsReleased
  <1>1. IInv => CloseComplete
    BY DEF IInv, GroupInv, Types, CloseComplete
  <1>2. ASSUME IInv PROVE FailedStartReleases
    <2> SUFFICES ASSUME main = "failed"
                 PROVE  /\ \A t \in Topics : grp[t] # "open" /\ loop[t] \in {"none", "done"}
                        /\ \A h \in DOMAIN handle : handle[h] \in {"unused", "closed"}
      BY DEF FailedStartReleases
    <2>1. cleanups \notin OnlyProducer \cup WithConsumer
      BY <1>2, CleanupStages DEF IInv, MainInv
    <2>2. current = 0
      BY <1>2, <2>1 DEF IInv, StartInv
    <2>3. \A h \in DOMAIN handle : handle[h] \in {"unused", "closed"}
      BY <1>2, <2>2 DEF IInv, Types, HandleInv
    <2>4. ASSUME NEW t \in Topics PROVE grp[t] # "open" /\ loop[t] \in {"none", "done"}
      <3>1. t \in Groups /\ reg[t] \in {"none", "done", "failed"}
        BY <1>2 DEF IInv, StartInv, Groups, Early
      <3>2. CASE reg[t] = "done"
        <4>1. close = "returned"
          BY <1>2, <2>1, <3>1, <3>2 DEF IInv, MainInv
        <4>2. t \in before
          BY <1>2, <3>2, <4>1 DEF IInv, StartInv
        <4> QED
          BY <1>2, <3>1, <4>1, <4>2 DEF IInv, GroupInv
      <3>3. CASE reg[t] # "done"
        BY <1>2, <3>1, <3>3 DEF IInv, GroupInv, Types
      <3> QED
        BY <3>2, <3>3
    <2> QED
      BY <2>3, <2>4
  <1> QED
    BY <1>1, <1>2, Invariance, PTL DEF ClientsReleased

\* No consumer handler sends on a SyncProducer closed under it: only an RPC
\* handler that outlives the shutdown does (main.go:131-157).
THEOREM HandlersNeverPanic == Spec => []OnlyOrphansPanic
  <1>1. IInv => OnlyOrphansPanic
    BY DEF IInv, HandleInv, MainInv, OnlyOrphansPanic, NoClients
  <1> QED
    BY <1>1, Invariance, PTL

LEMMA ConnectionInv ==
    ASSUME IInv
    PROVE  OneConnection
  <1>1. ConsumerCluster.brokers # <<>> /\ ConsumerCluster.tls = tls
    BY DEF ConsumerCluster
  <1> QED
    BY <1>1 DEF IInv, ClusterInv, OneConnection

\* The SyncProducers and all consumer groups of a process connect to the same
\* brokers with the TLS configuration built for them (brokers.go:17-97, kafka.go:131-141).
THEOREM ConnectionsAgree == Spec => []OneConnection
  BY ConnectionInv, Invariance, PTL

-----------------------------------------------------------------------------
(* The brokers.                                                             *)

\* Induction up to a bound, over a set of the numbers for which it holds.
LEMMA InductionUpTo ==
    ASSUME NEW N \in Nat, NEW I, 0 \in I, \A n \in 0..N : n \in I /\ n < N => n + 1 \in I
    PROVE  0..N \subseteq I
  <1> DEFINE R == OpToRel(<, Nat)
             Bad == (0..N) \ I
  <1>1. SUFFICES ASSUME Bad # {} PROVE FALSE
    OBVIOUS
  <1>2. PICK x \in Bad : \A y \in Bad : ~(<<y, x>> \in R)
    <2>1. IsWellFoundedOn(R, Nat)
      BY NatLessThanWellFounded
    <2>2. Bad \subseteq Nat
      OBVIOUS
    <2> HIDE DEF R, Bad
    <2> QED
      BY <1>1, <2>1, <2>2, WFMin
  <1>3. x \in 1..N /\ x - 1 \in 0..N /\ x - 1 < x /\ x - 1 \in Nat /\ x \in Nat
    OBVIOUS
  <1>4. x - 1 \in I
    <2>1. <<x - 1, x>> \in R
      BY <1>3 DEF OpToRel
    <2> HIDE DEF R
    <2> QED
      BY <1>2, <1>3, <2>1
  <1>5. (x - 1) + 1 \in I
    BY <1>3, <1>4
  <1> QED
    BY <1>3, <1>5

\* The loop of normalizeBrokers, and what it has kept of the first n brokers.
Loop(brokers, f) ==
    f = [n \in 0..Len(brokers) |->
            IF n = 0 THEN <<>>
            ELSE IF Trim[brokers[n]] = "" THEN f[n - 1]
            ELSE Append(f[n - 1], Trim[brokers[n]])]
LoopUpTo(brokers, f, m) ==
    /\ f = [n \in 0..m |-> f[n]]
    /\ f[0] = <<>>
    /\ \A n \in 1..m : f[n] = IF Trim[brokers[n]] = "" THEN f[n - 1]
                              ELSE Append(f[n - 1], Trim[brokers[n]])

\* The loop of normalizeBrokers computes something (brokers.go:85-94).
LEMMA LoopDefined ==
    ASSUME NEW brokers, NEW N \in Nat, Len(brokers) = N
    PROVE  \E f : Loop(brokers, f)
  <1> DEFINE I == {m \in 0..N : \E f : LoopUpTo(brokers, f, m)}
  <1>1. 0 \in I
    <2>1. LoopUpTo(brokers, [n \in 0..0 |-> <<>>], 0)
      BY DEF LoopUpTo
    <2> QED
      BY <2>1
  <1>2. ASSUME NEW m \in 0..N, m \in I, m < N PROVE m + 1 \in I
    <2>1. PICK f : LoopUpTo(brokers, f, m)
      BY <1>2
    <2> DEFINE last == IF Trim[brokers[m + 1]] = "" THEN f[m] ELSE Append(f[m], Trim[brokers[m + 1]])
               g == [n \in 0..(m + 1) |-> IF n = m + 1 THEN last ELSE f[n]]
    <2> HIDE DEF last
    <2>2. g[0] = <<>> /\ g[m + 1] = last /\ g = [n \in 0..(m + 1) |-> g[n]]
      <3>1. f[0] = <<>>
        BY <2>1 DEF LoopUpTo
      <3> QED
        BY <3>1
    <2>3. \A n \in 1..m : g[n] = f[n] /\ g[n - 1] = f[n - 1]
      OBVIOUS
    <2>4. g[m] = f[m]
      OBVIOUS
    <2> HIDE DEF g
    <2>5. ASSUME NEW n \in 1..(m + 1)
          PROVE  g[n] = IF Trim[brokers[n]] = "" THEN g[n - 1] ELSE Append(g[n - 1], Trim[brokers[n]])
      <3>1. CASE n = m + 1
        <4>1. n - 1 = m
          BY <3>1
        <4> QED
          BY <2>2, <2>4, <3>1, <4>1 DEF last
      <3>2. CASE n # m + 1
        <4>1. n \in 1..m
          BY <3>2
        <4> QED
          BY <2>1, <2>3, <4>1 DEF LoopUpTo
      <3> QED
        BY <3>1, <3>2
    <2>6. LoopUpTo(brokers, g, m + 1)
      BY <2>2, <2>5 DEF LoopUpTo
    <2> QED
      BY <1>2, <2>6
  <1>3. N \in I
    <2> HIDE DEF I
    <2>1. 0..N \subseteq I
      BY <1>1, <1>2, InductionUpTo
    <2> QED
      BY <2>1
  <1>4. PICK f : LoopUpTo(brokers, f, N)
    BY <1>3
  <1>5. Loop(brokers, f)
    <2> DEFINE Step(n) == IF n = 0 THEN <<>> ELSE IF Trim[brokers[n]] = "" THEN f[n - 1]
                          ELSE Append(f[n - 1], Trim[brokers[n]])
    <2>1. \A n \in 0..N : n = 0 \/ n \in 1..N
      OBVIOUS
    <2>2. \A n \in 0..N : f[n] = Step(n)
      BY <1>4, <2>1 DEF LoopUpTo
    <2> HIDE DEF Step
    <2>3. f = [n \in 0..N |-> Step(n)]
      BY <1>4, <2>2 DEF LoopUpTo
    <2> QED
      BY <2>3 DEF Loop, Step
  <1> QED
    BY <1>5

LEMMA LoopSteps ==
    ASSUME NEW brokers, NEW N \in Nat, Len(brokers) = N, NEW f, Loop(brokers, f)
    PROVE  /\ f[0] = <<>>
           /\ \A n \in 1..N : f[n] = IF Trim[brokers[n]] = "" THEN f[n - 1]
                                     ELSE Append(f[n - 1], Trim[brokers[n]])
  <1> DEFINE Step(n) == IF n = 0 THEN <<>> ELSE IF Trim[brokers[n]] = "" THEN f[n - 1]
                        ELSE Append(f[n - 1], Trim[brokers[n]])
  <1>1. f = [n \in 0..N |-> Step(n)]
    BY DEF Loop
  <1> HIDE DEF Step
  <1>2. \A n \in 0..N : f[n] = Step(n)
    BY <1>1
  <1>3. 0 \in 0..N /\ \A n \in 1..N : n \in 0..N /\ n # 0
    OBVIOUS
  <1> QED
    BY <1>2, <1>3 DEF Step

\* normalizeBrokers keeps the brokers that are not blank, trimmed, and nothing
\* else (brokers.go:85-94).
LEMMA Normalized ==
    ASSUME NEW brokers \in Seq(DOMAIN Trim)
    PROVE  /\ NormalizeBrokers(brokers) \in Seq({Trim[b] : b \in Range(brokers)} \ {""})
           /\ NormalizeBrokers(brokers) = <<>> <=> \A b \in Range(brokers) : Trim[b] = ""
  <1>0. PICK N \in Nat : N = Len(brokers)
    BY LenProperties
  <1> DEFINE Kept == {Trim[b] : b \in Range(brokers)} \ {""}
             kept == CHOOSE f : Loop(brokers, f)
             Holds(n) == /\ kept[n] \in Seq(Kept)
                         /\ kept[n] = <<>> <=> \A i \in 1..n : Trim[brokers[i]] = ""
             I == {n \in 0..N : Holds(n)}
  <1>1. Range(brokers) = {brokers[i] : i \in 1..N}
    BY <1>0, LenProperties DEF Range
  <1>2. NormalizeBrokers(brokers) = kept[N]
    BY <1>0 DEF NormalizeBrokers, Loop
  <1>3. Loop(brokers, kept)
    BY <1>0, LoopDefined
  <1> HIDE DEF kept
  <1>4. /\ kept[0] = <<>>
        /\ \A n \in 1..N : kept[n] = IF Trim[brokers[n]] = "" THEN kept[n - 1]
                                     ELSE Append(kept[n - 1], Trim[brokers[n]])
    BY <1>0, <1>3, LoopSteps
  <1> HIDE DEF Kept
  <1>6. 0 \in I
    <2>1. <<>> \in Seq(Kept)
      BY EmptySeq
    <2>2. 0 \in 0..N /\ 1..0 = {}
      OBVIOUS
    <2> QED
      BY <1>4, <2>1, <2>2
  <1>7. ASSUME NEW n \in 0..N, n \in I, n < N PROVE n + 1 \in I
    <2> DEFINE b == Trim[brokers[n + 1]]
    <2>1. n + 1 \in 1..N /\ n + 1 \in 0..N /\ (n + 1) - 1 = n
      <3> HIDE DEF I
      <3> QED
        BY <1>7
    <2>2. kept[n + 1] = IF b = "" THEN kept[n] ELSE Append(kept[n], b)
      BY <1>4, <2>1
    <2>3. Holds(n)
      BY <1>7
    <2>4. b # "" => b \in Kept
      BY <1>1, <2>1 DEF Kept
    <2>5. \A i \in 1..(n + 1) : i = n + 1 \/ i \in 1..n
      BY <2>1
    <2>6. n + 1 \in 1..(n + 1) /\ \A i \in 1..n : i \in 1..(n + 1)
      BY <2>1
    <2> HIDE DEF b
    <2>7. CASE b = ""
      BY <2>1, <2>2, <2>3, <2>5, <2>6, <2>7 DEF b
    <2>8. CASE b # ""
      <3>1. kept[n] \in Seq(Kept) /\ b \in Kept
        BY <2>3, <2>4, <2>8
      <3>2. Append(kept[n], b) \in Seq(Kept) /\ Append(kept[n], b) # <<>>
        BY <3>1, AppendProperties, Zenon
      <3> QED
        BY <2>1, <2>2, <2>6, <2>8, <3>2 DEF b
    <2> QED
      BY <2>7, <2>8
  <1>8. Holds(N)
    <2> HIDE DEF I
    <2>1. 0..N \subseteq I
      BY <1>6, <1>7, InductionUpTo
    <2>2. N \in 0..N
      OBVIOUS
    <2> QED
      BY <2>1, <2>2 DEF I
  <1> QED
    BY <1>1, <1>2, <1>8 DEF Kept

\* What a broker list holds after normalizeBrokers.
Clean == {b \in DOMAIN Trim : Trim[b] = b /\ b # ""}

LEMMA CleanLists ==
    /\ \A brokers \in Seq(DOMAIN Trim) : NormalizeBrokers(brokers) \in Seq(Clean)
    /\ Seq(Clean) \subseteq Seq(DOMAIN Trim)
    /\ <<DefaultBroker>> \in Seq(Clean)
  <1>1. ASSUME NEW brokers \in Seq(DOMAIN Trim) PROVE NormalizeBrokers(brokers) \in Seq(Clean)
    <2> DEFINE Kept == {Trim[b] : b \in Range(brokers)} \ {""}
    <2>1. Range(brokers) \subseteq DOMAIN Trim
      BY ElementOfSeq, LenProperties DEF Range
    <2>2. Kept \subseteq Clean
      BY <2>1, TrimAssumption DEF Clean
    <2>3. NormalizeBrokers(brokers) \in Seq(Kept)
      BY Normalized
    <2> QED
      BY <2>2, <2>3, SeqMonotonic
  <1>2. Clean \subseteq DOMAIN Trim /\ DefaultBroker \in Clean
    BY TrimAssumption DEF Clean, DefaultBroker
  <1> QED
    BY <1>1, <1>2, SeqMonotonic

\* Normalizing a clean list a second time loses nothing.
LEMMA CleanKept ==
    ASSUME NEW S \in SUBSET Clean, NEW brokers \in Seq(S), brokers # <<>>
    PROVE  NormalizeBrokers(brokers) \in Seq(S) /\ NormalizeBrokers(brokers) # <<>>
  <1>1. Range(brokers) \subseteq S
    BY ElementOfSeq, LenProperties DEF Range
  <1>2. brokers \in Seq(DOMAIN Trim)
    BY SeqMonotonic DEF Clean
  <1>3. {Trim[b] : b \in Range(brokers)} \ {""} \subseteq S
    BY <1>1 DEF Clean
  <1>4. PICK b \in Range(brokers) : TRUE
    <2>1. Len(brokers) \in Nat /\ DOMAIN brokers = 1..Len(brokers) /\ Len(brokers) # 0
      BY EmptySeq, LenProperties
    <2>2. 1 \in 1..Len(brokers)
      BY <2>1
    <2> QED
      BY <2>1, <2>2 DEF Range
  <1>5. Trim[b] # ""
    BY <1>1, <1>4 DEF Clean
  <1> QED
    BY <1>2, <1>3, <1>5, Normalized, SeqMonotonic

\* What the loader gives for a kind is the message of one of the files.
LEMMA LoadedFile ==
    ASSUME NEW s \in Settings, LoadConfig(s.files, "kafka") \notin {Failed, Nil}
    PROVE  LET spec == LoadConfig(s.files, "kafka") IN
           spec = [brokers |-> spec.brokers, tls |-> spec.tls] /\ spec.brokers \in Seq(DOMAIN Trim)
  <1> DEFINE ofKind == {f \in s.files : f.kind = "kafka"}
             chosen == CHOOSE f \in ofKind : TRUE
  <1>1. Cardinality(ofKind) = 1 /\ LoadConfig(s.files, "kafka") = chosen.spec
    BY DEF LoadConfig
  <1>2. ofKind # {}
    <2> HIDE DEF ofKind
    <2> QED
      BY <1>1, FS_EmptySet
  <1>3. chosen \in s.files
    BY <1>2
  <1> HIDE DEF chosen
  <1> QED
    BY <1>1, <1>3, SettingsAssumption

LEMMA FallbackClean ==
    ASSUME NEW s \in Settings
    PROVE  FallbackBrokers(s) \in Seq(Clean)
  BY CleanLists, SettingsAssumption DEF FallbackBrokers

\* The brokers of the typed configuration: those of the file where it names any.
LEMMA ConfiguredBrokers ==
    ASSUME settings \in Settings
    PROVE  /\ KafkaConfig.brokers \in Seq(DOMAIN Trim)
           /\ LET spec == LoadConfig(settings.files, "kafka") IN
              spec \notin {Failed, Nil} =>
                /\ KafkaConfig.tls = spec.tls
                /\ NormalizeBrokers(spec.brokers) # <<>> => KafkaConfig.brokers = spec.brokers
  <1> DEFINE spec == LoadConfig(settings.files, "kafka")
             fallback == FallbackBrokers(settings)
  <1>1. fallback \in Seq(DOMAIN Trim)
    BY FallbackClean, CleanLists
  <1>2. spec \notin {Failed, Nil} =>
          spec = [brokers |-> spec.brokers, tls |-> spec.tls] /\ spec.brokers \in Seq(DOMAIN Trim)
    BY LoadedFile
  <1>3. KafkaConfig = IF spec \in {Failed, Nil} THEN [brokers |-> fallback, tls |-> Nil]
                      ELSE IF NormalizeBrokers(spec.brokers) = <<>>
                      THEN [spec EXCEPT !.brokers = fallback] ELSE spec
    BY DEF KafkaConfig, ConfigFromLoader
  <1> HIDE DEF spec, fallback
  <1>4. CASE spec \in {Failed, Nil}
    BY <1>1, <1>3, <1>4 DEF spec
  <1>5. CASE spec \notin {Failed, Nil}
    <2>1. [spec EXCEPT !.brokers = fallback] = [brokers |-> fallback, tls |-> spec.tls]
      BY <1>2, <1>5
    <2> QED
      BY <1>1, <1>2, <1>3, <1>5, <2>1 DEF spec
  <1> QED
    BY <1>4, <1>5

\* The connection of the service: clean brokers, those of the file where it names
\* any (brokers.go:17-94, kafka.go:131-141).
LEMMA ServiceConnection ==
    ASSUME settings \in Settings
    PROVE  LET spec == LoadConfig(settings.files, "kafka") IN
           /\ ConsumerCluster.brokers \in Seq(Clean)
           /\ spec \notin {Failed, Nil} /\ (\E b \in Range(spec.brokers) : Trim[b] # "") =>
                Range(ConsumerCluster.brokers) \subseteq {Trim[b] : b \in Range(spec.brokers)}
  <1> DEFINE spec == LoadConfig(settings.files, "kafka")
             own == NormalizeBrokers(KafkaConfig.brokers)
             Named == {Trim[b] : b \in Range(spec.brokers)} \ {""}
  <1>1. KafkaConfig.brokers \in Seq(DOMAIN Trim)
    BY ConfiguredBrokers
  <1>2. own \in Seq(Clean) /\ ServiceBrokers = IF own = <<>> THEN <<DefaultBroker>> ELSE own
    BY <1>1, CleanLists DEF ServiceBrokers, Brokers
  <1>3. ServiceBrokers \in Seq(Clean) /\ ServiceBrokers # <<>>
    BY <1>2, CleanLists
  <1>4. NormalizeBrokers(ServiceBrokers) \in Seq(Clean) /\ NormalizeBrokers(ServiceBrokers) # <<>>
    BY <1>3, CleanKept
  <1>5. ConsumerCluster.brokers = NormalizeBrokers(ServiceBrokers)
    BY <1>4 DEF ConsumerCluster
  <1>6. ASSUME spec \notin {Failed, Nil}, \E b \in Range(spec.brokers) : Trim[b] # ""
        PROVE  Range(ConsumerCluster.brokers) \subseteq Named
    <2>1. spec.brokers \in Seq(DOMAIN Trim)
      BY <1>6, LoadedFile
    <2>2. NormalizeBrokers(spec.brokers) \in Seq(Named) /\ NormalizeBrokers(spec.brokers) # <<>>
      BY <1>6, <2>1, Normalized
    <2>3. ServiceBrokers = NormalizeBrokers(spec.brokers)
      BY <1>2, <1>6, <2>2, ConfiguredBrokers
    <2>4. Named \subseteq Clean
      <3>1. Range(spec.brokers) \subseteq DOMAIN Trim
        BY <2>1, ElementOfSeq, LenProperties DEF Range
      <3> QED
        BY <3>1, TrimAssumption DEF Clean
    <2> HIDE DEF Named, spec
    <2>5. ConsumerCluster.brokers \in Seq(Named)
      BY <1>5, <2>2, <2>3, <2>4, CleanKept
    <2> QED
      BY <2>5, ElementOfSeq, LenProperties DEF Range
  <1> QED
    BY <1>4, <1>5, <1>6

LEMMA TlsIffAsked ==
    ASSUME NilIsNoRecord, NEW opts, NEW config \in ClientConfig(opts) \ {Failed}
    PROVE  config # Nil <=> opts # Nil
  <1>1. CASE opts = Nil
    BY <1>1 DEF ClientConfig
  <1>2. CASE opts # Nil
    <2>1. \E pool, certificate :
            config = [pool |-> pool, certificate |-> certificate, name |-> opts.name, skip |-> opts.skip]
      BY <1>2 DEF ClientConfig
    <2> QED
      BY <1>2, <2>1 DEF NilIsNoRecord
  <1> QED
    BY <1>1, <1>2

\* Every connection of a process goes to the same brokers, none of them blank,
\* those of the kafka config file where it loads and names one, and uses TLS if and
\* only if that file asks for it (brokers.go:17-94, kafka.go:131-141, 497-505).
THEOREM ConnectionAsConfigured ==
    ASSUME NilIsNoRecord
    PROVE  Spec => []OneCluster
  <1>1. ASSUME IInv, NEW c \in clusters
        PROVE  LET spec == LoadConfig(settings.files, "kafka") IN
               /\ \A i \in DOMAIN c.brokers : c.brokers[i] = Trim[c.brokers[i]] /\ c.brokers[i] # ""
               /\ spec \notin {Failed, Nil} =>
                    /\ c.tls # Nil <=> ClientOptionsFromProto(spec.tls) # Nil
                    /\ (\E b \in Range(spec.brokers) : Trim[b] # "") =>
                          Range(c.brokers) \subseteq {Trim[b] : b \in Range(spec.brokers)}
    <2> DEFINE spec == LoadConfig(settings.files, "kafka")
    <2>1. settings \in Settings /\ c = ConsumerCluster /\ tls \in KafkaTLSConfig \ {Failed}
      BY <1>1 DEF IInv, Types, ClusterInv
    <2>2. c.tls = tls
      BY <2>1 DEF ConsumerCluster
    <2>3. c.brokers \in Seq(Clean)
      BY <2>1, ServiceConnection
    <2>4. \A i \in DOMAIN c.brokers : c.brokers[i] \in Clean
      BY <2>3, ElementOfSeq, LenProperties
    <2>5. spec \notin {Failed, Nil} => (c.tls # Nil <=> ClientOptionsFromProto(spec.tls) # Nil)
      BY <2>1, <2>2, ConfiguredBrokers, TlsIffAsked DEF KafkaTLSConfig
    <2> QED
      BY <2>1, <2>4, <2>5, ServiceConnection DEF Clean
  <1>2. IInv => OneCluster
    BY <1>1, ConnectionInv DEF OneCluster
  <1> QED
    BY <1>2, Invariance, PTL
=============================================================================
