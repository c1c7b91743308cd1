---------------------------- MODULE MCKafkaClient ----------------------------
(* Small instances of KafkaClient.                                           *)
EXTENDS KafkaClient

MCTrim == [b \in {"k1:9092", " k1:9092", " ", "", "m1:9092", "e1:9092", DefaultBroker} |->
              CASE b = " k1:9092" -> "k1:9092" [] b = " " -> "" [] OTHER -> b]

Client(skip) == [ca |-> Nil, cert |-> Nil, key |-> Nil, name |-> "", skip |-> skip]
BadClient == [Client(FALSE) EXCEPT !.cert = [source |-> "path", text |-> "file"]]
File(kind, spec) == [kind |-> kind, spec |-> spec]
Kafka(brokers, t) == File("kafka", [brokers |-> brokers, tls |-> t])
Postgres == File("postgres", [brokers |-> <<>>, tls |-> Nil])
Setting(service, files, manifest, env) ==
    [service |-> service, files |-> files, manifest |-> manifest, env |-> env]

\* TLS from a file without brokers; TLS options that are refused; a file whose
\* metadata cannot be read; two files of one kind; a file that wins; no Kafka.
MCSettings ==
    {Setting("user", {Postgres, Kafka(<<" ">>, Client(TRUE))}, <<>>, <<" k1:9092", "">>),
     Setting("user", {Postgres, Kafka(<<"k1:9092">>, BadClient)}, <<>>, <<>>),
     Setting("user", {Postgres, Kafka(<<"k1:9092">>, Nil), File(Failed, Failed)}, <<>>, <<>>),
     Setting("user", {Postgres, File("postgres", Nil), File("kafka", Nil)}, <<"m1:9092">>, <<>>),
     Setting("notification", {Kafka(<<" k1:9092", " ">>, Nil)}, <<"m1:9092">>, <<"e1:9092">>),
     Setting("notification", {File("kafka", Nil)}, <<" ">>, <<>>),
     Setting("search", {}, <<>>, <<>>)}
=============================================================================
