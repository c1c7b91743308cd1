---------------------------- MODULE MCWorkspace ----------------------------
(* A small service for TLC: four revisions of a hub of two files, one        *)
(* frozen version, and manifests with and without a database.                *)
EXTENDS Conversions

Field(name, kind, of, repeated) ==
    [Name |-> name, Kind |-> kind, Of |-> of, Repeated |-> repeated, LegacyName |-> "", Column |-> Nil]
Str(name) == Field(name, "string", "", FALSE)
Key(name) == [Str(name) EXCEPT !.Column = [Ignore |-> FALSE, SqlType |-> "", PrimaryKey |-> TRUE]]
Call(name, request, response, path) ==
    [Name |-> name, Request |-> request, Response |-> response, Path |-> path,
     Produce |-> Nil, Consume |-> Nil]

Item(fields, imports) ==
    [Messages |-> [Item |-> fields, Owner |-> <<Str("name")>>], Services |-> <<>>,
     Imports |-> imports]
Service1(record, list, get) ==
    [Messages |-> [Record |-> record,
                   GetRequest |-> <<Str("id")>>,
                   GetResponse |-> <<Field("item", "message", "Item", FALSE)>>,
                   ListResponse |-> list,
                   Created |-> <<Field("item", "message", "Item", FALSE)>>],
     Services |->
        <<[Name |-> "ItemService", Event |-> FALSE, Repository |-> [Table |-> "items", Model |-> "Record"],
           Methods |-> <<get, Call("List", "Empty", "ListResponse", <<"items">>),
                         [Call("Watch", "GetRequest", "GetResponse", <<>>) EXCEPT !.Produce = "events"]>>],
          [Name |-> "ItemEventHandler", Event |-> TRUE, Repository |-> Nil,
           Methods |-> <<[Call("On", "Created", "Empty", <<>>) EXCEPT !.Consume = "events"]>>]>>,
     Imports |-> {"annotations", "options"}]

Owned == Field("owner", "message", "Owner", FALSE)
Items == Field("items", "message", "Item", TRUE)
Get(dir) == Call("Get", "GetRequest", "GetResponse", <<dir, "id">>)

\* 1: as scaffolded.  2: a field more in two messages, and one under a new name.
\* 3: a field has become a list, and a path begins with v.  4: a column that has
\* no type in Postgres.
MCHubs ==
    <<<<Item(<<Str("id"), Str("name"), Owned>>, {}), Service1(<<Key("id"), Str("name")>>, <<Items>>, Get("items"))>>,
      <<Item(<<Str("id"), Owned, [Str("title") EXCEPT !.LegacyName = "name"]>>, {"options"}),
        Service1(<<Key("id"), Str("name"), Str("note")>>, <<Items, Str("next")>>, Get("items"))>>,
      <<Item(<<Str("id"), Field("name", "string", "", TRUE), Owned>>, {}),
        Service1(<<Key("id"), Str("name")>>, <<Items>>, Get("vehicles"))>>,
      <<Item(<<Str("id"), Str("name"), Owned>>, {}),
        Service1(<<Key("id"), Field("tags", "string", "", TRUE)>>, <<Items>>, Get("items"))>>>>

MCVersions == <<"v1">>
MCManualFiles == {<<"Item">>}
MCGenFlags == {{}, {"wireOnly"}, {"protoOnly"}}

Plain ==
    [service |-> [name |-> "app", module |-> "m"],
     transports |-> [grpc |-> [port |-> 9090, tls |-> Nil],
                     rest |-> [port |-> 8080, tls |-> Nil, grpc_client_tls |-> Nil]],
     observability |-> [metrics |-> TRUE, tracing |-> TRUE, health |-> TRUE,
                        tracing_config_from |-> "tracing", logging_config_from |-> "logging"],
     auth |-> [enabled |-> FALSE, api_keys |-> {}],
     db |-> [postgres |-> [config_from |-> "", queries |-> "queries/"], cassandra |-> Nil, oracle |-> Nil],
     queue |-> [kafka |-> [brokers_from_config |-> "kafka", brokers |-> "localhost:9092"],
                nats |-> Nil, rabbitmq |-> Nil],
     cache |-> Nil, storage |-> Nil, compatibility |-> Nil]
MCScaffold == Plain
MCBare == [Plain EXCEPT !.db = Nil, !.queue = Nil, !.transports.rest = Nil,
                        !.cache = [redis |-> [config_from |-> "sessions"]]]
\* Without versions; one that is refused; and one whose main.go is not Go.
MCManifests == {[Plain EXCEPT !.compatibility = [legacy_versions |-> "DISABLED"]],
                [Plain EXCEPT !.transports.grpc = Nil],
                [Plain EXCEPT !.auth = [enabled |-> TRUE, api_keys |-> {<<"a", "1">>, <<"b", "2">>}]]}
=============================================================================
