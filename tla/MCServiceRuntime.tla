-------------------------- MODULE MCServiceRuntime --------------------------
(* Small instances of ServiceRuntime.                                        *)
EXTENDS ServiceRuntime, TLC

CONSTANTS r1, r2

MCReq == {r1, r2}
Symmetry == Permutations(MCReq)

AllChecks == [p \in Probes \cup {"api", ""} |->
                 CASE p = "live" -> {"ok"}
                   [] p = "startup" -> {"ok", "fail"}
                   [] p = "ready" -> {"ok", "panic"}
                   [] OTHER -> {}]
GoodChecks == [p \in Probes \cup {"api", ""} |-> IF p \in Probes THEN {"ok"} ELSE {}]

-----------------------------------------------------------------------------
(* Gateway options: every configuration message over a few materials.        *)

Texts == {Nil, [source |-> "path", text |-> "file"], [source |-> "inline", text |-> ""]}
Protos == {Nil} \cup [cert : Texts, key : Texts, ca : {Nil}, client_ca : Texts,
                      name : {""}, auth : ClientAuthModes]
Groups == {<<>>, <<[prefix |-> "/hub/", addr |-> "", register |-> TRUE]>>,
           <<[prefix |-> "/", addr |-> "local", register |-> TRUE]>>}
Option(proto, register, addr, groups, client) ==
    [asked |-> IF proto = Nil THEN "none" ELSE proto.auth,
     tls |-> ServerOptionsFromProto(proto), grpcTls |-> ClientOptionsFromProto(client),
     register |-> register, addr |-> addr, groups |-> groups,
     extra |-> {"/livez", "/readyz", "/startupz", "/buildz"}]

MCRestOptions ==
    {Option(p, TRUE, "local", <<>>, Nil) : p \in Protos}
    \cup {Option(Nil, b, a, g, c) : b \in BOOLEAN, a \in {"", "local"}, g \in Groups,
                                   c \in {Nil}}
PlainRest == {Option(Nil, TRUE, "local", <<>>, Nil)}

-----------------------------------------------------------------------------
(* Errors of handlers: chains of the links an application may build.         *)

App1 == [kind |-> "app", error |-> NewError("NotFound", "internal", "public", <<>>)]
Note == [kind |-> "note"]
Deadline == [kind |-> "deadline"]
Status(details) ==
    [kind |-> "status", code |-> "Unavailable", message |-> "peer", details |-> details]
\* What a peer that sends metadata may tell.
Metadata == [message |-> "internal", public |-> "", fields |-> <<[key |-> "id", value |-> "internal"]>>]
WrapDeadline ==
    [kind |-> "app", error |-> Wrap(<<Deadline>>, "OK", "internal", "", <<>>)]
WrapStatus ==
    [kind |-> "app", error |-> Wrap(<<Note, Status({})>>, "OK", "internal", "", <<>>)]

MCErrors ==
    {<<Note>>, <<Note, App1>>, <<[kind |-> "canceled"]>>, <<Note, Deadline>>,
     <<WrapDeadline, Deadline>>, <<Status({})>>, <<Status({Metadata})>>, <<Note, Status({NoMetadata})>>,
     <<WrapStatus, Note, Status({})>>}
NoErrors == {}

-----------------------------------------------------------------------------
(* Configurations of the clients: every TLS message over a few materials.    *)

Tls == {Nil} \cup [ca : Texts, cert : Texts, key : Texts, name : {"", "host"}, skip : BOOLEAN]
Conns == {Nil} \cup [max_open : {0, 100, 101}, min_open : {0, 101}, max_idle : {0, 5},
                     max_idle_time : {Nil, 60}]
Addrs == {<<>>, <<"one">>, <<"one", "two">>}

Endpoints == {Nil} \cup [scheme : {"", "http", "https"}, host : {"collector"}]

MCSpecs ==
    [postgres  |-> [host : {"host"}, port : {Nil, 0, 6432}, sslmode : {Nil, "allow", "prefer", "require"},
                    tls : Tls, conn : {Nil}]
                 \cup [host : {"host"}, port : {Nil}, sslmode : {Nil}, tls : {Nil}, conn : Conns],
     redis     |-> {Nil} \cup [url : {"", "redis", "rediss"}, addrs : Addrs, db : {Nil, 1}, tls : Tls],
     oracle    |-> {Nil} \cup [host : {"", "host"}, port : {Nil, 0, 1522}, service : {"", "orcl"},
                               user : {"app"}, tls : Tls],
     cassandra |-> {Nil} \cup [addrs : Addrs, tls : Tls],
     s3        |-> {Nil} \cup [endpoint : {"", "http"}, region : {Nil, "eu"}, timeout : {Nil, 0, 5},
                               tls : Tls],
     queues    |-> {Nil} \cup [addrs : Addrs, tls : Tls],
     ports     |-> {Nil, 0, 1, MaxPort, MaxPort + 1},
     tracing   |-> {Nil} \cup [endpoint : Endpoints, protocol : {"grpc", "http"},
                               ratio : {Nil, 0 - 1, 30, 101}, tls : Tls],
     otel      |-> [endpoint : {Nil, [scheme |-> "http", host |-> "otel"]}, insecure : BOOLEAN, sampler : {Nil, 50, 101}]]
=============================================================================
