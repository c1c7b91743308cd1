------------------------------- MODULE Gateway -------------------------------
(***************************************************************************)
(* Building the HTTP gateway (src/sdk/gateway/gateway.go, New).            *)
(*                                                                         *)
(* The options are a record: register (there are handlers for the default  *)
(* group), addr (the gRPC endpoint, "" for none), groups (a sequence of    *)
(* [prefix, addr, register] records), extra (the patterns of the extra     *)
(* handlers), grpcTls and tls.  The prefix of a group is abstracted to the *)
(* pattern it is mounted under: "/" stands for "", "/", "//" and so on.    *)
(***************************************************************************)
EXTENDS Naturals, Sequences, TlsConfig

NormalizeGroups(opts) ==
    (IF opts.register
       THEN <<[prefix |-> "/", addr |-> opts.addr, register |-> TRUE]>> ELSE <<>>)
    \o [i \in DOMAIN opts.groups |->
          [opts.groups[i] EXCEPT !.addr = IF @ = "" THEN opts.addr ELSE @]]

\* Whether newGroupMux fails: the client TLS settings, a missing endpoint, or
\* a register function.
GroupOutcomes(group, opts) ==
    LET tls == ClientConfig(opts.grpcTls) IN
    (IF tls # {Failed} /\ ~(group.register /\ group.addr = "") THEN {"ok"} ELSE {})
    \cup (IF Failed \in tls \/ group.register THEN {"error"} ELSE {})

\* The i-th group is reached when the earlier ones were built and mounted.
\* http.ServeMux panics when a pattern is mounted twice.
Reached(groups, i, opts) ==
    /\ \A j \in 1..(i - 1) : "ok" \in GroupOutcomes(groups[j], opts)
    /\ \A j, l \in 1..(i - 1) : groups[j].prefix = groups[l].prefix => j = l

Error == [result |-> "error", bound |-> FALSE, tls |-> Nil]
Panic == [result |-> "panic", bound |-> FALSE, tls |-> Nil]

\* The handlers of the mux, "/" included when there is no group.
Mounted(groups) == IF groups = <<>> THEN {"/"} ELSE {groups[i].prefix : i \in DOMAIN groups}

\* Mutant: the listener is not closed when its TLS settings are bad.
ListenLeaks(opts) ==
    {Error} \cup {[result |-> IF tls = Failed THEN "error" ELSE "ok",
                   bound  |-> TRUE, tls |-> tls] : tls \in ServerConfig(opts.tls)}

\* The address is bound, then the TLS settings are loaded; when these are bad
\* the listener is closed again.
Listen(opts) ==
    {Error} \cup {[result |-> IF tls = Failed THEN "error" ELSE "ok",
                   bound  |-> tls # Failed, tls |-> tls] : tls \in ServerConfig(opts.tls)}

\* The outcomes of New.
GatewayNew(opts) ==
    LET groups  == NormalizeGroups(opts)
        reached == {i \in DOMAIN groups : Reached(groups, i, opts)}
        earlier(i) == {groups[j].prefix : j \in 1..(i - 1)}
    IN  (IF \E i \in reached : "error" \in GroupOutcomes(groups[i], opts)
           THEN {Error} ELSE {})
        \cup (IF \E i \in reached : /\ "ok" \in GroupOutcomes(groups[i], opts)
                                     /\ groups[i].prefix \in earlier(i)
                THEN {Panic} ELSE {})
        \cup (IF ~Reached(groups, Len(groups) + 1, opts) THEN {}
              ELSE IF Mounted(groups) \cap opts.extra # {} THEN {Panic}
              ELSE Listen(opts))
=============================================================================
