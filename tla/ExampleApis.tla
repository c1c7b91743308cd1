---------------------------- MODULE ExampleApis ----------------------------
(***************************************************************************)
(* The wire layer of the example services (src/examples): how a REST or    *)
(* gRPC call reaches the method of a handler.                              *)
(*                                                                         *)
(* A REST call meets the route tables that the generated gateway code      *)
(* registers, the v1 routes at the root and the hub routes under /hub, is  *)
(* decoded into the message of its version and sent to the gRPC method of  *)
(* the same service.  A gRPC call goes there directly.  A method of v1 is  *)
(* an adapter that converts the request, calls the hub handler and         *)
(* converts the answer.                                                    *)
(*                                                                         *)
(* A request of any RPC is one record; a field that its message lacks has  *)
(* the zero value.  A name is the sequence of its parts.  A path is a      *)
(* sequence of segments, "*" a parameter.                                  *)
(***************************************************************************)
EXTENDS Sequences, FiniteSets

NoRequest == [id |-> 0, email |-> "", name |-> <<>>, display |-> <<>>, query |-> ""]

Route(method, path, verb, rpc) ==
    [method |-> method, path |-> path, verb |-> verb, rpc |-> rpc]

UserHubRoutes ==
    {Route("GET",  <<"users", "*">>, "", "GetUser"),
     Route("GET",  <<"users">>,      "", "ListUsers"),
     Route("POST", <<"users">>,      "", "CreateUser")}

UserV1Routes ==
    {Route("GET",  <<"v1", "users", "*">>, "", "GetUser"),
     Route("GET",  <<"v1", "users">>,      "", "ListUsers"),
     Route("POST", <<"v1", "users">>,      "", "CreateUser")}

SearchHubRoutes ==
    {Route("GET", <<"users", "*">>, "",       "GetUser"),
     Route("GET", <<"users">>,      "search", "SearchUsers")}

SearchV1Routes ==
    {Route("GET", <<"v1", "users", "*">>, "",       "GetUser"),
     Route("GET", <<"v1", "users">>,      "search", "SearchUsers")}

NotificationHubRoutes == {Route("GET", <<"status">>, "", "GetStatus")}

\* The routes of a service by group: notification-service has no v1 API, so its
\* gateway has no group at the root.
UserGroups         == [v1 |-> UserV1Routes,   hub |-> UserHubRoutes]
SearchGroups       == [v1 |-> SearchV1Routes, hub |-> SearchHubRoutes]
NotificationGroups == [v1 |-> {},             hub |-> NotificationHubRoutes]

Groups ==
    [user |-> UserGroups, search |-> SearchGroups, notification |-> NotificationGroups]

-----------------------------------------------------------------------------
(* Decoding: http is [id, body, query, malformed]; an empty body decodes to *)
(* the zero message, a malformed one does not decode.  The v1 message of    *)
(* CreateUser has no display name, and unknown fields are dropped.          *)

UserHubDecode(rpc, http) ==
    CASE rpc = "GetUser"    -> [NoRequest EXCEPT !.id = http.id]
      [] rpc = "ListUsers"  -> NoRequest
      [] rpc = "CreateUser" -> [http.body EXCEPT !.id = 0, !.query = ""]

UserV1Decode(rpc, http) ==
    CASE rpc = "GetUser"    -> [NoRequest EXCEPT !.id = http.id]
      [] rpc = "ListUsers"  -> NoRequest
      [] rpc = "CreateUser" -> [NoRequest EXCEPT !.email = http.body.email,
                                                 !.name = http.body.name]

SearchHubDecode(rpc, http) ==
    IF rpc = "GetUser" THEN [NoRequest EXCEPT !.id = http.id]
                       ELSE [NoRequest EXCEPT !.query = http.query]

SearchV1Decode(rpc, http) ==
    IF rpc = "GetUser" THEN [NoRequest EXCEPT !.id = http.id]
                       ELSE [NoRequest EXCEPT !.query = http.query]

NotificationDecode(rpc, http) == NoRequest

Decode(service, version, rpc, http) ==
    CASE service = "user" /\ version = "hub"   -> UserHubDecode(rpc, http)
      [] service = "user" /\ version = "v1"    -> UserV1Decode(rpc, http)
      [] service = "search" /\ version = "hub" -> SearchHubDecode(rpc, http)
      [] service = "search" /\ version = "v1"  -> SearchV1Decode(rpc, http)
      [] service = "notification"              -> NotificationDecode(rpc, http)

-----------------------------------------------------------------------------
(* gRPC: the methods each generated service descriptor lists.  A server     *)
(* answers Unimplemented for a service nobody registered.                   *)

UserHubMethods      == {"GetUser", "ListUsers", "CreateUser"}
UserV1Methods       == {"GetUser", "ListUsers", "CreateUser"}
SearchHubMethods    == {"GetUser", "SearchUsers"}
SearchV1Methods     == {"GetUser", "SearchUsers"}
NotificationMethods == {"GetStatus"}

\* RegisterGRPC registers the v1 adapters, RegisterHubGRPC the hub handler.  The
\* event handler services have descriptors too, and none of them is registered.
UserServer         == [v1 |-> UserV1Methods,   hub |-> UserHubMethods]
SearchServer       == [v1 |-> SearchV1Methods, hub |-> SearchHubMethods]
NotificationServer == [v1 |-> {},              hub |-> NotificationMethods]

Registered ==
    [user |-> UserServer, search |-> SearchServer, notification |-> NotificationServer]

\* What a stub sends: the method of its own version, whatever it is asked for.
Refused(code) == [code |-> code, rpc |-> "", version |-> "hub", req |-> NoRequest]

Invoke(service, version, rpc, req) ==
    IF rpc \in Registered[service][version]
      THEN [code |-> "OK", rpc |-> rpc, version |-> version, req |-> req]
      ELSE Refused("Unimplemented")

-----------------------------------------------------------------------------
\* http.ServeMux and runtime.ServeMux: the group under /hub gets the rest of the
\* path, every other path goes to the root group.
Group(path) == IF path[1] = "hub" THEN "hub" ELSE "v1"
Stripped(path) == IF path[1] = "hub" THEN Tail(path) ELSE path

Matches(route, method, path, verb) ==
    /\ route.method = method
    /\ route.verb = verb
    /\ Len(route.path) = Len(path)
    /\ \A i \in DOMAIN path : route.path[i] \in {"*", path[i]}

\* A REST call through the gateway.
RestCall(service, http) ==
    LET version == Group(http.path)
        found   == {r \in Groups[service][version] :
                      Matches(r, http.method, Stripped(http.path), http.verb)}
        rpc     == (CHOOSE r \in found : TRUE).rpc
    IN  IF found = {} THEN Refused("NotFound")
        ELSE IF http.malformed /\ rpc = "CreateUser" THEN Refused("InvalidArgument")
        ELSE Invoke(service, version, rpc, Decode(service, version, rpc, http))

-----------------------------------------------------------------------------
(* The v1 adapters.  A user is [id, email, name, display].                  *)

\* The v1 user of user-service has no display name, that of search-service has.
UserV1Request(req) == [req EXCEPT !.display = <<>>]
UserV1User(u)      == [u EXCEPT !.display = <<>>]
SearchV1Request(req) == req
SearchV1User(u)      == u

ToHub(service, version, req) ==
    IF service = "user" /\ version = "v1" THEN UserV1Request(req)
    ELSE IF service = "search" /\ version = "v1" THEN SearchV1Request(req)
    ELSE req

FromHub(service, version, users) ==
    IF service = "user" /\ version = "v1" THEN {UserV1User(u) : u \in users}
    ELSE IF service = "search" /\ version = "v1" THEN {SearchV1User(u) : u \in users}
    ELSE users
=============================================================================
