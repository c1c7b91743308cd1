--------------------------- MODULE MCUserPlatform ---------------------------
(***************************************************************************)
(* Two clients of the example services, a user that may be there from the  *)
(* start and one that either client creates, a cache that keeps an entry   *)
(* for two units of time, one retry of the producer.                       *)
(***************************************************************************)
EXTENDS UserPlatform

CONSTANTS c1, c2

Symmetry == Permutations({c1, c2})

Create(email, name, display) ==
    [NoRequest EXCEPT !.email = email, !.name = name, !.display = display]

Ask(service, version, rpc, req) ==
    [service |-> service, version |-> version, rpc |-> rpc, req |-> req]

MCCallers == {c1, c2}
MCEmails == {"ann", "bob"}
MCPrefix == <<"user:">>
MCRequests ==
    {Ask("user", "v1", "CreateUser", Create("bob", <<"Bob">>, <<"Dr Bob">>)),
     Ask("user", "hub", "CreateUser", Create("bob", <<>>, <<>>)),
     Ask("user", "v1", "GetUser", [NoRequest EXCEPT !.id = 1]),
     Ask("user", "hub", "ListUsers", NoRequest),
     Ask("search", "hub", "GetUser", [NoRequest EXCEPT !.id = 1]),
     Ask("search", "v1", "GetUser", NoRequest),
     Ask("search", "v1", "SearchUsers", NoRequest),
     Ask("search", "hub", "SearchUsers", [NoRequest EXCEPT !.query = "bob"]),
     Ask("notification", "hub", "GetStatus", NoRequest),
     Ask("notification", "hub", "OnUserCreated", NoRequest)}
=============================================================================
