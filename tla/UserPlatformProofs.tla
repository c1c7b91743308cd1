-------------------------- MODULE UserPlatformProofs --------------------------
(* The dual write of user-service, what notification-service makes of its      *)
(* events, and the answers of the example services, for any clients, requests  *)
(* and settings.                                                              *)
EXTENDS UserPlatform, SequenceTheorems, FiniteSetTheorems, WellFoundedInduction, TLAPS

\* A sequence, whatever its elements.
IsSeq(s) == s \in Seq({s[i] : i \in DOMAIN s})

\* The fields of a row and of a call.
RowFields == {"email", "name", "age", "told", "due"}
CallFields == {"at", "want", "version", "rpc", "req", "id", "users", "lag", "known",
               "tries", "landed"}

\* The table and the topic are sequences, and the calls are records.
Shape ==
    /\ IsSeq(store) /\ \A i \in Stored : DOMAIN store[i] = RowFields
    /\ topic \in Seq(Nat)
    /\ DOMAIN call = Callers /\ \A c \in Callers : DOMAIN call[c] = CallFields

\* The call of c has inserted row i and is about to announce it.
Publishing(c, i) == call[c].at = "publish" /\ call[c].id = i

\* The attempts of a call to announce row i have left at most one copy each, and
\* one that landed left a copy, which may be lost.
Tried(k, i) ==
    /\ k.tries \in 0..(Retries + 1)
    /\ Cardinality(Copies(i)) <= k.tries
    /\ k.landed => Copies(i) # {} \/ i \in lost

\* A row between its INSERT and the end of its publish belongs to one call.
PublishInv ==
    /\ \A c \in Callers : call[c].at = "publish" => call[c].id \in Stored
    /\ \A c, d \in Callers, i \in Stored : Publishing(c, i) /\ Publishing(d, i) => c = d
    /\ \A c \in Callers, i \in Stored : Publishing(c, i) => Tried(call[c], i)

\* The inductive invariant of the dual write.
IInv == Shape /\ PublishInv /\ AnnouncedOrReported

-----------------------------------------------------------------------------
\* A function on 1..n is a sequence of length n.
LEMMA FunctionIsSeq ==
    ASSUME NEW n \in Nat, NEW f, f = [i \in 1..n |-> f[i]]
    PROVE  IsSeq(f) /\ Len(f) = n /\ DOMAIN f = 1..n
  <1> DEFINE R == {f[i] : i \in DOMAIN f}
  <1>1. DOMAIN f = 1..n
    OBVIOUS
  <1>2. f \in [1..n -> R]
    BY <1>1
  <1>3. f \in Seq(R)
    <2> HIDE DEF R
    <2> QED
      BY <1>2, SeqDef
  <1>4. DOMAIN f = 1..Len(f) /\ Len(f) \in Nat
    <2> HIDE DEF R
    <2> QED
      BY <1>3, LenProperties
  <1> QED
    BY <1>1, <1>3, <1>4 DEF IsSeq

\* What a sequence is.
LEMMA SeqFacts ==
    ASSUME NEW s, IsSeq(s)
    PROVE  Len(s) \in Nat /\ DOMAIN s = 1..Len(s) /\ s = [i \in 1..Len(s) |-> s[i]]
  <1> DEFINE R == {s[i] : i \in DOMAIN s}
  <1>1. s \in Seq(R)
    BY DEF IsSeq
  <1> HIDE DEF R
  <1> QED
    BY <1>1, LenProperties

\* A sequence of one element.
LEMMA OneSeq ==
    ASSUME NEW e
    PROVE  IsSeq(<<e>>)
  BY DEF IsSeq

\* A sequence with an element more.
LEMMA AppendSeq ==
    ASSUME NEW s, IsSeq(s), NEW e
    PROVE  /\ IsSeq(Append(s, e)) /\ Len(Append(s, e)) = Len(s) + 1
           /\ DOMAIN Append(s, e) = 1..(Len(s) + 1)
           /\ \A i \in DOMAIN s : Append(s, e)[i] = s[i]
           /\ Append(s, e)[Len(s) + 1] = e
  <1> DEFINE R == {s[i] : i \in DOMAIN s}
             T == R \cup {e}
             t == Append(s, e)
  <1>1. s \in Seq(R) /\ R \subseteq T /\ e \in T
    BY DEF IsSeq
  <1>2. DOMAIN s = 1..Len(s) /\ Len(s) \in Nat
    BY SeqFacts
  <1> HIDE DEF R, T, t
  <1>3. s \in Seq(T)
    BY <1>1, SeqMonotonic
  <1>4. /\ t \in Seq(T) /\ Len(t) = Len(s) + 1
        /\ \A i \in 1..Len(s) : t[i] = s[i]
        /\ t[Len(s) + 1] = e
    BY <1>1, <1>3, AppendProperties DEF t
  <1>5. DOMAIN t = 1..Len(t) /\ t = [i \in 1..Len(t) |-> t[i]] /\ Len(t) \in Nat
    BY <1>4, LenProperties
  <1>6. IsSeq(t)
    BY <1>5, FunctionIsSeq
  <1> QED
    BY <1>2, <1>4, <1>5, <1>6 DEF t

-----------------------------------------------------------------------------
(* The copies of an event.                                                 *)

\* There are finitely many copies.
LEMMA CopiesFinite ==
    ASSUME NEW i, topic \in Seq(Nat)
    PROVE  IsFiniteSet(Copies(i)) /\ Cardinality(Copies(i)) \in Nat
  <1>1. Len(topic) \in Nat /\ DOMAIN topic = 1..Len(topic)
    BY LenProperties
  <1>2. IsFiniteSet(1..Len(topic))
    BY <1>1, FS_Interval
  <1>3. Copies(i) \in SUBSET (1..Len(topic))
    BY <1>1 DEF Copies
  <1> QED
    BY <1>2, <1>3, FS_Subset, FS_CardinalityType

\* So there are in the next state.
LEMMA CopiesFiniteNext ==
    ASSUME NEW i, topic' \in Seq(Nat)
    PROVE  IsFiniteSet(Copies(i)') /\ Cardinality(Copies(i)') \in Nat
  <1>1. Len(topic') \in Nat /\ DOMAIN topic' = 1..Len(topic')
    BY LenProperties
  <1>2. IsFiniteSet(1..Len(topic'))
    BY <1>1, FS_Interval
  <1>3. Copies(i)' \in SUBSET (1..Len(topic'))
    BY <1>1 DEF Copies
  <1> QED
    BY <1>2, <1>3, FS_Subset, FS_CardinalityType

\* An event appended to the topic is a copy more of its row.
LEMMA CopiesAppend ==
    ASSUME topic \in Seq(Nat), NEW n \in Nat, topic' = Append(topic, n)
    PROVE  /\ topic' \in Seq(Nat) /\ Len(topic) \in Nat
           /\ DOMAIN topic = 1..Len(topic) /\ DOMAIN topic' = 1..(Len(topic) + 1)
           /\ \A o \in DOMAIN topic : topic'[o] = topic[o]
           /\ topic'[Len(topic) + 1] = n
           /\ \A i : i # n => Copies(i)' = Copies(i)
           /\ Copies(n)' # {} /\ Cardinality(Copies(n)') = Cardinality(Copies(n)) + 1
  <1>1. /\ topic' \in Seq(Nat) /\ Len(topic) \in Nat
        /\ DOMAIN topic = 1..Len(topic) /\ DOMAIN topic' = 1..(Len(topic) + 1)
        /\ \A o \in DOMAIN topic : topic'[o] = topic[o]
        /\ topic'[Len(topic) + 1] = n
    BY LenProperties, AppendProperties
  <1> DEFINE m == Len(topic) + 1
  <1>2. \A o \in DOMAIN topic' : o \in DOMAIN topic \/ o = m
    BY <1>1
  <1>3. \A o \in DOMAIN topic : o \in DOMAIN topic' /\ o # m
    BY <1>1
  <1>4. m \in DOMAIN topic'
    BY <1>1
  <1> HIDE DEF m
  <1>5. ASSUME NEW i, i # n PROVE Copies(i)' = Copies(i)
    BY <1>1, <1>2, <1>3, <1>5 DEF Copies, m
  <1>6. Copies(n)' = Copies(n) \cup {m} /\ m \notin Copies(n)
    BY <1>1, <1>2, <1>3, <1>4 DEF Copies, m
  <1>7. Cardinality(Copies(n)') = Cardinality(Copies(n)) + 1
    <2>1. IsFiniteSet(Copies(n))
      BY CopiesFinite
    <2> DEFINE C == Copies(n)
    <2> HIDE DEF C
    <2>2. Cardinality(C \cup {m}) = Cardinality(C) + 1
      BY <1>6, <2>1, FS_AddElement DEF C
    <2> QED
      BY <1>6, <2>2 DEF C
  <1> QED
    BY <1>1, <1>5, <1>6, <1>7

\* A follower that takes over has no copy more, and what it has not is lost.
LEMMA CopiesCut ==
    ASSUME topic \in Seq(Nat), NEW n \in Nat, n < Len(topic), topic' = SubSeq(topic, 1, n),
           lost' = lost \cup {topic[o] : o \in (n + 1)..Len(topic)}
    PROVE  /\ topic' \in Seq(Nat) /\ Len(topic') = n /\ DOMAIN topic' = 1..n
           /\ DOMAIN topic' \subseteq DOMAIN topic
           /\ \A o \in DOMAIN topic' : topic'[o] = topic[o]
           /\ \A i : /\ Cardinality(Copies(i)') <= Cardinality(Copies(i))
                     /\ Copies(i) # {} => Copies(i)' # {} \/ i \in lost'
           /\ \A i : Cardinality(Copies(i)') \in Nat
  <1>1. Len(topic) \in Nat /\ DOMAIN topic = 1..Len(topic) /\ \A o \in 1..Len(topic) : topic[o] \in Nat
    BY LenProperties, ElementOfSeq
  <1>2. /\ topic' \in Seq(Nat) /\ Len(topic') = n
        /\ \A o \in 1..n : topic'[o] = topic[o]
    <2>1. \A o \in 1..n : topic[o] \in Nat
      BY <1>1
    <2>2. /\ SubSeq(topic, 1, n) \in Seq(Nat)
          /\ Len(SubSeq(topic, 1, n)) = IF 1 <= n THEN n - 1 + 1 ELSE 0
          /\ \A o \in 1..(n - 1 + 1) : SubSeq(topic, 1, n)[o] = topic[1 + o - 1]
      BY <2>1, SubSeqProperties
    <2> QED
      BY <2>2
  <1>3. DOMAIN topic' = 1..n
    BY <1>2, LenProperties
  <1>4. DOMAIN topic' \subseteq DOMAIN topic
    BY <1>1, <1>3
  <1>5. ASSUME NEW i
        PROVE  /\ Cardinality(Copies(i)') <= Cardinality(Copies(i))
               /\ Cardinality(Copies(i)') \in Nat
               /\ Copies(i) # {} => Copies(i)' # {} \/ i \in lost'
    <2>1. Copies(i)' \in SUBSET Copies(i)
      BY <1>2, <1>3, <1>4 DEF Copies
    <2>2. IsFiniteSet(Copies(i))
      BY CopiesFinite
    <2> DEFINE C == Copies(i)
               D == Copies(i)'
    <2>3. C # {} => D # {} \/ i \in lost'
      <3> SUFFICES ASSUME NEW o \in DOMAIN topic, topic[o] = i, i \notin lost' PROVE o \in D
        BY DEF Copies
      <3>1. o \notin (n + 1)..Len(topic)
        OBVIOUS
      <3>2. o \in 1..n
        BY <1>1, <3>1
      <3> QED
        BY <1>2, <1>3, <3>2 DEF Copies
    <2> HIDE DEF C, D
    <2>4. Cardinality(D) <= Cardinality(C) /\ IsFiniteSet(D)
      BY <2>1, <2>2, FS_Subset DEF C, D
    <2>5. Cardinality(D) \in Nat
      BY <2>4, FS_CardinalityType
    <2> QED
      BY <2>3, <2>4, <2>5 DEF C, D
  <1> QED
    BY <1>2, <1>3, <1>4, <1>5

-----------------------------------------------------------------------------
(* Routing: a call reaches the handler it asks for.                        *)

\* The last segment of a path, and how many there are before the version.
Resource(rpc) ==
    CASE rpc = "GetUser"   -> <<"users", "id">>
      [] rpc = "GetStatus" -> <<"status">>
      [] rpc = "OnUserCreated" -> <<"notification.hub.NotificationEventHandler", "OnUserCreated">>
      [] OTHER -> <<"users">>

\* The RPCs a client may ask for.
RpcNames == {"CreateUser", "GetUser", "ListUsers", "SearchUsers", "GetStatus", "OnUserCreated"}

\* The segments of the documented paths.
Words == {"users", "id", "status", "notification.hub.NotificationEventHandler", "OnUserCreated",
          "v1", "hub"}

\* The fields of the documented REST form.
LEMMA HttpFacts ==
    ASSUME NEW want \in Requests
    PROVE  /\ Http(want).path = <<want.version>> \o Resource(want.rpc)
           /\ Http(want).method = IF want.rpc \in {"CreateUser", "OnUserCreated"} THEN "POST" ELSE "GET"
           /\ Http(want).verb = IF want.rpc = "SearchUsers" THEN "search" ELSE ""
           /\ Http(want).id = want.req.id /\ Http(want).query = want.req.query
           /\ Http(want).body = want.req
  BY DEF Http, Resource

\* A sequence with an element before it.
LEMMA Prefixed ==
    ASSUME NEW S, NEW s \in Seq(S), NEW v \in S
    PROVE  /\ <<v>> \o s \in Seq(S) /\ Len(<<v>> \o s) = Len(s) + 1
           /\ (<<v>> \o s)[1] = v
           /\ \A i \in 1..Len(s) : (<<v>> \o s)[i + 1] = s[i]
  BY ConcatProperties, LenProperties

\* How many segments the path of a request has, and which one is the first.
LEMMA ResourceFacts ==
    ASSUME NEW rpc \in RpcNames
    PROVE  /\ Resource(rpc) \in Seq(Words)
           /\ rpc \in {"GetUser", "OnUserCreated"} => Len(Resource(rpc)) = 2
           /\ rpc = "GetStatus" => Len(Resource(rpc)) = 1 /\ Resource(rpc)[1] = "status"
           /\ rpc \in {"CreateUser", "ListUsers", "SearchUsers"} =>
                Len(Resource(rpc)) = 1 /\ Resource(rpc)[1] = "users"
  <1> DEFINE user == <<"users", "id">>
             status == <<"status">>
             event == <<"notification.hub.NotificationEventHandler", "OnUserCreated">>
             users == <<"users">>
  <1>1. /\ rpc = "GetUser" => Resource(rpc) = user
        /\ rpc = "GetStatus" => Resource(rpc) = status
        /\ rpc = "OnUserCreated" => Resource(rpc) = event
        /\ rpc \in {"CreateUser", "ListUsers", "SearchUsers"} => Resource(rpc) = users
    BY DEF Resource
  <1>2. user \in Seq(Words) /\ Len(user) = 2
    BY DEF Words
  <1>3. status \in Seq(Words) /\ Len(status) = 1 /\ status[1] = "status"
    BY DEF Words
  <1>4. event \in Seq(Words) /\ Len(event) = 2
    BY DEF Words
  <1>5. users \in Seq(Words) /\ Len(users) = 1 /\ users[1] = "users"
    BY DEF Words
  <1> HIDE DEF user, status, event, users
  <1>6. Resource(rpc) \in Seq(Words)
    BY <1>1, <1>2, <1>3, <1>4, <1>5 DEF RpcNames
  <1> QED
    BY <1>1, <1>2, <1>3, <1>4, <1>5, <1>6

\* What the gateway matches against its routes, for the documented path of a
\* request: the group under /hub sees the path without its version.
LEMMA Segments ==
    ASSUME NEW want \in Requests
    PROVE  LET path == Http(want).path
               rest == Stripped(path)
               r == Resource(want.rpc)
               n == IF want.version = "hub" THEN 0 ELSE 1
           IN  /\ Group(path) = want.version
               /\ Len(rest) = n + Len(r) /\ Len(r) \in {1, 2}
               /\ n + 1 \in DOMAIN rest /\ rest[n + 1] = r[1]
  <1> DEFINE path == Http(want).path
             r == Resource(want.rpc)
             rest == Stripped(path)
             n == IF want.version = "hub" THEN 0 ELSE 1
  <1>1. want.rpc \in RpcNames /\ want.version \in {"v1", "hub"}
    BY PlatformAssumption DEF RpcNames
  <1>2. r \in Seq(Words) /\ Len(r) \in {1, 2}
    BY <1>1, ResourceFacts DEF RpcNames
  <1>3. path = <<want.version>> \o r /\ want.version \in Words
    BY <1>1, HttpFacts DEF Words
  <1> HIDE DEF r, path
  <1>4. /\ path \in Seq(Words) /\ Len(path) = Len(r) + 1 /\ path[1] = want.version
        /\ \A i \in 1..Len(r) : path[i + 1] = r[i]
    BY <1>2, <1>3, Prefixed
  <1>5. Group(path) = want.version
    BY <1>1, <1>4 DEF Group
  <1>6. CASE want.version = "hub"
    <2>1. rest = Tail(path) /\ n = 0
      BY <1>4, <1>6 DEF Stripped
    <2> HIDE DEF rest, n
    <2>2. Len(rest) = Len(r) /\ DOMAIN rest = 1..Len(rest) /\ rest[1] = r[1]
      BY <1>2, <1>4, <2>1, HeadTailProperties, LenProperties
    <2> QED
      BY <1>2, <1>5, <2>1, <2>2 DEF rest, n, path, r
  <1>7. CASE want.version = "v1"
    <2>1. rest = path /\ n = 1
      BY <1>4, <1>7 DEF Stripped
    <2> HIDE DEF rest, n
    <2>2. Len(rest) = Len(r) + 1 /\ DOMAIN rest = 1..Len(rest) /\ rest[2] = r[1]
      BY <1>2, <1>4, <2>1, LenProperties
    <2> QED
      BY <1>2, <1>5, <2>1, <2>2 DEF rest, n, path, r
  <1> QED
    BY <1>1, <1>6, <1>7

\* What tells the routes of a group apart: the method, the verb, the number of
\* segments after the version and the first of them.
Meant(rpc, method, verb, len, first) ==
    \/ rpc = "GetUser" /\ method = "GET" /\ len = 2
    \/ rpc = "ListUsers" /\ method = "GET" /\ verb = "" /\ len = 1 /\ first = "users"
    \/ rpc = "CreateUser" /\ method = "POST" /\ len = 1
    \/ rpc = "SearchUsers" /\ verb = "search" /\ len = 1
    \/ rpc = "GetStatus" /\ method = "GET" /\ verb = "" /\ len = 1 /\ first = "status"

\* A path of one segment is not one of two.
LEMMA OneNotTwo == 1 # 2
  OBVIOUS

\* Every registered route is one of those (gen/api/*/http_gateway.go).
LEMMA RouteFacts ==
    ASSUME NEW service \in {"user", "search", "notification"}, NEW version \in {"v1", "hub"},
           NEW r \in Groups[service][version]
    PROVE  LET n == IF version = "hub" THEN 0 ELSE 1 IN
           \E len \in {1, 2} : /\ Len(r.path) = n + len
                               /\ Meant(r.rpc, r.method, r.verb, len, r.path[n + 1])
  <1>1. \/ version = "hub" /\ r \in UserHubRoutes \cup SearchHubRoutes \cup NotificationHubRoutes
        \/ version = "v1" /\ r \in UserV1Routes \cup SearchV1Routes
    BY DEF Groups, UserGroups, SearchGroups, NotificationGroups
  <1>2. ASSUME NEW method, NEW path, NEW verb, NEW rpc, r = Route(method, path, verb, rpc)
        PROVE  r.method = method /\ r.path = path /\ r.verb = verb /\ r.rpc = rpc
    BY <1>2 DEF Route
  <1>3. /\ Len(<<"users", "*">>) = 2 /\ Len(<<"users">>) = 1 /\ <<"users">>[1] = "users"
        /\ Len(<<"status">>) = 1 /\ <<"status">>[1] = "status"
        /\ Len(<<"v1", "users", "*">>) = 3
        /\ Len(<<"v1", "users">>) = 2 /\ <<"v1", "users">>[2] = "users"
    OBVIOUS
  <1>4. CASE version = "hub"
    <2> DEFINE user == <<"users", "*">>
               users == <<"users">>
               status == <<"status">>
    <2>1. \/ r = Route("GET", user, "", "GetUser") \/ r = Route("GET", users, "", "ListUsers")
          \/ r = Route("POST", users, "", "CreateUser")
          \/ r = Route("GET", users, "search", "SearchUsers")
          \/ r = Route("GET", status, "", "GetStatus")
      BY <1>1, <1>4 DEF UserHubRoutes, SearchHubRoutes, NotificationHubRoutes
    <2>2. Len(user) = 0 + 2 /\ Len(users) = 0 + 1 /\ users[0 + 1] = "users"
          /\ Len(status) = 0 + 1 /\ status[0 + 1] = "status"
      BY <1>3
    <2> HIDE DEF user, users, status
    <2> DEFINE Fits(len) == /\ Len(r.path) = 0 + len
                            /\ Meant(r.rpc, r.method, r.verb, len, r.path[0 + 1])
    <2>3. ASSUME r = Route("GET", user, "", "GetUser") PROVE Fits(2)
      <3>1. r.method = "GET" /\ r.path = user /\ r.verb = "" /\ r.rpc = "GetUser"
        BY <1>2, <2>3
      <3>2. Meant(r.rpc, r.method, r.verb, 2, r.path[0 + 1])
        BY <3>1, Zenon DEF Meant
      <3> QED
        BY <2>2, <3>1, <3>2
    <2>4. ASSUME NEW method, NEW verb, NEW rpc, NEW path \in {users, status},
                 r = Route(method, path, verb, rpc),
                 Meant(rpc, method, verb, 1, path[0 + 1])
          PROVE  Fits(1)
      <3>1. r.method = method /\ r.path = path /\ r.verb = verb /\ r.rpc = rpc
        BY <1>2, <2>4
      <3> QED
        BY <2>2, <2>4, <3>1
    <2>5. /\ Meant("ListUsers", "GET", "", 1, users[0 + 1])
          /\ Meant("CreateUser", "POST", "", 1, users[0 + 1])
          /\ Meant("SearchUsers", "GET", "search", 1, users[0 + 1])
          /\ Meant("GetStatus", "GET", "", 1, status[0 + 1])
      BY <2>2, Zenon DEF Meant
    <2> HIDE DEF Fits
    <2>6. \E len \in {1, 2} : Fits(len)
      BY <2>1, <2>3, <2>4, <2>5
    <2> QED
      BY <1>4, <2>6 DEF Fits
  <1>5. CASE version = "v1"
    <2> DEFINE user == <<"v1", "users", "*">>
               users == <<"v1", "users">>
    <2>1. \/ r = Route("GET", user, "", "GetUser") \/ r = Route("GET", users, "", "ListUsers")
          \/ r = Route("POST", users, "", "CreateUser")
          \/ r = Route("GET", users, "search", "SearchUsers")
      BY <1>1, <1>5 DEF UserV1Routes, SearchV1Routes
    <2>2. Len(user) = 1 + 2 /\ Len(users) = 1 + 1 /\ users[1 + 1] = "users"
      BY <1>3
    <2> HIDE DEF user, users
    <2> DEFINE Fits(len) == /\ Len(r.path) = 1 + len
                            /\ Meant(r.rpc, r.method, r.verb, len, r.path[1 + 1])
    <2>3. ASSUME NEW method, NEW verb, NEW rpc, NEW path, NEW len, Len(path) = 1 + len,
                 r = Route(method, path, verb, rpc),
                 Meant(rpc, method, verb, len, path[1 + 1])
          PROVE  Fits(len)
      <3>1. r.method = method /\ r.path = path /\ r.verb = verb /\ r.rpc = rpc
        BY <1>2, <2>3
      <3> QED
        BY <2>3, <3>1
    <2>4. /\ Meant("GetUser", "GET", "", 2, user[1 + 1])
          /\ Meant("ListUsers", "GET", "", 1, users[1 + 1])
          /\ Meant("CreateUser", "POST", "", 1, users[1 + 1])
          /\ Meant("SearchUsers", "GET", "search", 1, users[1 + 1])
      BY <2>2, Zenon DEF Meant
    <2> HIDE DEF Fits
    <2>5. \E len \in {1, 2} : Fits(len)
      BY <2>1, <2>2, <2>3, <2>4
    <2> QED
      BY <1>5, <2>5 DEF Fits
  <1> QED
    BY <1>4, <1>5

\* A REST call in its documented form that meets a route meets the one of its RPC.
LEMMA RouteOfRpc ==
    ASSUME NEW want \in Requests, NEW r \in Groups[want.service][want.version],
           Matches(r, Http(want).method, Stripped(Http(want).path), Http(want).verb)
    PROVE  r.rpc = want.rpc
  <1> DEFINE rest == Stripped(Http(want).path)
             n == IF want.version = "hub" THEN 0 ELSE 1
             p == Resource(want.rpc)
  <1>1. /\ want.service \in {"user", "search", "notification"}
        /\ want.version \in {"v1", "hub"} /\ want.rpc \in RpcNames
    BY PlatformAssumption DEF RpcNames
  <1>2. /\ r.method = Http(want).method /\ r.verb = Http(want).verb
        /\ Len(r.path) = Len(rest)
        /\ \A i \in DOMAIN rest : r.path[i] \in {"*", rest[i]}
    BY DEF Matches
  <1>3. /\ Len(rest) = n + Len(p) /\ Len(p) \in {1, 2}
        /\ n + 1 \in DOMAIN rest /\ rest[n + 1] = p[1]
    BY Segments
  <1>4. /\ want.rpc \in {"GetUser", "OnUserCreated"} => Len(p) = 2
        /\ want.rpc = "GetStatus" => Len(p) = 1 /\ p[1] = "status"
        /\ want.rpc \in {"CreateUser", "ListUsers", "SearchUsers"} => Len(p) = 1 /\ p[1] = "users"
    BY <1>1, ResourceFacts
  <1>5. PICK len \in {1, 2} : /\ Len(r.path) = n + len
                              /\ Meant(r.rpc, r.method, r.verb, len, r.path[n + 1])
    BY <1>1, RouteFacts
  <1>6. n \in {0, 1}
    OBVIOUS
  <1> HIDE DEF rest, n, p
  <1>7. len = Len(p) /\ r.path[n + 1] \in {"*", p[1]}
    BY <1>2, <1>3, <1>5, <1>6
  <1>8. /\ r.method = IF want.rpc \in {"CreateUser", "OnUserCreated"} THEN "POST" ELSE "GET"
        /\ r.verb = IF want.rpc = "SearchUsers" THEN "search" ELSE ""
    BY <1>2, HttpFacts
  <1> DEFINE first == r.path[n + 1]
  <1>9. /\ Meant(r.rpc, r.method, r.verb, Len(p), first)
        /\ first \in {"*", p[1]}
    BY <1>5, <1>7
  <1> HIDE DEF first
  <1>10. CASE want.rpc = "CreateUser"
    BY <1>4, <1>8, <1>9, <1>10, OneNotTwo, Zenon DEF Meant
  <1>11. CASE want.rpc = "GetUser"
    BY <1>4, <1>8, <1>9, <1>11, OneNotTwo, Zenon DEF Meant
  <1>12. CASE want.rpc = "ListUsers"
    BY <1>4, <1>8, <1>9, <1>12, OneNotTwo, Zenon DEF Meant
  <1>13. CASE want.rpc = "SearchUsers"
    BY <1>4, <1>8, <1>9, <1>13, OneNotTwo, Zenon DEF Meant
  <1>14. CASE want.rpc = "GetStatus"
    BY <1>4, <1>8, <1>9, <1>14, OneNotTwo, Zenon DEF Meant
  <1>15. CASE want.rpc = "OnUserCreated"
    BY <1>4, <1>8, <1>9, <1>15, OneNotTwo, Zenon DEF Meant
  <1> QED
    BY <1>1, <1>10, <1>11, <1>12, <1>13, <1>14, <1>15 DEF RpcNames

\* The fields of a request.
ReqFields == {"id", "email", "name", "display", "query"}

\* The part of a request that its RPC uses.
SameRequest(rpc, req, other) ==
    /\ rpc = "GetUser" => req.id = other.id
    /\ rpc = "SearchUsers" => req.query = other.query
    /\ rpc = "CreateUser" => req.email = other.email

\* The methods of each gRPC server.
LEMMA RegisteredFacts ==
    ASSUME NEW service \in {"user", "search", "notification"}, NEW version \in {"v1", "hub"},
           NEW rpc \in Registered[service][version]
    PROVE  /\ service = "user" => rpc \in {"GetUser", "ListUsers", "CreateUser"}
           /\ service = "search" => rpc \in {"GetUser", "SearchUsers"}
           /\ service = "notification" => rpc = "GetStatus"
  BY DEF Registered, UserServer, SearchServer, NotificationServer, UserV1Methods,
         UserHubMethods, SearchV1Methods, SearchHubMethods, NotificationMethods

\* Decoding a REST call and the v1 adapters keep what the RPC is about.
LEMMA DecodeFacts ==
    ASSUME NEW service \in {"user", "search", "notification"}, NEW version \in {"v1", "hub"},
           NEW rpc \in Registered[service][version], NEW http,
           DOMAIN http.body = ReqFields, http.id = http.body.id, http.query = http.body.query
    PROVE  LET req == Decode(service, version, rpc, http) IN
           DOMAIN req = ReqFields /\ SameRequest(rpc, req, http.body)
  <1>1. /\ service = "user" => rpc \in {"GetUser", "ListUsers", "CreateUser"}
        /\ service = "search" => rpc \in {"GetUser", "SearchUsers"}
        /\ service = "notification" => rpc = "GetStatus"
    BY RegisteredFacts
  <1> DEFINE req == Decode(service, version, rpc, http)
             id == [NoRequest EXCEPT !.id = http.id]
             query == [NoRequest EXCEPT !.query = http.query]
             hub == [http.body EXCEPT !.id = 0, !.query = ""]
             v1 == [NoRequest EXCEPT !.email = http.body.email, !.name = http.body.name]
  <1>2. /\ DOMAIN id = ReqFields /\ id.id = http.body.id
        /\ DOMAIN query = ReqFields /\ query.query = http.body.query
        /\ DOMAIN hub = ReqFields /\ hub.email = http.body.email
        /\ DOMAIN v1 = ReqFields /\ v1.email = http.body.email
        /\ DOMAIN NoRequest = ReqFields
    BY DEF NoRequest, ReqFields
  <1>3. CASE service = "user" /\ version = "hub"
    <2>1. req = UserHubDecode(rpc, http)
      BY <1>3 DEF Decode
    <2>2. /\ rpc = "GetUser" => req = id
          /\ rpc = "ListUsers" => req = NoRequest
          /\ rpc = "CreateUser" => req = hub
      BY <2>1 DEF UserHubDecode
    <2> HIDE DEF req, id, query, hub, v1
    <2> QED
      BY <1>1, <1>2, <1>3, <2>2 DEF SameRequest, req
  <1>4. CASE service = "user" /\ version = "v1"
    <2>1. req = UserV1Decode(rpc, http)
      BY <1>4 DEF Decode
    <2>2. /\ rpc = "GetUser" => req = id
          /\ rpc = "ListUsers" => req = NoRequest
          /\ rpc = "CreateUser" => req = v1
      BY <2>1 DEF UserV1Decode
    <2> HIDE DEF req, id, query, hub, v1
    <2> QED
      BY <1>1, <1>2, <1>4, <2>2 DEF SameRequest, req
  <1>5. CASE service = "search"
    <2>1. req = IF rpc = "GetUser" THEN id ELSE query
      BY <1>5 DEF Decode, SearchHubDecode, SearchV1Decode
    <2> HIDE DEF req, id, query, hub, v1
    <2> QED
      BY <1>1, <1>2, <1>5, <2>1 DEF SameRequest, req
  <1>6. CASE service = "notification"
    <2>1. req = NoRequest
      BY <1>6 DEF Decode, NotificationDecode
    <2> HIDE DEF req, id, query, hub, v1
    <2> QED
      BY <1>1, <1>2, <1>6, <2>1 DEF SameRequest, req
  <1> QED
    BY <1>3, <1>4, <1>5, <1>6

\* So do the v1 adapters.
LEMMA ToHubFacts ==
    ASSUME NEW service, NEW version, NEW rpc, NEW req, DOMAIN req = ReqFields
    PROVE  SameRequest(rpc, ToHub(service, version, req), req)
  BY DEF ToHub, UserV1Request, SearchV1Request, SameRequest, ReqFields

\* Whatever transport it comes by, a call that reaches a handler reaches the
\* RPC it asks for, in its version, with the request it was made with.
LEMMA RoutedFacts ==
    ASSUME NEW want \in Requests, NEW routed, routed.code = "OK",
           routed = RestCall(want.service, Http(want))
             \/ routed = Invoke(want.service, want.version, want.rpc, want.req)
    PROVE  /\ routed.rpc = want.rpc /\ routed.version = want.version
           /\ want.rpc \in Registered[want.service][want.version]
           /\ SameRequest(want.rpc, ToHub(want.service, routed.version, routed.req), want.req)
  <1> DEFINE http == Http(want)
  <1>1. /\ want.service \in {"user", "search", "notification"}
        /\ want.version \in {"v1", "hub"} /\ DOMAIN want.req = ReqFields
    BY PlatformAssumption DEF NoRequest, ReqFields
  <1>2. \E req : /\ routed = Invoke(want.service, want.version, want.rpc, req)
                 /\ want.rpc \in Registered[want.service][want.version]
                 /\ DOMAIN req = ReqFields /\ SameRequest(want.rpc, req, want.req)
    <2>1. CASE routed = Invoke(want.service, want.version, want.rpc, want.req)
      <3>1. want.rpc \in Registered[want.service][want.version]
        BY <2>1 DEF Invoke, Refused
      <3> QED
        BY <1>1, <2>1, <3>1 DEF SameRequest
    <2>2. CASE routed = RestCall(want.service, http)
      <3> DEFINE found == {r \in Groups[want.service][want.version] :
                             Matches(r, http.method, Stripped(http.path), http.verb)}
                 rpc == (CHOOSE r \in found : TRUE).rpc
                 req == Decode(want.service, want.version, rpc, http)
      <3>1. Group(http.path) = want.version
        BY Segments
      <3>2. \/ routed = Refused("NotFound") /\ found = {}
            \/ routed = Refused("InvalidArgument")
            \/ found # {} /\ routed = Invoke(want.service, want.version, rpc, req)
        BY <2>2, <3>1, Zenon DEF RestCall
      <3>3. Refused("NotFound").code # "OK" /\ Refused("InvalidArgument").code # "OK"
        BY DEF Refused
      <3>4. found # {} /\ routed = Invoke(want.service, want.version, rpc, req)
        BY <3>2, <3>3
      <3>5. rpc = want.rpc
        <4>1. PICK r \in found : r = CHOOSE x \in found : TRUE
          BY <3>4
        <4> QED
          BY <4>1, RouteOfRpc
      <3>6. want.rpc \in Registered[want.service][want.version]
        BY <3>4, <3>5 DEF Invoke, Refused
      <3>7. http.body = want.req /\ http.id = want.req.id /\ http.query = want.req.query
        BY HttpFacts
      <3> HIDE DEF http, found, rpc
      <3>8. DOMAIN req = ReqFields /\ SameRequest(want.rpc, req, want.req)
        BY <1>1, <3>5, <3>6, <3>7, DecodeFacts
      <3> QED
        BY <3>4, <3>5, <3>6, <3>8
    <2> QED
      BY <2>1, <2>2
  <1>3. PICK req : /\ routed = Invoke(want.service, want.version, want.rpc, req)
                   /\ want.rpc \in Registered[want.service][want.version]
                   /\ DOMAIN req = ReqFields /\ SameRequest(want.rpc, req, want.req)
    BY <1>2
  <1>4. routed.rpc = want.rpc /\ routed.version = want.version /\ routed.req = req
    BY <1>3 DEF Invoke
  <1>5. SameRequest(want.rpc, ToHub(want.service, routed.version, req), req)
    BY <1>3, ToHubFacts
  <1> QED
    BY <1>3, <1>4, <1>5 DEF SameRequest

\* A call that reaches a handler starts with a step of that handler.
LEMMA EntryKnown ==
    ASSUME NEW want \in Requests, NEW routed, routed.code = "OK",
           routed = RestCall(want.service, Http(want))
             \/ routed = Invoke(want.service, want.version, want.rpc, want.req)
    PROVE  Entry(want.service, routed.rpc) \in {"create", "status", "query", "lookup"}
  <1>1. /\ want.service \in {"user", "search", "notification"} /\ want.version \in {"v1", "hub"}
        /\ routed.rpc = want.rpc /\ want.rpc \in Registered[want.service][want.version]
    BY RoutedFacts, PlatformAssumption
  <1>2. /\ want.service = "user" => want.rpc \in {"GetUser", "ListUsers", "CreateUser"}
        /\ want.service = "search" => want.rpc \in {"GetUser", "SearchUsers"}
        /\ want.service = "notification" => want.rpc = "GetStatus"
    BY <1>1, RegisteredFacts
  <1> QED
    BY <1>1, <1>2 DEF Entry

-----------------------------------------------------------------------------
\* What of a call its publish is about.
SamePublish(k, l) == k.id = l.id /\ k.tries = l.tries /\ k.landed = l.landed

\* A step that inserts, announces and reports nothing.
LEMMA QuietStep ==
    ASSUME IInv, UNCHANGED <<topic, lost>>, IsSeq(store'), DOMAIN store' = Stored,
           \A i \in Stored : /\ DOMAIN store'[i] = RowFields
                             /\ store'[i].email = store[i].email
                             /\ store'[i].told = store[i].told,
           DOMAIN call' = Callers,
           \A c \in Callers : /\ DOMAIN call'[c] = CallFields
                              /\ call'[c].at = "publish" <=> call[c].at = "publish"
                              /\ call[c].at = "publish" => SamePublish(call'[c], call[c])
    PROVE  IInv'
  <1> USE DEF IInv
  <1>1. Stored' = Stored /\ lost' = lost /\ \A i : Copies(i)' = Copies(i)
    BY DEF Stored, Copies
  <1>2. \A c \in Callers, i \in Stored :
          /\ Publishing(c, i)' <=> Publishing(c, i)
          /\ Publishing(c, i) => call'[c].tries = call[c].tries /\ call'[c].landed = call[c].landed
    BY DEF Publishing, SamePublish
  <1>3. Shape'
    BY <1>1 DEF Shape
  <1>4. PublishInv'
    <2>1. \A c \in Callers : call'[c].at = "publish" => call'[c].id \in Stored'
      BY <1>1 DEF PublishInv, SamePublish
    <2>2. \A c \in Callers, i \in Stored' : Publishing(c, i)' => Tried(call[c], i)'
      BY <1>1, <1>2 DEF PublishInv, Tried
    <2> QED
      BY <1>1, <1>2, <2>1, <2>2 DEF PublishInv
  <1>5. AnnouncedOrReported'
    BY <1>1 DEF AnnouncedOrReported, SamePublish
  <1> QED
    BY <1>3, <1>4, <1>5

\* So is every step of a call that neither inserts nor publishes.
LEMMA QuietCall ==
    ASSUME IInv, NEW c \in Callers, UNCHANGED <<store, kafka>>, call[c].at # "publish",
           \/ UNCHANGED call
           \/ \E k : call' = [call EXCEPT ![c] = k] /\ DOMAIN k = CallFields /\ k.at # "publish"
    PROVE  IInv'
  <1>1. DOMAIN call' = Callers
    BY DEF IInv, Shape
  <1>2. \A d \in Callers : /\ DOMAIN call'[d] = CallFields
                           /\ call'[d].at = "publish" <=> call[d].at = "publish"
                           /\ call[d].at = "publish" => SamePublish(call'[d], call[d])
    BY DEF IInv, Shape, SamePublish
  <1>3. UNCHANGED <<store, topic, lost>>
    BY DEF kafka
  <1> QED
    BY <1>1, <1>2, <1>3, QuietStep DEF IInv, Shape, Stored

\* The call of nobody.
LEMMA IdleCall == DOMAIN Idle = CallFields /\ Idle.at = "idle"
  BY DEF Idle, CallFields

\* The steps of a call outside its dual write keep the invariant.
LEMMA QuietCallStepInv ==
    ASSUME IInv, NEW c \in Callers,
           \/ BeginRest(c) \/ BeginGrpc(c) \/ RejectCreate(c) \/ Query(c) \/ QueryFails(c)
           \/ Status(c) \/ RejectGet(c) \/ GetCached(c) \/ SearchCached(c) \/ Miss(c)
           \/ Fetch(c) \/ FetchFails(c) \/ FillUser(c) \/ FillList(c) \/ NoFill(c)
    PROVE  IInv'
  <1> DEFINE Moves == \E k : /\ call' = [call EXCEPT ![c] = k]
                             /\ DOMAIN k = CallFields /\ k.at # "publish"
  <1>1. ASSUME NEW code, NEW users, Answer(c, code, users) PROVE Moves
    BY <1>1, IdleCall DEF Answer
  <1>2. ASSUME NEW want \in Requests, NEW routed, Begin(c, want, routed),
               routed = RestCall(want.service, Http(want))
                 \/ routed = Invoke(want.service, want.version, want.rpc, want.req)
        PROVE  IInv'
    <2>1. UNCHANGED <<store, kafka>> /\ call[c].at = "idle"
      BY <1>2 DEF Begin
    <2>2. CASE routed.code # "OK"
      BY <1>2, <2>1, <2>2, QuietCall DEF Begin
    <2>3. CASE routed.code = "OK"
      <3> DEFINE k == [Idle EXCEPT !.at = Entry(want.service, routed.rpc), !.want = want,
                         !.version = routed.version, !.rpc = routed.rpc,
                         !.req = ToHub(want.service, routed.version, routed.req),
                         !.known = IF routed.rpc \in {"GetUser", "ListUsers"} THEN Len(store) ELSE 0]
      <3>1. call' = [call EXCEPT ![c] = k]
        BY <1>2, <2>3 DEF Begin
      <3>2. DOMAIN k = CallFields /\ k.at = Entry(want.service, routed.rpc)
        BY IdleCall DEF Idle, CallFields
      <3>3. Entry(want.service, routed.rpc) # "publish"
        BY <1>2, <2>3, EntryKnown
      <3> HIDE DEF k
      <3> QED
        BY <2>1, <3>1, <3>2, <3>3, QuietCall
    <2> QED
      BY <2>2, <2>3
  <1>3. CASE BeginRest(c) \/ BeginGrpc(c)
    BY <1>2, <1>3 DEF BeginRest, BeginGrpc
  <1>4. CASE RejectCreate(c)
    BY <1>1, <1>4, QuietCall DEF RejectCreate
  <1>5. CASE Query(c)
    BY <1>1, <1>5, QuietCall DEF Query
  <1>6. CASE QueryFails(c)
    BY <1>1, <1>6, QuietCall DEF QueryFails
  <1>7. CASE Status(c)
    BY <1>1, <1>7, QuietCall DEF Status
  <1>8. CASE RejectGet(c)
    BY <1>1, <1>8, QuietCall DEF RejectGet
  <1>9. CASE GetCached(c)
    BY <1>1, <1>9, QuietCall DEF GetCached
  <1>10. CASE SearchCached(c)
    BY <1>10, IdleCall, QuietCall DEF SearchCached
  <1>11. CASE Miss(c)
    <2> DEFINE k == [call[c] EXCEPT !.at = "fetch"]
    <2>1. call' = [call EXCEPT ![c] = k] /\ UNCHANGED <<store, kafka>> /\ call[c].at # "publish"
      BY <1>11 DEF Miss, Goto
    <2>2. DOMAIN k = CallFields /\ k.at = "fetch"
      BY DEF IInv, Shape, CallFields
    <2> HIDE DEF k
    <2> QED
      BY <2>1, <2>2, QuietCall
  <1>12. CASE Fetch(c)
    <2>1. UNCHANGED <<store, kafka>> /\ call[c].at # "publish"
      BY <1>12 DEF Fetch
    <2>2. Moves \/ \E users : call' = [call EXCEPT ![c] = [call[c] EXCEPT !.at = "fill", !.users = users]]
      BY <1>1, <1>12 DEF Fetch
    <2>3. ASSUME NEW users PROVE LET k == [call[c] EXCEPT !.at = "fill", !.users = users]
                                 IN  DOMAIN k = CallFields /\ k.at = "fill"
      BY DEF IInv, Shape, CallFields
    <2> QED
      BY <2>1, <2>2, <2>3, QuietCall
  <1>13. CASE FetchFails(c)
    BY <1>1, <1>13, QuietCall DEF FetchFails
  <1>14. CASE FillUser(c)
    BY <1>1, <1>14, QuietCall DEF FillUser, Fetched
  <1>15. CASE FillList(c)
    BY <1>1, <1>15, QuietCall DEF FillList, Fetched
  <1>16. CASE NoFill(c)
    BY <1>1, <1>16, QuietCall DEF NoFill, Fetched
  <1> QED
    BY <1>3, <1>4, <1>5, <1>6, <1>7, <1>8, <1>9, <1>10, <1>11, <1>12, <1>13, <1>14, <1>15, <1>16

-----------------------------------------------------------------------------
\* What an INSERT of a free email does to the table.
LEMMA Inserted ==
    ASSUME IInv, NEW req, NEW told, ~Taken(req.email), store' = Append(store, Row(req, told))
    PROVE  LET n == Len(store) + 1 IN
           /\ IsSeq(store') /\ Stored' = Stored \cup {n} /\ n \notin Stored /\ n \in Nat
           /\ \A i \in Stored : store'[i] = store[i]
           /\ store'[n].told = told
           /\ \A i \in Stored' : DOMAIN store'[i] = RowFields
           /\ \A i, j \in Stored' : store'[i].email = store'[j].email => i = j
           /\ store'[n].due => \A g \in Subscribers : Committed(g)
           /\ Copies(n) = {} /\ Cardinality(Copies(n)) = 0
  <1> DEFINE n == Len(store) + 1
  <1>1. Len(store) \in Nat /\ Stored = 1..Len(store)
    BY SeqFacts DEF IInv, Shape, Stored
  <1>2. /\ IsSeq(store') /\ DOMAIN store' = 1..n
        /\ \A i \in Stored : store'[i] = store[i]
        /\ store'[n] = Row(req, told)
    BY AppendSeq DEF IInv, Shape, Stored
  <1>3. Stored' = Stored \cup {n} /\ n \notin Stored /\ n \in Nat
    BY <1>1, <1>2 DEF Stored
  <1>4. /\ DOMAIN Row(req, told) = RowFields
        /\ Row(req, told).told = told /\ Row(req, told).email = req.email
        /\ Row(req, told).due <=> \A g \in Subscribers : Committed(g)
    BY DEF Row, RowFields
  <1> HIDE DEF n
  <1>5. \A i \in Stored' : DOMAIN store'[i] = RowFields
    BY <1>2, <1>3, <1>4 DEF IInv, Shape
  <1>6. \A i \in Stored : store[i].email # req.email
    BY DEF Taken
  <1>7. \A i, j \in Stored' : store'[i].email = store'[j].email => i = j
    <2>1. \A i, j \in Stored : store[i].email = store[j].email => i = j
      BY DEF IInv, AnnouncedOrReported
    <2>2. store'[n].email = req.email
      BY <1>2, <1>4 DEF n
    <2>3. \A i \in Stored : store'[i].email = store[i].email /\ store'[i].email # req.email
      BY <1>2, <1>6
    <2>4. \A i \in Stored' : i \in Stored \/ i = n
      BY <1>3
    <2> QED
      BY <2>1, <2>2, <2>3, <2>4
  <1>8. Copies(n) = {}
    BY <1>3 DEF IInv, AnnouncedOrReported, Copies
  <1>9. Cardinality(Copies(n)) = 0
    BY <1>8, FS_EmptySet
  <1> QED
    BY <1>2, <1>3, <1>4, <1>5, <1>7, <1>8, <1>9 DEF n

\* The row is there, and its call is the one that will announce it.
LEMMA InsertInv ==
    ASSUME IInv, NEW c \in Callers, Insert(c)
    PROVE  IInv'
  <1> USE DEF IInv
  <1>0. PICK n : n = Len(store) + 1
    OBVIOUS
  <1>1. /\ IsSeq(store') /\ Stored' = Stored \cup {n} /\ n \notin Stored /\ n \in Nat
        /\ \A i \in Stored : store'[i] = store[i]
        /\ \A i \in Stored' : DOMAIN store'[i] = RowFields
        /\ \A i, j \in Stored' : store'[i].email = store'[j].email => i = j
        /\ Copies(n) = {} /\ Cardinality(Copies(n)) = 0
    BY <1>0, Inserted DEF Insert
  <1>2. /\ topic' = topic /\ lost' = lost /\ call[c].at = "create"
        /\ call' = [call EXCEPT ![c].at = "publish", ![c].id = n,
                               ![c].tries = 0, ![c].landed = FALSE]
    BY <1>0 DEF Insert, kafka
  <1>3. /\ DOMAIN call' = Callers /\ \A d \in Callers : DOMAIN call'[d] = CallFields
        /\ call'[c].at = "publish" /\ call'[c].id = n
        /\ call'[c].tries = 0 /\ call'[c].landed = FALSE
        /\ \A d \in Callers : d # c => call'[d] = call[d]
    BY <1>2 DEF Shape, CallFields
  <1>4. \A i : Copies(i)' = Copies(i)
    BY <1>2 DEF Copies
  <1>5. Shape'
    BY <1>1, <1>2, <1>3 DEF Shape
  <1>6. PublishInv'
    <2>1. Tried(call[c], n)'
      <3>1. Copies(n)' = Copies(n)
        BY <1>4
      <3>2. Cardinality(Copies(n)') = 0
        BY <1>1, <3>1, Zenon
      <3>3. 0 \in 0..(Retries + 1) /\ 0 <= 0
        BY PlatformAssumption
      <3> QED
        BY <1>3, <3>2, <3>3 DEF Tried
    <2>2. \A d \in Callers : \A i : d # c /\ Tried(call[d], i) => Tried(call[d], i)'
      BY <1>2, <1>3, <1>4 DEF Tried
    <2>3. \A d \in Callers : \A i : d # c => (Publishing(d, i)' <=> Publishing(d, i))
      BY <1>3 DEF Publishing
    <2>4. \A i : Publishing(c, i)' <=> i = n
      BY <1>3 DEF Publishing
    <2>5. \A d \in Callers : \A i : Publishing(d, i) => i \in Stored
      BY DEF PublishInv, Publishing
    <2>6. \A d \in Callers : call'[d].at = "publish" => call'[d].id \in Stored'
      BY <1>1, <1>3 DEF PublishInv
    <2>7. \A d, e \in Callers, i \in Stored' : Publishing(d, i)' /\ Publishing(e, i)' => d = e
      BY <1>1, <2>3, <2>4, <2>5 DEF PublishInv
    <2>8. \A d \in Callers, i \in Stored' : Publishing(d, i)' => Tried(call[d], i)'
      BY <1>1, <2>1, <2>2, <2>3, <2>4, <2>5 DEF PublishInv
    <2> QED
      BY <2>6, <2>7, <2>8 DEF PublishInv
  <1>7. AnnouncedOrReported'
    <2>1. \A i \in Stored' : Cardinality(Copies(i)') <= Retries + 1
      <3>1. \A i : Cardinality(Copies(i)') = Cardinality(Copies(i))
        BY <1>4, Zenon
      <3>2. \A i \in Stored : Cardinality(Copies(i)') <= Retries + 1
        BY <3>1, Zenon DEF AnnouncedOrReported
      <3>3. Cardinality(Copies(n)') = 0
        BY <1>1, <3>1, Zenon
      <3>4. 0 <= Retries + 1
        BY PlatformAssumption
      <3> QED
        BY <1>1, <3>2, <3>3, <3>4
    <2>2. \A i \in Stored : \/ Copies(i)' # {} \/ store'[i].told = "failure" \/ i \in lost'
                            \/ \E d \in Callers : call'[d].at = "publish" /\ call'[d].id = i
      BY <1>1, <1>2, <1>3, <1>4 DEF AnnouncedOrReported
    <2>3. \A o \in DOMAIN topic' : topic'[o] \in Stored'
      BY <1>1, <1>2 DEF AnnouncedOrReported
    <2> QED
      BY <1>1, <1>3, <2>1, <2>2, <2>3 DEF AnnouncedOrReported
  <1> QED
    BY <1>5, <1>6, <1>7

\* A row whose INSERT was answered with an error is reported.
LEMMA InsertFailsInv ==
    ASSUME IInv, NEW c \in Callers, InsertFails(c)
    PROVE  IInv'
  <1> USE DEF IInv
  <1>1. /\ topic' = topic /\ lost' = lost /\ UNCHANGED kafka /\ call[c].at = "create"
        /\ call' = [call EXCEPT ![c] = Idle]
    BY DEF InsertFails, Answer, kafka
  <1>2. CASE UNCHANGED store
    BY <1>1, <1>2, IdleCall, QuietCall
  <1>3. CASE ~Taken(call[c].req.email) /\ store' = Append(store, Row(call[c].req, "failure"))
    <2> DEFINE n == Len(store) + 1
    <2>1. /\ IsSeq(store') /\ Stored' = Stored \cup {n} /\ n \notin Stored /\ n \in Nat
          /\ \A i \in Stored : store'[i] = store[i]
          /\ store'[n].told = "failure"
          /\ \A i \in Stored' : DOMAIN store'[i] = RowFields
          /\ \A i, j \in Stored' : store'[i].email = store'[j].email => i = j
          /\ Copies(n) = {} /\ Cardinality(Copies(n)) = 0
      BY <1>3, Inserted
    <2> HIDE DEF n
    <2>2. /\ DOMAIN call' = Callers /\ \A d \in Callers : DOMAIN call'[d] = CallFields
          /\ call'[c].at = "idle"
          /\ \A d \in Callers : d # c => call'[d] = call[d]
      BY <1>1, IdleCall DEF Shape
    <2>3. \A i : Copies(i)' = Copies(i)
      BY <1>1 DEF Copies
    <2>4. Shape'
      BY <1>1, <2>1, <2>2 DEF Shape
    <2>5. PublishInv'
      <3>1. \A d \in Callers : \A i : Publishing(d, i)' => d # c /\ Publishing(d, i) /\ i \in Stored
        BY <2>2 DEF PublishInv, Publishing
      <3>2. \A d \in Callers : \A i : d # c /\ Tried(call[d], i) => Tried(call[d], i)'
        BY <1>1, <2>2, <2>3 DEF Tried
      <3>3. \A d \in Callers : call'[d].at = "publish" => call'[d].id \in Stored'
        BY <2>1, <2>2 DEF PublishInv
      <3> QED
        BY <3>1, <3>2, <3>3 DEF PublishInv
    <2>6. AnnouncedOrReported'
      <3>1. \A i \in Stored' : Cardinality(Copies(i)') <= Retries + 1
        BY <2>1, <2>3, PlatformAssumption DEF AnnouncedOrReported
      <3>2. \A i \in Stored : \/ Copies(i)' # {} \/ store'[i].told = "failure" \/ i \in lost'
                              \/ \E d \in Callers : call'[d].at = "publish" /\ call'[d].id = i
        BY <1>1, <2>1, <2>2, <2>3 DEF AnnouncedOrReported
      <3>3. \A o \in DOMAIN topic' : topic'[o] \in Stored'
        BY <1>1, <2>1 DEF AnnouncedOrReported
      <3> QED
        BY <2>1, <3>1, <3>2, <3>3 DEF AnnouncedOrReported
    <2> QED
      BY <2>4, <2>5, <2>6
  <1> QED
    BY <1>2, <1>3 DEF InsertFails

\* What the end of a publish, either way, does to the row and to the call.
LEMMA Published ==
    ASSUME IInv, NEW c \in Callers, NEW told, call[c].at = "publish",
           store' = [store EXCEPT ![call[c].id].told = told],
           call' = [call EXCEPT ![c] = Idle]
    PROVE  /\ IsSeq(store') /\ Stored' = Stored
           /\ \A i \in Stored : /\ DOMAIN store'[i] = RowFields
                             /\ store'[i].email = store[i].email /\ store'[i].due = store[i].due
           /\ \A i \in Stored : i # call[c].id => store'[i] = store[i]
           /\ store'[call[c].id].told = told
           /\ DOMAIN call' = Callers /\ \A d \in Callers : DOMAIN call'[d] = CallFields
           /\ call'[c].at = "idle" /\ \A d \in Callers : d # c => call'[d] = call[d]
  <1> USE DEF IInv
  <1>1. call[c].id \in Stored
    BY DEF PublishInv
  <1>2. Len(store) \in Nat /\ Stored = 1..Len(store)
    BY SeqFacts DEF Shape, Stored
  <1>3. store' = [i \in 1..Len(store) |-> store'[i]]
    BY <1>2 DEF Stored
  <1>4. IsSeq(store') /\ Stored' = Stored
    BY <1>2, <1>3, FunctionIsSeq DEF Stored
  <1>5. /\ \A i \in Stored : i # call[c].id => store'[i] = store[i]
        /\ store'[call[c].id] = [store[call[c].id] EXCEPT !.told = told]
    BY <1>1 DEF Stored
  <1>6. LET r == store[call[c].id] IN
        /\ DOMAIN [r EXCEPT !.told = told] = RowFields
        /\ [r EXCEPT !.told = told].told = told /\ [r EXCEPT !.told = told].email = r.email
        /\ [r EXCEPT !.told = told].due = r.due
    BY <1>1 DEF Shape, RowFields
  <1>7. /\ DOMAIN call' = Callers /\ \A d \in Callers : DOMAIN call'[d] = CallFields
        /\ call'[c].at = "idle" /\ \A d \in Callers : d # c => call'[d] = call[d]
    BY IdleCall DEF Shape
  <1>8. \A i \in Stored : /\ DOMAIN store'[i] = RowFields
                          /\ store'[i].email = store[i].email /\ store'[i].due = store[i].due
    BY <1>1, <1>5, <1>6 DEF Shape
  <1> QED
    BY <1>4, <1>5, <1>6, <1>7, <1>8

\* An attempt leaves a copy more, or none.
LEMMA AttemptInv ==
    ASSUME IInv, NEW c \in Callers, Attempt(c)
    PROVE  IInv'
  <1> USE DEF IInv
  <1>0. PICK n : n = call[c].id
    OBVIOUS
  <1>1. PICK landed \in BOOLEAN :
          /\ topic' = IF landed THEN Append(topic, n) ELSE topic
          /\ call' = [call EXCEPT ![c].tries = @ + 1, ![c].landed = landed]
    BY <1>0 DEF Attempt
  <1>2. /\ call[c].at = "publish" /\ call[c].tries <= Retries
        /\ store' = store /\ lost' = lost /\ Stored' = Stored
    BY DEF Attempt, Stored
  <1>3. n \in Stored /\ n \in Nat /\ Tried(call[c], n) /\ Publishing(c, n)
    BY <1>0, <1>2, SeqFacts DEF PublishInv, Publishing, Shape, Stored
  <1>4. /\ DOMAIN call' = Callers /\ \A d \in Callers : DOMAIN call'[d] = CallFields
        /\ call'[c].at = "publish" /\ call'[c].id = n
        /\ call'[c].tries = call[c].tries + 1 /\ call'[c].landed = landed
        /\ \A d \in Callers : d # c => call'[d] = call[d]
    BY <1>0, <1>1, <1>2 DEF Shape, CallFields
  <1>5. /\ topic' \in Seq(Nat) /\ \A o \in DOMAIN topic' : topic'[o] \in Stored
        /\ \A i : i # n => Copies(i)' = Copies(i)
        /\ Copies(n) # {} => Copies(n)' # {}
        /\ landed => Copies(n)' # {}
        /\ Cardinality(Copies(n)') <= Cardinality(Copies(n)) + 1
    <2>1. CASE landed
      <3>1. topic' = Append(topic, n) /\ topic \in Seq(Nat)
        BY <1>1, <2>1 DEF Shape
      <3>2. /\ topic' \in Seq(Nat) /\ Len(topic) \in Nat
            /\ DOMAIN topic = 1..Len(topic) /\ DOMAIN topic' = 1..(Len(topic) + 1)
            /\ \A o \in DOMAIN topic : topic'[o] = topic[o]
            /\ topic'[Len(topic) + 1] = n
            /\ \A i : i # n => Copies(i)' = Copies(i)
            /\ Copies(n)' # {} /\ Cardinality(Copies(n)') = Cardinality(Copies(n)) + 1
        BY <1>3, <3>1, CopiesAppend
      <3>3. Cardinality(Copies(n)) \in Nat
        BY <3>1, CopiesFinite
      <3>4. \A o \in DOMAIN topic' : topic'[o] \in Stored
        BY <1>3, <3>2 DEF AnnouncedOrReported
      <3> QED
        BY <3>2, <3>3, <3>4
    <2>2. CASE ~landed
      <3>1. topic' = topic /\ topic \in Seq(Nat)
        BY <1>1, <2>2 DEF Shape
      <3>2. \A i : Copies(i)' = Copies(i)
        BY <3>1 DEF Copies
      <3>3. Cardinality(Copies(n)) \in Nat
        BY <3>1, CopiesFinite
      <3> QED
        BY <2>2, <3>1, <3>2, <3>3 DEF AnnouncedOrReported
    <2> QED
      BY <2>1, <2>2
  <1>6. Shape'
    BY <1>2, <1>4, <1>5 DEF Shape
  <1>7. Tried(call[c], n)' /\ Cardinality(Copies(n)') <= Retries + 1
    <2>1. Cardinality(Copies(n)) \in Nat /\ Cardinality(Copies(n)') \in Nat
      BY <1>5, CopiesFinite, CopiesFiniteNext DEF Shape
    <2>2. call[c].tries \in Nat /\ Cardinality(Copies(n)) <= call[c].tries
      BY <1>3, PlatformAssumption DEF Tried
    <2> DEFINE before == Cardinality(Copies(n))
               after == Cardinality(Copies(n)')
               tries == call[c].tries
    <2>3. after <= before + 1
      BY <1>5
    <2> HIDE DEF before, after, tries
    <2>4. after <= tries + 1 /\ tries + 1 \in 0..(Retries + 1) /\ after <= Retries + 1
      BY <1>2, <2>1, <2>2, <2>3, PlatformAssumption DEF before, after, tries
    <2> QED
      BY <1>4, <1>5, <2>4 DEF Tried, after, tries
  <1>8. PublishInv'
    <2>1. \A d \in Callers : \A i : Publishing(d, i)' <=> Publishing(d, i)
      BY <1>0, <1>2, <1>4 DEF Publishing
    <2>2. \A d \in Callers, i \in Stored : Publishing(d, i) /\ d # c => i # n
      BY <1>3 DEF PublishInv
    <2>3. \A d \in Callers : \A i : d # c /\ i # n /\ Tried(call[d], i) => Tried(call[d], i)'
      BY <1>2, <1>4, <1>5 DEF Tried
    <2>4. \A i : Publishing(c, i) => i = n
      BY <1>0 DEF Publishing
    <2>5. \A d \in Callers, i \in Stored' : Publishing(d, i)' => Tried(call[d], i)'
      BY <1>2, <1>7, <2>1, <2>2, <2>3, <2>4 DEF PublishInv
    <2>6. \A d \in Callers : call'[d].at = "publish" => call'[d].id \in Stored'
      BY <1>2, <1>3, <1>4 DEF PublishInv
    <2> QED
      BY <1>2, <2>1, <2>5, <2>6 DEF PublishInv
  <1>9. AnnouncedOrReported'
    <2>1. \A i \in Stored : Cardinality(Copies(i)') <= Retries + 1
      BY <1>5, <1>7 DEF AnnouncedOrReported
    <2>2. \A i \in Stored : \/ Copies(i)' # {} \/ store'[i].told = "failure" \/ i \in lost'
                            \/ \E d \in Callers : call'[d].at = "publish" /\ call'[d].id = i
      <3>1. ASSUME NEW i \in Stored, i # n
            PROVE \/ Copies(i)' # {} \/ store'[i].told = "failure" \/ i \in lost'
                  \/ \E d \in Callers : call'[d].at = "publish" /\ call'[d].id = i
        BY <1>2, <1>4, <1>5, <1>0, <3>1 DEF AnnouncedOrReported
      <3> QED
        BY <1>4, <3>1
    <2> QED
      BY <1>2, <1>5, <2>1, <2>2 DEF AnnouncedOrReported
  <1> QED
    BY <1>6, <1>8, <1>9

\* An acknowledged event is in the topic or lost, a failure is told.
LEMMA PublishInvStep ==
    ASSUME IInv, NEW c \in Callers, Publish(c) \/ PublishFails(c)
    PROVE  IInv'
  <1> USE DEF IInv
  <1> DEFINE n == call[c].id
  <1>1. /\ call[c].at = "publish" /\ call' = [call EXCEPT ![c] = Idle]
        /\ topic' = topic /\ lost' = lost
        /\ \/ call[c].landed /\ store' = [store EXCEPT ![n].told = "success"]
           \/ store' = [store EXCEPT ![n].told = "failure"]
    BY DEF Publish, PublishFails, Answer, Told, kafka
  <1>2. n \in Stored /\ Tried(call[c], n)
    BY <1>1 DEF PublishInv, Publishing
  <1>3. /\ IsSeq(store') /\ Stored' = Stored
        /\ \A i \in Stored : DOMAIN store'[i] = RowFields /\ store'[i].email = store[i].email
        /\ \A i \in Stored : i # n => store'[i] = store[i]
        /\ DOMAIN call' = Callers /\ \A d \in Callers : DOMAIN call'[d] = CallFields
        /\ call'[c].at = "idle" /\ \A d \in Callers : d # c => call'[d] = call[d]
    BY <1>1, Published
  <1>4. store'[n].told = "failure" \/ Copies(n) # {} \/ n \in lost
    BY <1>1, <1>2, Published DEF Tried
  <1>5. \A i : Copies(i)' = Copies(i)
    BY <1>1 DEF Copies
  <1>6. Shape'
    BY <1>1, <1>3 DEF Shape
  <1> HIDE DEF n
  <1>7. PublishInv'
    <2>1. \A d \in Callers : \A i : Publishing(d, i)' => d # c /\ Publishing(d, i)
      BY <1>3 DEF Publishing
    <2>2. \A d \in Callers : \A i : d # c /\ Tried(call[d], i) => Tried(call[d], i)'
      BY <1>1, <1>3, <1>5 DEF Tried
    <2>3. \A d \in Callers : call'[d].at = "publish" => call'[d].id \in Stored'
      BY <1>3 DEF PublishInv
    <2> QED
      BY <1>3, <2>1, <2>2, <2>3 DEF PublishInv
  <1>8. AnnouncedOrReported'
    <2>1. \A i \in Stored : \/ Copies(i)' # {} \/ store'[i].told = "failure" \/ i \in lost'
                            \/ \E d \in Callers : call'[d].at = "publish" /\ call'[d].id = i
      <3>1. ASSUME NEW i \in Stored, i # n
            PROVE \/ Copies(i)' # {} \/ store'[i].told = "failure" \/ i \in lost'
                  \/ \E d \in Callers : call'[d].at = "publish" /\ call'[d].id = i
        BY <1>1, <1>3, <1>5, <3>1 DEF AnnouncedOrReported, n
      <3> QED
        BY <1>1, <1>4, <1>5, <3>1
    <2> QED
      BY <1>1, <1>3, <1>5, <2>1 DEF AnnouncedOrReported
  <1> QED
    BY <1>6, <1>7, <1>8

\* What goes with a leader is lost.
LEMMA LeaderFailsInv ==
    ASSUME IInv, LeaderFails, replicated \in Nat
    PROVE  IInv'
  <1> USE DEF IInv
  <1>1. PICK n \in replicated..(Len(topic) - 1) :
          /\ topic' = SubSeq(topic, 1, n)
          /\ lost' = lost \cup {topic[o] : o \in (n + 1)..Len(topic)}
    BY DEF LeaderFails
  <1>2. store' = store /\ Stored' = Stored /\ call' = call
    BY DEF LeaderFails, Stored
  <1>3. topic \in Seq(Nat) /\ Len(topic) \in Nat /\ n \in Nat /\ n < Len(topic)
    BY LenProperties DEF Shape
  <1>4. /\ topic' \in Seq(Nat) /\ DOMAIN topic' \subseteq DOMAIN topic
        /\ \A o \in DOMAIN topic' : topic'[o] = topic[o]
        /\ \A i : /\ Cardinality(Copies(i)') <= Cardinality(Copies(i))
                  /\ Copies(i) # {} => Copies(i)' # {} \/ i \in lost'
        /\ \A i : Cardinality(Copies(i)') \in Nat
    BY <1>1, <1>3, CopiesCut
  <1>5. lost \subseteq lost'
    BY <1>1
  <1>6. \A i : Cardinality(Copies(i)) \in Nat
    BY <1>3, CopiesFinite
  <1>7. ASSUME NEW i, NEW m \in Nat, Cardinality(Copies(i)) <= m
        PROVE  Cardinality(Copies(i)') <= m
    <2> DEFINE before == Cardinality(Copies(i))
               after == Cardinality(Copies(i)')
    <2>1. before \in Nat /\ after \in Nat /\ after <= before /\ before <= m
      BY <1>4, <1>6, <1>7
    <2> HIDE DEF before, after
    <2>2. after <= m
      BY <2>1
    <2> QED
      BY <2>2 DEF after
  <1>8. Shape'
    BY <1>2, <1>4 DEF Shape
  <1>9. PublishInv'
    <2>1. ASSUME NEW c \in Callers, NEW i, Tried(call[c], i) PROVE Tried(call[c], i)'
      <3>1. call'[c] = call[c] /\ call[c].tries \in 0..(Retries + 1)
        BY <1>2, <2>1 DEF Tried
      <3>2. /\ Cardinality(Copies(i)') <= call[c].tries
            /\ call[c].landed => Copies(i)' # {} \/ i \in lost'
        <4>1. Cardinality(Copies(i)) <= call[c].tries /\ call[c].tries \in Nat
          BY <2>1, PlatformAssumption DEF Tried
        <4>2. Cardinality(Copies(i)') <= call[c].tries
          BY <1>7, <4>1, Zenon
        <4>3. call[c].landed => Copies(i) # {} \/ i \in lost
          BY <2>1, Zenon DEF Tried
        <4>4. call[c].landed => Copies(i)' # {} \/ i \in lost'
          BY <1>4, <1>5, <4>3, Zenon
        <4> QED
          BY <4>2, <4>4
      <3> QED
        BY <3>1, <3>2, Zenon DEF Tried
    <2>2. \A c \in Callers : \A i : Publishing(c, i)' <=> Publishing(c, i)
      BY <1>2 DEF Publishing
    <2> QED
      BY <1>2, <2>1, <2>2 DEF PublishInv
  <1>10. AnnouncedOrReported'
    <2>1. \A i \in Stored : Cardinality(Copies(i)') <= Retries + 1
      BY <1>7, PlatformAssumption DEF AnnouncedOrReported
    <2>2. \A o \in DOMAIN topic' : topic'[o] \in Stored
      BY <1>4 DEF AnnouncedOrReported
    <2>3. \A i \in Stored : \/ Copies(i)' # {} \/ store[i].told = "failure" \/ i \in lost'
                            \/ \E c \in Callers : call[c].at = "publish" /\ call[c].id = i
      BY <1>4, <1>5 DEF AnnouncedOrReported
    <2> QED
      BY <1>2, <2>1, <2>2, <2>3 DEF AnnouncedOrReported
  <1> QED
    BY <1>8, <1>9, <1>10

-----------------------------------------------------------------------------
\* A crash of user-service: the client of each row it was about to announce
\* gets an error.
LEMMA UserCrashInv ==
    ASSUME IInv, UserServiceCrashes
    PROVE  IInv' /\ UNCHANGED kafka /\ Stored' = Stored /\ \A i \in Stored : store'[i].due = store[i].due
  <1> USE DEF IInv
  <1> DEFINE dead == {c \in Callers : call[c].at \in {"create", "publish", "query"}}
  <1>1. /\ UNCHANGED kafka /\ topic' = topic /\ lost' = lost
        /\ call' = [c \in Callers |-> IF c \in dead THEN Idle ELSE call[c]]
        /\ store' = [i \in Stored |-> IF \E c \in dead : call[c].at = "publish" /\ call[c].id = i
                                        THEN [store[i] EXCEPT !.told = "failure"] ELSE store[i]]
    BY DEF UserServiceCrashes, kafka
  <1>2. Len(store) \in Nat /\ Stored = 1..Len(store)
    BY SeqFacts DEF Shape, Stored
  <1>3. IsSeq(store') /\ Stored' = Stored
    BY <1>1, <1>2, FunctionIsSeq DEF Stored
  <1>4. \A i \in Stored : /\ DOMAIN store'[i] = RowFields
                          /\ store'[i].email = store[i].email /\ store'[i].due = store[i].due
                          /\ store'[i].told = store[i].told \/ store'[i].told = "failure"
    BY <1>1 DEF Shape, RowFields
  <1>5. \A c \in Callers, i \in Stored :
          call[c].at = "publish" /\ call[c].id = i => store'[i].told = "failure"
    BY <1>1 DEF Shape, RowFields
  <1>6. /\ DOMAIN call' = Callers
        /\ \A c \in Callers : DOMAIN call'[c] = CallFields /\ call'[c].at # "publish"
    BY <1>1, IdleCall DEF Shape
  <1>7. \A i : Copies(i)' = Copies(i)
    BY <1>1 DEF Copies
  <1>8. Shape'
    BY <1>1, <1>3, <1>4, <1>6 DEF Shape
  <1>9. PublishInv'
    BY <1>6 DEF PublishInv, Publishing
  <1>10. AnnouncedOrReported'
    BY <1>1, <1>3, <1>4, <1>5, <1>7 DEF AnnouncedOrReported
  <1> QED
    BY <1>1, <1>3, <1>4, <1>8, <1>9, <1>10

\* A crash of search-service touches neither table nor topic.
LEMMA SearchCrashInv ==
    ASSUME IInv, SearchServiceCrashes
    PROVE  IInv'
  <1> DEFINE dead == {c \in Callers : call[c].at \in {"lookup", "fetch", "fill"}}
  <1>1. /\ UNCHANGED <<store, topic, lost>>
        /\ call' = [c \in Callers |-> IF c \in dead THEN Idle ELSE call[c]]
    BY DEF SearchServiceCrashes, kafka
  <1>2. \A c \in Callers : /\ DOMAIN call'[c] = CallFields
                           /\ call'[c].at = "publish" <=> call[c].at = "publish"
                           /\ call[c].at = "publish" => SamePublish(call'[c], call[c])
    BY <1>1, IdleCall DEF IInv, Shape, SamePublish
  <1> QED
    BY <1>1, <1>2, QuietStep DEF IInv, Shape, Stored

\* Neither does time.
LEMMA TickInv ==
    ASSUME IInv, Tick
    PROVE  IInv' /\ Stored' = Stored /\ \A i \in Stored : store'[i].due = store[i].due
  <1> USE DEF IInv
  <1>1. Len(store) \in Nat /\ Stored = 1..Len(store)
    BY SeqFacts DEF Shape, Stored
  <1>2. /\ UNCHANGED <<topic, lost>>
        /\ store' = [i \in Stored |->
             [store[i] EXCEPT !.age = IF @ = TimeToLive + MaxLag THEN @ ELSE @ + 1]]
        /\ call' = [c \in Callers |->
             IF call[c].at = "fill" /\ call[c].rpc = "SearchUsers"
               THEN [call[c] EXCEPT !.lag = @ + 1] ELSE call[c]]
    BY DEF Tick, kafka
  <1>3. IsSeq(store') /\ DOMAIN store' = Stored
    BY <1>1, <1>2, FunctionIsSeq
  <1>4. \A i \in Stored : /\ DOMAIN store'[i] = RowFields
                          /\ store'[i].email = store[i].email
                          /\ store'[i].told = store[i].told
                          /\ store'[i].due = store[i].due
    BY <1>2 DEF Shape, RowFields
  <1>5. \A c \in Callers : /\ DOMAIN call'[c] = CallFields
                           /\ call'[c].at = "publish" <=> call[c].at = "publish"
                           /\ call[c].at = "publish" => SamePublish(call'[c], call[c])
    BY <1>2 DEF Shape, CallFields, SamePublish
  <1> QED
    BY <1>2, <1>3, <1>4, <1>5, QuietStep DEF Stored

-----------------------------------------------------------------------------
(* Where notification-service is in the topic.                             *)

\* A group has handled what it committed since its beginning.
Kept(g) ==
    /\ group[g].start \in Nat /\ group[g].from \in Nat
    /\ group[g].start <= group[g].from /\ group[g].from <= replicated
    /\ \A o \in group[g].start..(group[g].from - 1) : <<g, o>> \in handled

\* The group has handled what it committed, reads only what is replicated, and
\* what it is due lies behind its beginning.
GroupInv ==
    /\ replicated \in Nat /\ replicated <= Len(topic)
    /\ DOMAIN group = Subscribers
    /\ \A g \in Subscribers : Kept(g)
    /\ \A h \in handled : h[2] \in Nat /\ h[2] < replicated
    /\ \A i \in Stored : store[i].due => \A g \in Subscribers : Committed(g)
    /\ \A o \in DOMAIN topic : store[topic[o]].due =>
         \A g \in Subscribers : group[g].start < o

\* A step of the rows alone: no row becomes due of which a copy is in the topic.
LEMMA QuietGroup ==
    ASSUME IInv, GroupInv, UNCHANGED kafka, Stored \subseteq Stored',
           \A i \in Stored : store'[i].due => store[i].due,
           \A i \in Stored' : i \notin Stored /\ store'[i].due =>
             \A g \in Subscribers : Committed(g)
    PROVE  GroupInv'
  <1>1. topic' = topic /\ replicated' = replicated /\ group' = group /\ handled' = handled
    BY DEF kafka
  <1>2. \A g : (Committed(g)' <=> Committed(g)) /\ (Kept(g)' <=> Kept(g))
    BY <1>1 DEF Committed, Kept
  <1>3. \A o \in DOMAIN topic : topic[o] \in Stored
    BY DEF IInv, AnnouncedOrReported
  <1>4. \A i \in Stored' : store'[i].due => \A g \in Subscribers : Committed(g)
    BY DEF GroupInv
  <1>5. \A o \in DOMAIN topic' : store'[topic'[o]].due => \A g \in Subscribers : group'[g].start < o
    BY <1>1, <1>3 DEF GroupInv
  <1> QED
    BY <1>1, <1>2, <1>4, <1>5 DEF GroupInv

\* The steps of a call that keep the rows, or add one.
LEMMA CallGroup ==
    ASSUME IInv, GroupInv, NEW c \in Callers, CallStep(c), ~Attempt(c)
    PROVE  GroupInv'
  <1>1. CASE store' = store /\ UNCHANGED kafka
    BY <1>1, QuietGroup DEF Stored
  <1>2. ASSUME NEW req, NEW told, ~Taken(req.email), store' = Append(store, Row(req, told)),
               UNCHANGED kafka
        PROVE  GroupInv'
    <2> DEFINE n == Len(store) + 1
    <2>1. /\ Stored' = Stored \cup {n} /\ \A i \in Stored : store'[i] = store[i]
          /\ store'[n].due => \A g \in Subscribers : Committed(g)
      BY <1>2, Inserted
    <2> HIDE DEF n
    <2> QED
      BY <1>2, <2>1, QuietGroup
  <1>3. CASE Insert(c) \/ InsertFails(c)
    BY <1>1, <1>2, <1>3 DEF Insert, InsertFails
  <1>4. CASE Publish(c) \/ PublishFails(c)
    <2>1. /\ call[c].at = "publish" /\ UNCHANGED kafka
          /\ call' = [call EXCEPT ![c] = Idle]
          /\ \E told : store' = [store EXCEPT ![call[c].id].told = told]
      BY <1>4 DEF Publish, PublishFails, Answer, Told
    <2>2. Stored' = Stored /\ \A i \in Stored : store'[i].due = store[i].due
      BY <2>1, Published
    <2> QED
      BY <2>1, <2>2, QuietGroup
  <1>5. CASE BeginRest(c) \/ BeginGrpc(c)
    BY <1>1, <1>5 DEF BeginRest, BeginGrpc, Begin
  <1>6. CASE \/ RejectCreate(c) \/ Query(c) \/ QueryFails(c) \/ Status(c) \/ RejectGet(c)
             \/ GetCached(c) \/ SearchCached(c) \/ Miss(c) \/ Fetch(c) \/ FetchFails(c)
             \/ FillUser(c) \/ FillList(c) \/ NoFill(c)
    BY <1>1, <1>6 DEF RejectCreate, Query, QueryFails, Status, RejectGet, GetCached, SearchCached,
                      Miss, Fetch, FetchFails, FillUser, FillList, NoFill
  <1> QED
    BY <1>3, <1>4, <1>5, <1>6 DEF CallStep

\* A copy of a due row lies behind the beginning of each group, as the group has
\* committed an offset by then.
LEMMA AttemptGroup ==
    ASSUME IInv, GroupInv, NEW c \in Callers, Attempt(c)
    PROVE  GroupInv'
  <1> DEFINE n == call[c].id
  <1>1. /\ store' = store /\ Stored' = Stored
        /\ replicated' = replicated /\ group' = group /\ handled' = handled
        /\ topic' = topic \/ topic' = Append(topic, n)
    BY DEF Attempt, Stored
  <1>2. \A g : (Committed(g)' <=> Committed(g)) /\ (Kept(g)' <=> Kept(g))
    BY <1>1 DEF Committed, Kept
  <1>3. topic \in Seq(Nat) /\ n \in Stored /\ n \in Nat
    BY SeqFacts DEF Attempt, IInv, PublishInv, Shape, Stored
  <1> HIDE DEF n
  <1>4. CASE topic' = topic
    BY <1>1, <1>2, <1>4 DEF GroupInv
  <1>5. CASE topic' = Append(topic, n)
    <2>1. /\ Len(topic) \in Nat /\ topic' \in Seq(Nat)
          /\ DOMAIN topic = 1..Len(topic) /\ DOMAIN topic' = 1..(Len(topic) + 1)
          /\ \A o \in DOMAIN topic : topic'[o] = topic[o]
          /\ topic'[Len(topic) + 1] = n
      BY <1>3, <1>5, CopiesAppend
    <2>2. Len(topic') = Len(topic) + 1
      BY <1>3, <1>5, AppendProperties
    <2>3. replicated' \in Nat /\ replicated' <= Len(topic')
      BY <1>1, <2>1, <2>2 DEF GroupInv
    <2>4. store[n].due => \A g \in Subscribers : group[g].start < Len(topic) + 1
      <3> SUFFICES ASSUME NEW g \in Subscribers PROVE group[g].start < Len(topic) + 1
        OBVIOUS
      <3>1. Kept(g) /\ replicated \in Nat /\ replicated <= Len(topic)
        BY DEF GroupInv
      <3> QED
        BY <2>1, <3>1 DEF Kept
    <2>5. \A o \in DOMAIN topic' : store'[topic'[o]].due => \A g \in Subscribers : group'[g].start < o
      <3> SUFFICES ASSUME NEW o \in DOMAIN topic', store[topic'[o]].due, NEW g \in Subscribers
                   PROVE  group[g].start < o
        BY <1>1
      <3>1. CASE o \in DOMAIN topic
        BY <2>1, <3>1 DEF GroupInv
      <3>2. CASE o = Len(topic) + 1
        BY <2>1, <2>4, <3>2
      <3> QED
        BY <2>1, <3>1, <3>2
    <2> QED
      BY <1>1, <1>2, <2>3, <2>5 DEF GroupInv
  <1> QED
    BY <1>1, <1>4, <1>5

\* The steps of the group.
LEMMA GroupSteps ==
    ASSUME IInv, GroupInv, NEW g \in Subscribers, OnUserCreated(g) \/ Rejoin(g) \/ Commit(g)
    PROVE  GroupInv'
  <1>1. /\ store' = store /\ Stored' = Stored /\ topic' = topic /\ replicated' = replicated
    BY DEF OnUserCreated, Rejoin, Commit, Stored
  <1>2. /\ replicated \in Nat /\ replicated <= Len(topic)
        /\ DOMAIN group = Subscribers /\ \A f \in Subscribers : Kept(f)
    BY DEF GroupInv
  <1>3. CASE OnUserCreated(g)
    <2>1. PICK o \in group[g].start..(replicated - 1) : handled' = handled \cup {<<g, o>>}
      BY <1>3 DEF OnUserCreated
    <2>2. group' = group
      BY <1>3 DEF OnUserCreated
    <2>3. o \in Nat /\ o < replicated
      BY <1>2 DEF Kept
    <2>4. \A h \in handled' : h[2] \in Nat /\ h[2] < replicated
      BY <2>1, <2>3 DEF GroupInv
    <2>5. \A f \in Subscribers : Kept(f)' /\ (Committed(f)' <=> Committed(f))
      BY <1>1, <1>2, <2>1, <2>2 DEF Kept, Committed
    <2> QED
      BY <1>1, <1>2, <2>2, <2>4, <2>5 DEF GroupInv
  <1>4. CASE Rejoin(g)
    <2>1. /\ group' = [group EXCEPT ![g] = [start |-> replicated, from |-> replicated]]
          /\ handled' = handled /\ ~Committed(g)
      BY <1>4 DEF Rejoin
    <2>2. \A i \in Stored : ~store[i].due
      BY <2>1 DEF GroupInv
    <2>3. \A o \in DOMAIN topic : ~store[topic[o]].due
      BY <2>2 DEF IInv, AnnouncedOrReported
    <2>4. \A f \in Subscribers : Kept(f)'
      <3> SUFFICES ASSUME NEW f \in Subscribers PROVE Kept(f)'
        OBVIOUS
      <3>1. CASE f = g
        <4>1. group'[f].start = replicated /\ group'[f].from = replicated
          BY <1>2, <2>1, <3>1
        <4> QED
          BY <1>1, <1>2, <4>1 DEF Kept
      <3>2. CASE f # g
        BY <1>1, <1>2, <2>1, <3>2 DEF Kept
      <3> QED
        BY <3>1, <3>2
    <2>5. DOMAIN group' = Subscribers
      BY <1>2, <2>1
    <2> QED
      BY <1>1, <1>2, <2>1, <2>2, <2>3, <2>4, <2>5 DEF GroupInv
  <1>5. CASE Commit(g)
    <2>1. PICK n \in (group[g].from + 1)..replicated :
            Delivery!Settled(g, n) /\ group' = [group EXCEPT ![g].from = n]
      BY <1>5 DEF Commit
    <2>2. handled' = handled
      BY <1>5 DEF Commit
    <2>3. /\ group[g].start \in Nat /\ group[g].from \in Nat
          /\ group[g].start <= group[g].from /\ group[g].from <= replicated
      BY <1>2 DEF Kept
    <2>4. n \in Nat /\ group[g].from < n /\ n <= replicated
      BY <1>2, <2>3
    <2>5. \A o \in group[g].start..(n - 1) : <<g, o>> \in handled
      <3> SUFFICES ASSUME NEW o \in group[g].start..(n - 1) PROVE <<g, o>> \in handled
        OBVIOUS
      <3>1. o \in 0..(n - 1) /\ o \in Nat /\ group[g].start <= o
        BY <2>3, <2>4
      <3>2. <<g, o>> \in handled \cup Before
        BY <2>1, <3>1 DEF Delivery!Settled
      <3>3. <<g, o>> \notin Before
        <4> SUFFICES ASSUME NEW f \in Subscribers, NEW p \in 0..(group[f].start - 1),
                            <<g, o>> = <<f, p>>
                     PROVE  FALSE
          BY DEF Before
        <4>1. f = g /\ p = o
          OBVIOUS
        <4> QED
          BY <2>3, <3>1, <4>1
      <3> QED
        BY <3>2, <3>3
    <2>6. DOMAIN group' = Subscribers /\ \A f \in Subscribers : group'[f].start = group[f].start
      <3>1. \A f \in Subscribers : f # g => group'[f] = group[f]
        BY <1>2, <2>1
      <3>2. group'[g].start = group[g].start
        BY <1>2, <2>1
      <3> QED
        BY <1>2, <2>1, <3>1, <3>2
    <2>7. \A f \in Subscribers : Kept(f)' /\ (Committed(f) => Committed(f)')
      <3> SUFFICES ASSUME NEW f \in Subscribers PROVE Kept(f)' /\ (Committed(f) => Committed(f)')
        OBVIOUS
      <3>1. CASE f = g
        <4>1. group'[f].from = n
          BY <1>2, <2>1, <3>1 DEF Kept
        <4> QED
          BY <1>1, <1>2, <2>2, <2>3, <2>4, <2>5, <2>6, <3>1, <4>1 DEF Kept, Committed
      <3>2. CASE f # g
        <4>1. group'[f] = group[f]
          BY <1>2, <2>1, <3>2
        <4> QED
          BY <1>1, <1>2, <2>2, <4>1 DEF Kept, Committed
      <3> QED
        BY <3>1, <3>2
    <2> QED
      BY <1>1, <1>2, <2>2, <2>6, <2>7 DEF GroupInv
  <1> QED
    BY <1>3, <1>4, <1>5

\* The steps of the brokers: no group has read what a leader takes with it.
LEMMA BrokerGroup ==
    ASSUME IInv, GroupInv, Replicate \/ LeaderFails
    PROVE  GroupInv'
  <1>1. store' = store /\ Stored' = Stored /\ group' = group /\ handled' = handled
    BY DEF Replicate, LeaderFails, Stored
  <1>2. /\ topic \in Seq(Nat) /\ Len(topic) \in Nat
        /\ replicated \in Nat /\ replicated <= Len(topic)
    BY LenProperties DEF IInv, Shape, GroupInv
  <1>3. \A g \in Subscribers : Committed(g)' <=> Committed(g)
    BY <1>1 DEF Committed
  <1>4. CASE Replicate
    <2>1. topic' = topic /\ replicated' = replicated + 1 /\ replicated < Len(topic)
      BY <1>4 DEF Replicate
    <2>2. \A g \in Subscribers : Kept(g)'
      BY <1>1, <1>2, <2>1 DEF GroupInv, Kept
    <2>3. \A h \in handled : h[2] \in Nat /\ h[2] < replicated + 1
      BY <1>2 DEF GroupInv
    <2> QED
      BY <1>1, <1>2, <1>3, <2>1, <2>2, <2>3 DEF GroupInv
  <1>5. CASE LeaderFails
    <2>1. PICK n \in replicated..(Len(topic) - 1) :
            /\ topic' = SubSeq(topic, 1, n)
            /\ lost' = lost \cup {topic[o] : o \in (n + 1)..Len(topic)}
      BY <1>5 DEF LeaderFails
    <2>2. n \in Nat /\ n < Len(topic) /\ replicated <= n
      BY <1>2
    <2>3. /\ Len(topic') = n /\ DOMAIN topic' \subseteq DOMAIN topic
          /\ \A o \in DOMAIN topic' : topic'[o] = topic[o]
      BY <1>2, <2>1, <2>2, CopiesCut
    <2>4. replicated' = replicated
      BY <1>5 DEF LeaderFails
    <2>5. \A g \in Subscribers : Kept(g)'
      BY <1>1, <2>4 DEF GroupInv, Kept
    <2>6. \A o \in DOMAIN topic' : store'[topic'[o]].due => \A g \in Subscribers : group'[g].start < o
      BY <1>1, <2>3 DEF GroupInv
    <2> QED
      BY <1>1, <1>2, <1>3, <2>2, <2>3, <2>4, <2>5, <2>6 DEF GroupInv
  <1> QED
    BY <1>4, <1>5

-----------------------------------------------------------------------------
\* The invariants hold of an empty platform and of one with an old user.
LEMMA InitIInv == Init => IInv /\ GroupInv
  <1> SUFFICES ASSUME Init PROVE IInv /\ GroupInv
    OBVIOUS
  <1>1. /\ DOMAIN call = Callers
        /\ \A c \in Callers : DOMAIN call[c] = CallFields /\ call[c].at = "idle"
    BY IdleCall DEF Init
  <1>2. /\ replicated = Len(topic)
        /\ group = [g \in Subscribers |-> [start |-> 0, from |-> Len(topic)]]
        /\ handled = Subscribers \X (0..(Len(topic) - 1))
    BY DEF Init
  <1>3. ASSUME Len(topic) \in Nat
        PROVE  /\ replicated \in Nat /\ replicated <= Len(topic) /\ DOMAIN group = Subscribers
               /\ \A g \in Subscribers : Kept(g)
               /\ \A h \in handled : h[2] \in Nat /\ h[2] < replicated
    <2>1. \A g \in Subscribers : group[g].start = 0 /\ group[g].from = Len(topic)
      BY <1>2
    <2>2. \A g \in Subscribers : Kept(g)
      BY <1>2, <1>3, <2>1 DEF Kept
    <2>3. \A h \in handled : h[2] \in Nat /\ h[2] < replicated
      BY <1>2, <1>3
    <2> QED
      BY <1>2, <1>3, <2>2, <2>3
  <1>4. PublishInv
    BY <1>1 DEF PublishInv, Publishing
  <1>5. CASE store = <<>> /\ topic = <<>>
    <2>1. Stored = {} /\ DOMAIN topic = {} /\ Len(topic) = 0
      BY <1>5 DEF Stored
    <2>2. Shape
      BY <1>1, <1>5, <2>1 DEF Shape, IsSeq
    <2>3. AnnouncedOrReported
      BY <2>1 DEF AnnouncedOrReported
    <2>4. GroupInv
      BY <1>3, <2>1 DEF GroupInv
    <2> QED
      BY <1>4, <2>2, <2>3, <2>4 DEF IInv
  <1>6. CASE \E email \in Old :
               /\ store = <<[email |-> email, name |-> <<"Old">>, age |-> TimeToLive + MaxLag,
                             told |-> "success", due |-> FALSE]>>
               /\ topic = <<1>>
    <2>1. /\ DOMAIN store = {1} /\ DOMAIN store[1] = RowFields /\ store[1].due = FALSE
          /\ DOMAIN topic = {1} /\ topic[1] = 1 /\ Len(topic) = 1
      BY <1>6 DEF RowFields
    <2>2. IsSeq(store)
      BY <1>6, OneSeq
    <2>3. topic \in Seq(Nat)
      BY <1>6
    <2>4. Shape
      BY <1>1, <2>1, <2>2, <2>3 DEF Shape, Stored
    <2>5. AnnouncedOrReported
      <3>1. Copies(1) = {1}
        BY <2>1 DEF Copies
      <3>2. Cardinality(Copies(1)) = 1
        <4>1. IsFiniteSet({}) /\ Cardinality({}) = 0
          BY FS_EmptySet
        <4>2. Cardinality({} \cup {1}) = 0 + 1
          BY <4>1, FS_AddElement
        <4>3. {} \cup {1} = Copies(1)
          BY <3>1
        <4> QED
          BY <4>2, <4>3
      <3>3. 1 <= Retries + 1
        BY PlatformAssumption
      <3> QED
        BY <2>1, <3>1, <3>2, <3>3 DEF AnnouncedOrReported, Stored
    <2>6. GroupInv
      BY <1>3, <2>1 DEF GroupInv, Stored
    <2> QED
      BY <1>4, <2>4, <2>5, <2>6 DEF IInv
  <1> QED
    BY <1>5, <1>6 DEF Init

\* Every step keeps the invariant of the dual write.
LEMMA NextIInv ==
    ASSUME IInv, GroupInv, [Next]_vars
    PROVE  IInv'
  <1>1. CASE UNCHANGED vars
    BY <1>1, QuietStep DEF vars, kafka, IInv, Shape, Stored, SamePublish
  <1>2. CASE \E c \in Callers : CallStep(c)
    BY <1>2, QuietCallStepInv, InsertInv, InsertFailsInv, AttemptInv, PublishInvStep DEF CallStep
  <1>3. CASE UserServiceCrashes
    BY <1>3, UserCrashInv
  <1>4. CASE SearchServiceCrashes
    BY <1>4, SearchCrashInv
  <1>5. CASE (\E g \in Subscribers : OnUserCreated(g) \/ Rejoin(g) \/ Commit(g)) \/ Replicate
    <2>1. UNCHANGED <<store, topic, lost, call>>
      BY <1>5 DEF OnUserCreated, Rejoin, Commit, Replicate
    <2> QED
      BY <2>1, QuietStep DEF IInv, Shape, Stored, SamePublish
  <1>6. CASE LeaderFails
    BY <1>6, LeaderFailsInv DEF GroupInv
  <1>7. CASE Tick
    BY <1>7, TickInv
  <1> QED
    BY <1>1, <1>2, <1>3, <1>4, <1>5, <1>6, <1>7 DEF Next

\* And that of the group.
LEMMA NextGroupInv ==
    ASSUME IInv, GroupInv, [Next]_vars
    PROVE  GroupInv'
  <1>1. CASE UNCHANGED vars \/ SearchServiceCrashes
    <2>1. UNCHANGED <<store, kafka>>
      BY <1>1 DEF vars, SearchServiceCrashes
    <2> QED
      BY <2>1, QuietGroup DEF Stored
  <1>2. CASE \E c \in Callers : CallStep(c)
    BY <1>2, CallGroup, AttemptGroup
  <1>3. CASE UserServiceCrashes
    BY <1>3, UserCrashInv, QuietGroup
  <1>4. CASE Tick
    <2>1. UNCHANGED kafka
      BY <1>4 DEF Tick
    <2> QED
      BY <1>4, <2>1, TickInv, QuietGroup
  <1> QED
    BY <1>1, <1>2, <1>3, <1>4, GroupSteps, BrokerGroup DEF Next

\* The table and the topic agree as AnnouncedOrReported says, whatever fails
\* between the INSERT and the event, however often the producer tries and whatever
\* leader fails (user-service internal/user/handler.go:117-149, kafka.go:421-435).
THEOREM DualWriteSound == Spec => []AnnouncedOrReported
  <1> DEFINE Inv == IInv /\ GroupInv
  <1>1. Inv /\ [Next]_vars => Inv'
    BY NextIInv, NextGroupInv
  <1>2. Inv => AnnouncedOrReported
    BY DEF IInv
  <1> QED
    BY <1>1, <1>2, InitIInv, PTL DEF Spec

\* notification-service handles what it is due, or it is still ahead of its group
\* (kafka.go:437-454).
THEOREM DueIsNotSkipped == Spec => []DueIsHandledOrAhead
  <1> DEFINE Inv == IInv /\ GroupInv
  <1>1. Inv /\ [Next]_vars => Inv'
    BY NextIInv, NextGroupInv
  <1>2. Inv => DueIsHandledOrAhead
    <2> SUFFICES ASSUME GroupInv, IInv, NEW g \in Subscribers
                 PROVE  /\ group[g].from <= Len(topic)
                        /\ \A h \in handled : h[1] = g => h[2] < Len(topic)
                        /\ \A o \in DOMAIN topic : store[topic[o]].due =>
                             <<g, o - 1>> \in handled \/ group[g].from < o
      BY DEF DueIsHandledOrAhead
    <2>1. /\ Kept(g) /\ replicated \in Nat /\ replicated <= Len(topic)
          /\ Len(topic) \in Nat /\ DOMAIN topic = 1..Len(topic)
      BY LenProperties DEF IInv, Shape, GroupInv
    <2>2. group[g].from <= Len(topic)
      BY <2>1 DEF Kept
    <2>3. \A h \in handled : h[2] < Len(topic)
      BY <2>1 DEF GroupInv
    <2>4. ASSUME NEW o \in DOMAIN topic, store[topic[o]].due, ~(group[g].from < o)
          PROVE  <<g, o - 1>> \in handled
      <3>1. group[g].start < o
        BY <2>4 DEF GroupInv
      <3>2. o - 1 \in group[g].start..(group[g].from - 1)
        BY <2>1, <2>4, <3>1 DEF Kept
      <3> QED
        BY <2>1, <3>2 DEF Kept
    <2> QED
      BY <2>2, <2>3, <2>4
  <1> QED
    BY <1>1, <1>2, InitIInv, PTL DEF Spec

-----------------------------------------------------------------------------
(* Answers: what makes one fresh, as a relation of a table and an answer.   *)

\* toProto of row i of the table s.
Proto(s, i) == [id |-> i, email |-> s[i].email, name |-> s[i].name, display |-> s[i].name]

\* Users of the table s that miss only rows no older than bound.
Dated(s, users, bound) ==
    /\ users \subseteq {Proto(s, i) : i \in DOMAIN s}
    /\ \A i \in DOMAIN s : Proto(s, i) \notin users => s[i].age <= bound

\* A call as it reached its handler: the RPC, version and request it was made with.
Routed(k) ==
    /\ k.want \in Requests
    /\ k.version = k.want.version /\ k.rpc = k.want.rpc
    /\ SameRequest(k.rpc, k.req, k.want.req)

\* Shown, of the table s.
ShownIn(s, want, i) ==
    [id |-> i, email |-> s[i].email, name |-> s[i].name,
     display |-> IF want.service = "user" /\ want.version = "v1" THEN <<>> ELSE s[i].name]

\* AnswersAreFresh, of the table s and the answer a.
FreshIn(s, a) ==
    LET want == a.want
        matching == {i \in DOMAIN s : want.req.query \in {"", s[i].email}}
    IN  /\ a.code = "NotFound" /\ want.rpc = "GetUser" => want.req.id \notin 1..a.known
        /\ a.code = "OK" =>
             CASE want.rpc = "CreateUser" ->
                    \E i \in DOMAIN s : /\ a.users = {ShownIn(s, want, i)}
                                        /\ s[i].email = want.req.email
               [] want.rpc = "GetUser" ->
                    /\ want.req.id \in DOMAIN s
                    /\ a.users = {ShownIn(s, want, want.req.id)}
               [] want.rpc = "ListUsers" ->
                    /\ {ShownIn(s, want, i) : i \in 1..a.known} \subseteq a.users
                    /\ a.users \subseteq {ShownIn(s, want, i) : i \in DOMAIN s}
               [] want.rpc = "SearchUsers" ->
                    /\ a.users \subseteq {ShownIn(s, want, i) : i \in matching}
                    /\ \A i \in matching :
                         s[i].age >= TimeToLive + a.lag => ShownIn(s, want, i) \in a.users
               [] want.rpc = "GetStatus" -> a.rpc = "GetStatus"

\* FreshIn is what AnswersAreFresh says of a state,
LEMMA FreshNow == AnswersAreFresh <=> FreshIn(store, answer)
  BY Zenon DEF AnswersAreFresh, FreshIn, Shown, ShownIn, Stored

\* and of the next one.
LEMMA FreshNext == AnswersAreFresh' <=> FreshIn(store', answer')
  BY Zenon DEF AnswersAreFresh, FreshIn, Shown, ShownIn, Stored

\* An error other than "not found" says nothing of the table.
LEMMA FreshOther ==
    ASSUME NEW s, NEW a, a.code \notin {"OK", "NotFound"}
    PROVE  FreshIn(s, a)
  BY Zenon DEF FreshIn

\* The hub users of some rows, and what a client is shown of them.
Rows(s, X, users) == \A u : u \in users <=> \E i \in X : u = Proto(s, i)
\* What a client is shown of some rows.
Views(s, want, X, users) == \A u : u \in users <=> \E i \in X : u = ShownIn(s, want, i)

\* FromHub turns the hub users of some rows into what the client is shown of them.
LEMMA ShownRows ==
    ASSUME NEW s, NEW k, Routed(k), NEW X, NEW users, Rows(s, X, users)
    PROVE  Views(s, k.want, X, FromHub(k.want.service, k.version, users))
  <1> DEFINE v1 == k.want.service = "user" /\ k.version = "v1"
  <1>1. ASSUME NEW i PROVE /\ v1 => UserV1User(Proto(s, i)) = ShownIn(s, k.want, i)
                           /\ ~v1 => Proto(s, i) = ShownIn(s, k.want, i)
    BY DEF UserV1User, Proto, ShownIn, Routed
  <1>2. CASE v1
    <2>1. FromHub(k.want.service, k.version, users) = {UserV1User(u) : u \in users}
      BY <1>2 DEF FromHub
    <2>2. \A i \in X : UserV1User(Proto(s, i)) = ShownIn(s, k.want, i)
      BY <1>1, <1>2
    <2> QED
      BY <2>1, <2>2, SMT DEF Rows, Views
  <1>3. CASE ~v1
    <2>1. FromHub(k.want.service, k.version, users) = users
      BY <1>3 DEF FromHub, SearchV1User
    <2>2. \A i \in X : Proto(s, i) = ShownIn(s, k.want, i)
      BY <1>1, <1>3
    <2> QED
      BY <2>1, <2>2, Zenon DEF Rows, Views
  <1> QED
    BY <1>2, <1>3

\* The fields of an answer.
LEMMA AnswerFields ==
    ASSUME NEW k, NEW code, NEW users
    PROVE  LET a == AnswerTo(k, code, users) IN
           /\ a.want = k.want /\ a.rpc = k.rpc /\ a.code = code /\ a.known = k.known
           /\ a.lag = k.lag /\ a.users = FromHub(k.want.service, k.version, users)
  BY DEF AnswerTo

\* CreateUser, answered with the row of the requested email.
LEMMA FreshCreate ==
    ASSUME NEW s, NEW k, Routed(k), k.rpc = "CreateUser", NEW i \in DOMAIN s,
           s[i].email = k.req.email
    PROVE  FreshIn(s, AnswerTo(k, "OK", {Proto(s, i)}))
  <1> DEFINE a == AnswerTo(k, "OK", {Proto(s, i)})
  <1>2. a.users = {ShownIn(s, k.want, i)}
    <2>1. a.users = FromHub(k.want.service, k.version, {Proto(s, i)})
      BY AnswerFields
    <2>2. Rows(s, {i}, {Proto(s, i)})
      BY DEF Rows
    <2>3. Views(s, k.want, {i}, a.users)
      BY <2>1, <2>2, ShownRows, Zenon
    <2> QED
      BY <2>3 DEF Views
  <1>3. a.want = k.want /\ a.code = "OK" /\ k.want.rpc = "CreateUser" /\ s[i].email = k.want.req.email
    BY AnswerFields DEF Routed, SameRequest
  <1> HIDE DEF a
  <1>4. FreshIn(s, a)
    BY <1>2, <1>3 DEF FreshIn
  <1> QED
    BY <1>4 DEF a

\* GetUser, answered with the row asked for,
LEMMA FreshGet ==
    ASSUME NEW s, NEW k, Routed(k), k.rpc = "GetUser", k.req.id \in DOMAIN s
    PROVE  FreshIn(s, AnswerTo(k, "OK", {Proto(s, k.req.id)}))
  <1> DEFINE a == AnswerTo(k, "OK", {Proto(s, k.req.id)})
             i == k.req.id
  <1>2. a.users = {ShownIn(s, k.want, i)}
    <2>1. a.users = FromHub(k.want.service, k.version, {Proto(s, i)})
      BY AnswerFields
    <2>2. Rows(s, {i}, {Proto(s, i)})
      BY DEF Rows
    <2>3. Views(s, k.want, {i}, a.users)
      BY <2>1, <2>2, ShownRows, Zenon
    <2> QED
      BY <2>3 DEF Views
  <1>3. a.want = k.want /\ a.code = "OK" /\ k.want.rpc = "GetUser" /\ i = k.want.req.id
    BY AnswerFields DEF Routed, SameRequest
  <1> HIDE DEF a
  <1>4. FreshIn(s, a)
    BY <1>2, <1>3 DEF FreshIn
  <1> QED
    BY <1>4 DEF a

\* or with "not found" when there is no such row.
LEMMA FreshNotFound ==
    ASSUME NEW s, NEW k, Routed(k), k.rpc = "GetUser", k.req.id \notin DOMAIN s,
           DOMAIN s = 1..Len(s), Len(s) \in Nat, k.known \in 0..Len(s)
    PROVE  FreshIn(s, AnswerTo(k, "NotFound", {}))
  <1> DEFINE a == AnswerTo(k, "NotFound", {})
  <1>1. /\ a.want = k.want /\ a.code = "NotFound" /\ k.want.rpc = "GetUser"
        /\ k.req.id = k.want.req.id /\ a.known = k.known
    BY AnswerFields DEF Routed, SameRequest
  <1> HIDE DEF a
  <1>2. 1..k.known \subseteq 1..Len(s)
    OBVIOUS
  <1>3. FreshIn(s, a)
    BY <1>1, <1>2 DEF FreshIn
  <1> QED
    BY <1>3 DEF a

\* ListUsers, answered with the whole table.
LEMMA FreshList ==
    ASSUME NEW s, NEW k, Routed(k), k.rpc = "ListUsers",
           DOMAIN s = 1..Len(s), Len(s) \in Nat, k.known \in 0..Len(s)
    PROVE  FreshIn(s, AnswerTo(k, "OK", {Proto(s, i) : i \in DOMAIN s}))
  <1> DEFINE a == AnswerTo(k, "OK", {Proto(s, i) : i \in DOMAIN s})
  <1>1. a.users = {ShownIn(s, k.want, i) : i \in DOMAIN s}
    <2> DEFINE users == {Proto(s, i) : i \in DOMAIN s}
    <2>1. Rows(s, DOMAIN s, users)
      BY DEF Rows
    <2> HIDE DEF users
    <2>2. a.users = FromHub(k.want.service, k.version, users)
      BY AnswerFields DEF users
    <2>3. Views(s, k.want, DOMAIN s, a.users)
      BY <2>1, <2>2, ShownRows, Zenon
    <2> QED
      BY <2>3 DEF Views
  <1>2. a.want = k.want /\ a.code = "OK" /\ k.want.rpc = "ListUsers" /\ a.known = k.known
    BY AnswerFields DEF Routed
  <1>3. 1..k.known \subseteq DOMAIN s
    OBVIOUS
  <1> HIDE DEF a
  <1>4. FreshIn(s, a)
    <2>1. {ShownIn(s, k.want, i) : i \in 1..k.known} \subseteq a.users
      BY <1>1, <1>3, Zenon
    <2> QED
      BY <1>1, <1>2, <2>1 DEF FreshIn
  <1> QED
    BY <1>4 DEF a

\* GetStatus, answered by the status handler.
LEMMA FreshStatus ==
    ASSUME NEW s, NEW k, Routed(k), k.rpc = "GetStatus"
    PROVE  FreshIn(s, AnswerTo(k, "OK", {}))
  <1> DEFINE a == AnswerTo(k, "OK", {})
  <1>1. a.want = k.want /\ a.code = "OK" /\ k.want.rpc = "GetStatus" /\ a.rpc = "GetStatus"
    BY AnswerFields DEF Routed
  <1> HIDE DEF a
  <1>2. FreshIn(s, a)
    BY <1>1 DEF FreshIn
  <1> QED
    BY <1>2 DEF a

\* An age beyond the bound of an answer.
LEMMA TooOld ==
    ASSUME NEW age \in Nat, NEW ttl \in Nat, NEW lag \in Nat, NEW bound \in Nat,
           age >= ttl + lag, bound < ttl + lag
    PROVE  ~(age <= bound)
  OBVIOUS

\* A search, answered from users that miss only rows younger than the time to
\* live and the lag together.
LEMMA FreshSearch ==
    ASSUME NEW s, NEW k, Routed(k), k.rpc = "SearchUsers", k.want.service = "search",
           NEW users, NEW bound \in Nat, NEW lag \in Nat, Dated(s, users, bound),
           \A i \in DOMAIN s : s[i].age \in Nat,
           bound < TimeToLive + lag,
           NEW a, a.want = k.want, a.code = "OK", a.lag = lag,
           a.users = FromHub(k.want.service, k.version, FilterUsers(users, k.req.query))
    PROVE  FreshIn(s, a)
  <1> DEFINE want == k.want
             matching == {i \in DOMAIN s : want.req.query \in {"", s[i].email}}
  <1>1. a.users = FilterUsers(users, want.req.query)
    BY DEF FromHub, SearchV1User, Routed, SameRequest
  <1>2. \A i : ShownIn(s, want, i) = Proto(s, i) /\ Proto(s, i).email = s[i].email
    BY DEF ShownIn, Proto
  <1>3. a.users \subseteq {ShownIn(s, want, i) : i \in matching}
    <2> SUFFICES ASSUME NEW u \in a.users PROVE \E i \in matching : u = ShownIn(s, want, i)
      BY Zenon
    <2>1. u \in users /\ (want.req.query = "" \/ u.email = want.req.query)
      BY <1>1 DEF FilterUsers
    <2>2. PICK i \in DOMAIN s : u = Proto(s, i)
      BY <2>1 DEF Dated
    <2>3. i \in matching
      BY <1>2, <2>1, <2>2
    <2> QED
      BY <1>2, <2>2, <2>3
  <1>4. \A i \in matching : s[i].age >= TimeToLive + lag => ShownIn(s, want, i) \in a.users
    <2> SUFFICES ASSUME NEW i \in matching, s[i].age >= TimeToLive + lag
                 PROVE  ShownIn(s, want, i) \in a.users
      OBVIOUS
    <2>0. TimeToLive \in Nat /\ s[i].age \in Nat
      BY PlatformAssumption DEF TimeToLive
    <2>1. ~(s[i].age <= bound)
      BY <2>0, TooOld, Zenon
    <2>2. Proto(s, i) \in users
      BY <2>1 DEF Dated
    <2> QED
      BY <1>1, <1>2, <2>2 DEF FilterUsers
  <1>5. want.rpc = "SearchUsers"
    BY DEF Routed
  <1> QED
    BY <1>3, <1>4, <1>5 DEF FreshIn

-----------------------------------------------------------------------------
(* What the operators of Errx make of a chain, whatever its links.           *)

\* The smallest of some natural numbers is one of them.
LEMMA MinNat ==
    ASSUME NEW I \in SUBSET Nat, I # {}
    PROVE  Min(I) \in I
<1> DEFINE R == OpToRel(<, Nat)
<1>1. PICK x \in I : \A y \in I : ~(<<y, x>> \in R)
  <2>1. IsWellFoundedOn(R, Nat)
    BY NatLessThanWellFounded
  <2> HIDE DEF R
  <2>. QED
    BY <2>1, WFMin
<1>2. \A y \in I : <<y, x>> \in R <=> y < x
  BY DEF OpToRel
<1>3. \A y \in I : ~(y < x)
  BY <1>1, <1>2, Zenon
<1>4. \A y \in I : x <= y
  BY <1>3
<1>. QED
  BY <1>4 DEF Min

LEMMA FirstLinkSingle ==
    ASSUME NEW link, NEW kind
    PROVE  FirstLink(<<link>>, kind) = IF link.kind = kind THEN 1 ELSE 0
<1> DEFINE I == {j \in 1..Len(<<link>>) : <<link>>[j].kind = kind}
<1>1. FirstLink(<<link>>, kind) = IF I # {} THEN Min(I) ELSE 0
  BY DEF FirstLink, SelectInSeq
<1>2. I = IF link.kind = kind THEN {1} ELSE {}
  OBVIOUS
<1>3. Min({1}) = 1
  BY MinNat
<1>. QED
  BY <1>1, <1>2, <1>3

OrDefault(text) == IF text = "" THEN "default" ELSE text
FirstText(text, other) == IF text = "" THEN other ELSE text

\* finalizeMessages leaves the code alone and the public text never empty.
LEMMA Finalized ==
    ASSUME NEW e, IsRecord(e)
    PROVE  /\ IsRecord(FinalizeMessages(e))
           /\ FinalizeMessages(e).code = e.code
           /\ FinalizeMessages(e).public = OrDefault(e.public)
<1> DEFINE public  == OrDefault(e.public)
           message == IF e.message = "" THEN ErrorText(e.cause) ELSE e.message
           text == IF message = "" THEN public ELSE message
<1>1. FinalizeMessages(e) = [e EXCEPT !.public = public, !.message = text]
  BY DEF FinalizeMessages, OrDefault
<1> HIDE DEF public, text
<1>2. FinalizeMessages(e) = [code |-> e.code, message |-> text, public |-> public,
                             fields |-> e.fields, cause |-> e.cause]
  BY <1>1 DEF IsRecord
<1>. QED
  BY <1>2 DEF public, IsRecord

\* The public text of a status: that of its metadata, or its message.
StatusText(st) ==
    LET metadata == IF HasErrxDetails(st) THEN CHOOSE m \in st.details : TRUE ELSE NoMetadata
    IN  IF metadata.public = "" THEN st.message ELSE metadata.public

LEMMA FromStatusFacts ==
    ASSUME NEW st, NEW chain
    PROVE  /\ IsRecord(FromStatus(st, chain))
           /\ FromStatus(st, chain).code = NormalizeCode(st.code)
           /\ FromStatus(st, chain).public = OrDefault(StatusText(st))
<1> DEFINE metadata == IF HasErrxDetails(st) THEN CHOOSE m \in st.details : TRUE ELSE NoMetadata
           OrStatus(text) == IF text = "" THEN st.message ELSE text
           e == [code |-> NormalizeCode(st.code), message |-> OrStatus(metadata.message),
                 public |-> OrStatus(metadata.public), fields |-> DecodeFields(metadata),
                 cause |-> chain]
<1>1. FromStatus(st, chain) = FinalizeMessages(e)
  BY DEF FromStatus
<1>2. OrStatus(metadata.public) = StatusText(st)
  BY DEF StatusText
<1> HIDE DEF metadata, OrStatus
<1>3. /\ IsRecord(e)
      /\ e.code = NormalizeCode(st.code) /\ e.public = StatusText(st)
  BY <1>2 DEF IsRecord
<1> HIDE DEF e
<1>. QED
  BY <1>1, <1>3, Finalized

\* Wrap without fields: a code other than OK and a public text are kept, and
\* those of the wrapped error stand in for missing ones.
LEMMA WrapFacts ==
    ASSUME NEW chain, NEW code, NEW message, NEW public
    PROVE  /\ IsRecord(Wrap(chain, code, message, public, <<>>))
           /\ Wrap(chain, code, message, public, <<>>).code = PickCode(code, FromError(chain).code)
           /\ Wrap(chain, code, message, public, <<>>).public
                = OrDefault(FirstText(public, FromError(chain).public))
<1> DEFINE base == FromError(chain)
           text == IF public = "" THEN base.public ELSE public
           e == [code    |-> PickCode(code, base.code),
                 message |-> IF message = "" THEN base.message ELSE message,
                 public  |-> text,
                 fields  |-> MergeFields(base.fields, <<>>),
                 cause   |-> chain]
<1>1. Wrap(chain, code, message, public, <<>>) = FinalizeMessages(e)
  BY DEF Wrap
<1>2. IsRecord(e) /\ e.code = PickCode(code, base.code) /\ e.public = text
  <2> HIDE DEF base, text
  <2>. QED
    BY DEF IsRecord
<1> HIDE DEF e
<1>. QED
  BY <1>1, <1>2, Finalized DEF FirstText

\* A chain of one status.
LEMMA SingleStatus ==
    ASSUME NEW link, link.kind = "status"
    PROVE  /\ ~HasLink(<<link>>, "app") /\ HasLink(<<link>>, "status")
           /\ StatusOf(<<link>>) = [code |-> link.code, details |-> link.details,
                                    message |-> link.message]
           /\ FromError(<<link>>) = FromStatus(StatusOf(<<link>>), <<link>>)
<1> DEFINE chain == <<link>>
<1>1. FirstLink(chain, "app") = 0 /\ FirstLink(chain, "status") = 1 /\ chain[1] = link
  BY FirstLinkSingle
<1> HIDE DEF chain
<1>2. ~HasLink(chain, "app") /\ HasLink(chain, "status")
  BY <1>1 DEF HasLink
<1>3. StatusOf(chain) = [code |-> link.code, details |-> link.details, message |-> link.message]
  BY <1>1 DEF StatusOf
<1>4. FromError(chain) = FromStatus(StatusOf(chain), chain)
  BY <1>2 DEF FromError
<1>. QED
  BY <1>2, <1>3, <1>4 DEF chain

-----------------------------------------------------------------------------
(* Errors: the codes a client of search-service sees.                      *)

\* An error of user-service reaches its client as one status with its code.
LEMMA UserServiceErrorFacts ==
    ASSUME NEW code, code # "OK"
    PROVE  \E link : /\ UserServiceError(code) = <<link>>
                     /\ link.kind = "status" /\ link.code = code
  <1> DEFINE e == Wrap(Cause, code, "internal", "public", <<>>)
             app == [kind |-> "app", error |-> e]
             st == GRPCStatus(ServerError(<<app>>))
             link == [kind |-> "status", code |-> st.code, message |-> st.message,
                      details |-> st.details]
  <1>1. e.code = code
    <2>1. e.code = PickCode(code, FromError(Cause).code)
      BY WrapFacts
    <2>2. \A other : PickCode(code, other) = code
      BY DEF PickCode, NormalizeCode
    <2> QED
      BY <2>1, <2>2
  <1>2. IsRecord(e)
    BY WrapFacts
  <1> HIDE DEF e
  <1>3. app.kind = "app" /\ app.error = e
    OBVIOUS
  <1> HIDE DEF app
  <1>4. ServerError(<<app>>) = FinalizeMessages(e)
    <2>1. FirstLink(<<app>>, "app") = 1 /\ <<app>>[1] = app
      BY <1>3, FirstLinkSingle
    <2> DEFINE chain == <<app>>
    <2> HIDE DEF chain
    <2>2. HasLink(chain, "app") /\ AppOf(chain) = e
      BY <1>3, <2>1 DEF HasLink, AppOf, chain
    <2>3. ServerError(chain) = FinalizeMessages(e)
      BY <2>2 DEF ServerError
    <2> QED
      BY <2>3 DEF chain
  <1>5. ServerError(<<app>>).code = code
    BY <1>1, <1>2, <1>4, Finalized
  <1>6. st.code = code
    BY <1>5 DEF GRPCStatus, NormalizeCode
  <1> HIDE DEF st
  <1>7. UserServiceError(code) = <<link>>
    BY DEF UserServiceError, Received, st, app, e
  <1>8. link.kind = "status" /\ link.code = code
    BY <1>6
  <1> QED
    BY <1>7, <1>8

\* fetchUser passes the code of a status on; fetchAllUsers makes it Internal.
LEMMA FetchErrorFacts ==
    ASSUME NEW link, link.kind = "status", link.code # "OK"
    PROVE  FetchUserError(<<link>>) = link.code /\ FetchAllUsersError(<<link>>) = "Internal"
  <1> DEFINE chain == <<link>>
             base == FromError(chain)
             app == [kind |-> "app", error |-> Normalize(chain, <<>>)]
  <1>1. base.code = link.code
    <2> DEFINE st == [code |-> link.code, details |-> link.details, message |-> link.message]
    <2>1. base = FromStatus(st, chain) /\ st.code = link.code
      BY SingleStatus
    <2> HIDE DEF st, base
    <2> QED
      BY <2>1, FromStatusFacts DEF NormalizeCode
  <1>2. app.kind = "app" /\ app.error = base
    BY DEF Normalize
  <1> HIDE DEF base, app, chain
  <1>3. FromError(<<app>>) = base
    <2>1. FirstLink(<<app>>, "app") = 1 /\ <<app>>[1] = app
      BY <1>2, FirstLinkSingle
    <2> DEFINE one == <<app>>
    <2> HIDE DEF one
    <2>2. HasLink(one, "app") /\ AppOf(one) = base
      BY <1>2, <2>1 DEF HasLink, AppOf, one
    <2>3. FromError(one) = base
      BY <2>2 DEF FromError
    <2> QED
      BY <2>3 DEF one
  <1>4. FetchUserError(chain)
          = Wrap(chain, IF base.code = "OK" THEN "Internal" ELSE base.code, "internal", "public", <<>>).code
    BY <1>3 DEF FetchUserError, app
  <1>5. FetchUserError(chain) = link.code
    BY <1>1, <1>4, WrapFacts DEF PickCode, NormalizeCode
  <1>6. FetchAllUsersError(chain) = "Internal"
    BY WrapFacts DEF FetchAllUsersError, PickCode, NormalizeCode
  <1> QED
    BY <1>5, <1>6 DEF chain

\* What a search or a lookup is answered with when user-service cannot be asked.
LEMMA FetchCodes ==
    /\ FetchUserError(UserServiceError("NotFound")) = "NotFound"
    /\ \A chain \in {UserServiceError("Internal"), Unreachable} :
         /\ FetchUserError(chain) \in {"Internal", "Unavailable"}
         /\ FetchAllUsersError(chain) = "Internal"
  <1>1. FetchUserError(UserServiceError("NotFound")) = "NotFound"
    BY UserServiceErrorFacts, FetchErrorFacts
  <1>2. /\ FetchUserError(UserServiceError("Internal")) = "Internal"
        /\ FetchAllUsersError(UserServiceError("Internal")) = "Internal"
    BY UserServiceErrorFacts, FetchErrorFacts
  <1>3. FetchUserError(Unreachable) = "Unavailable" /\ FetchAllUsersError(Unreachable) = "Internal"
    <2> DEFINE link == [kind |-> "status", code |-> "Unavailable", message |-> "peer", details |-> {}]
    <2>1. Unreachable = <<link>> /\ link.kind = "status" /\ link.code = "Unavailable"
      BY DEF Unreachable
    <2> HIDE DEF link
    <2> QED
      BY <2>1, FetchErrorFacts
  <1> QED
    BY <1>1, <1>2, <1>3

-----------------------------------------------------------------------------
(* The invariant of calls and cache entries.                               *)

\* The table t is s after some time d: rows are only added, and new.
Grown(s, t, d) ==
    /\ Len(s) \in Nat /\ Len(t) \in Nat /\ Len(s) <= Len(t)
    /\ DOMAIN s = 1..Len(s) /\ DOMAIN t = 1..Len(t)
    /\ \A i \in DOMAIN s : /\ t[i].email = s[i].email /\ t[i].name = s[i].name
                           /\ t[i].age \in Nat /\ t[i].age <= s[i].age + d
    /\ \A i \in DOMAIN t : i \notin DOMAIN s => t[i].age = 0

\* The ages of the rows are numbers.
Ages(s) == \A i \in DOMAIN s : s[i].age \in Nat

\* The step a call is at belongs to a handler of its RPC.
Placed(k) ==
    /\ k.at \in {"create", "publish"} => k.rpc = "CreateUser"
    /\ k.at = "query" => k.rpc \in {"GetUser", "ListUsers"}
    /\ k.at \in {"lookup", "fetch", "fill"} =>
         k.want.service = "search" /\ k.rpc \in {"GetUser", "SearchUsers"}
    /\ k.at = "status" => k.rpc = "GetStatus"

\* What a call holds of the table.
Backed(s, k) ==
    /\ k.lag \in Nat /\ k.known \in 0..Len(s)
    /\ k.at = "publish" => k.id \in DOMAIN s /\ s[k.id].email = k.req.email
    /\ k.at = "fill" /\ k.rpc = "GetUser" =>
         k.req.id \in DOMAIN s /\ k.users = {Proto(s, k.req.id)}
    /\ k.at = "fill" /\ k.rpc = "SearchUsers" => Dated(s, k.users, k.lag)

\* A call under way.
Sound(s, k) == k.at # "idle" => Routed(k) /\ Placed(k) /\ Backed(s, k)

\* The cached list misses only rows inserted since its users were fetched: that was
\* lag before the SET, and the entry has been there for what is gone of its time to live.
ListEntry(s, e) ==
    /\ DOMAIN e = {"users", "left", "lag"}
    /\ e.left \in 1..TimeToLive /\ e.lag \in Nat
    /\ Dated(s, e.users, e.lag + (TimeToLive - e.left))

\* A cached user is a row of the table.
SingleEntry(s, e) ==
    /\ DOMAIN e = {"user", "left"}
    /\ \E i \in DOMAIN s : e.user = Proto(s, i)

\* The inductive invariant of the answers.
FreshInv ==
    /\ Ages(store)
    /\ \A c \in Callers : Sound(store, call[c])
    /\ \A e \in list : ListEntry(store, e)
    /\ \A e \in single : SingleEntry(store, e)

\* Rows keep what clients see of them.
LEMMA GrownProto ==
    ASSUME NEW s, NEW t, NEW d, Grown(s, t, d), NEW i \in DOMAIN s
    PROVE  Proto(t, i) = Proto(s, i) /\ i \in DOMAIN t
  <1>1. t[i].email = s[i].email /\ t[i].name = s[i].name
    BY DEF Grown
  <1>2. i \in DOMAIN t
    BY DEF Grown
  <1> QED
    BY <1>1, <1>2 DEF Proto

\* The ages of a later table are numbers.
LEMMA GrownAges ==
    ASSUME NEW s, NEW t, NEW d, Grown(s, t, d)
    PROVE  Ages(t)
  BY DEF Grown, Ages

\* Users that miss only rows of some age miss only rows of that age and the time since.
LEMMA GrownDated ==
    ASSUME NEW s, NEW t, NEW d \in Nat, Grown(s, t, d), Ages(s), NEW users, NEW b \in Nat,
           Dated(s, users, b), NEW later \in Nat, later >= b + d
    PROVE  Dated(t, users, later)
  <1>1. users \subseteq {Proto(t, i) : i \in DOMAIN t}
    <2> SUFFICES ASSUME NEW u \in users PROVE \E i \in DOMAIN t : u = Proto(t, i)
      BY Zenon
    <2>1. PICK i \in DOMAIN s : u = Proto(s, i)
      BY DEF Dated
    <2> QED
      BY <2>1, GrownProto
  <1>2. ASSUME NEW i \in DOMAIN t, Proto(t, i) \notin users PROVE t[i].age <= later
    <2>1. CASE i \in DOMAIN s
      <3>1. s[i].age <= b
        BY <1>2, <2>1, GrownProto DEF Dated
      <3>2. t[i].age \in Nat /\ t[i].age <= s[i].age + d /\ s[i].age \in Nat
        BY <2>1 DEF Grown, Ages
      <3> DEFINE x == t[i].age
                 y == s[i].age
      <3> HIDE DEF x, y
      <3>3. x <= later
        BY <3>1, <3>2 DEF x, y
      <3> QED
        BY <3>3 DEF x
    <2>2. CASE i \notin DOMAIN s
      <3>1. t[i].age = 0
        BY <2>2 DEF Grown
      <3> QED
        BY <3>1
    <2> QED
      BY <2>1, <2>2
  <1> QED
    BY <1>1, <1>2 DEF Dated

\* A call is as sound later as it was; the fetched list of a search gets older.
LEMMA GrownSound ==
    ASSUME NEW s, NEW t, NEW d \in Nat, Grown(s, t, d), Ages(s), NEW k, Sound(s, k), NEW l,
           \A f \in {"at", "want", "version", "rpc", "req", "id", "users", "known"} : l[f] = k[f],
           k.at # "idle" => l.lag \in Nat,
           k.at = "fill" /\ k.rpc = "SearchUsers" => l.lag >= k.lag + d
    PROVE  Sound(t, l)
  <1> SUFFICES ASSUME l.at # "idle" PROVE Routed(l) /\ Placed(l) /\ Backed(t, l)
    BY DEF Sound
  <1>1. /\ l.at = k.at /\ l.want = k.want /\ l.version = k.version /\ l.rpc = k.rpc
        /\ l.req = k.req /\ l.id = k.id /\ l.users = k.users /\ l.known = k.known
    OBVIOUS
  <1>2. Routed(k) /\ Placed(k) /\ Backed(s, k) /\ l.lag \in Nat
    BY <1>1 DEF Sound
  <1>3. Routed(l)
    BY <1>1, <1>2, Zenon DEF Routed
  <1>4. Placed(l)
    BY <1>1, <1>2, Zenon DEF Placed
  <1>5. l.known \in 0..Len(t)
    BY <1>1, <1>2 DEF Backed, Grown
  <1>6. l.at = "publish" => l.id \in DOMAIN t /\ t[l.id].email = l.req.email
    BY <1>1, <1>2 DEF Backed, Grown
  <1>7. l.at = "fill" /\ l.rpc = "GetUser" =>
          l.req.id \in DOMAIN t /\ l.users = {Proto(t, l.req.id)}
    BY <1>1, <1>2, GrownProto DEF Backed
  <1>8. l.at = "fill" /\ l.rpc = "SearchUsers" => Dated(t, l.users, l.lag)
    BY <1>1, <1>2, GrownDated DEF Backed
  <1> QED
    BY <1>2, <1>3, <1>4, <1>5, <1>6, <1>7, <1>8 DEF Backed

\* Without time passing, calls and cache entries stay as sound as they were.
LEMMA GrownStays ==
    ASSUME NEW s, NEW t, Grown(s, t, 0), Ages(s)
    PROVE  /\ \A k : Sound(s, k) => Sound(t, k)
           /\ \A e : ListEntry(s, e) => ListEntry(t, e)
           /\ \A e : SingleEntry(s, e) => SingleEntry(t, e)
  <1>1. ASSUME NEW k, Sound(s, k) PROVE Sound(t, k)
    <2>1. k.at # "idle" => k.lag \in Nat
      BY <1>1 DEF Sound, Backed
    <2>2. k.at = "fill" => k.lag >= k.lag + 0
      BY <2>1
    <2> QED
      BY <1>1, <2>1, <2>2, GrownSound
  <1>2. ASSUME NEW e, ListEntry(s, e) PROVE ListEntry(t, e)
    <2> DEFINE b == e.lag + (TimeToLive - e.left)
    <2>1. TimeToLive \in Nat
      BY PlatformAssumption DEF TimeToLive
    <2>2. b \in Nat /\ b >= b + 0
      BY <1>2, <2>1 DEF ListEntry
    <2>3. Dated(s, e.users, b)
      BY <1>2 DEF ListEntry
    <2> HIDE DEF b
    <2>4. Dated(t, e.users, b)
      BY <2>2, <2>3, GrownDated
    <2> QED
      BY <1>2, <2>4 DEF ListEntry, b
  <1>3. ASSUME NEW e, SingleEntry(s, e) PROVE SingleEntry(t, e)
    BY <1>3, GrownProto DEF SingleEntry
  <1> QED
    BY <1>1, <1>2, <1>3

\* The table is a sequence and its own successor.
LEMMA SameStore ==
    ASSUME IInv, FreshInv
    PROVE  Grown(store, store, 0) /\ Len(store) \in Nat /\ DOMAIN store = 1..Len(store)
  <1>1. Len(store) \in Nat /\ DOMAIN store = 1..Len(store)
    BY SeqFacts DEF IInv, Shape
  <1>2. \A i \in DOMAIN store : store[i].age \in Nat
    BY DEF FreshInv, Ages
  <1>3. \A n \in Nat : n <= n + 0 /\ n <= n
    OBVIOUS
  <1> QED
    BY <1>1, <1>2, <1>3, Zenon DEF Grown

\* A call moves while the table grows.
LEMMA CallMoves ==
    ASSUME IInv, FreshInv, NEW c \in Callers, NEW k, call' = [call EXCEPT ![c] = k],
           Grown(store, store', 0), Sound(store', k),
           \A e \in list' : e \in list \/ ListEntry(store', e),
           \A e \in single' : e \in single \/ SingleEntry(store', e)
    PROVE  FreshInv'
  <1>1. DOMAIN call = Callers
    BY DEF IInv, Shape
  <1>2. Ages(store')
    BY GrownAges
  <1>3. \A d \in Callers : Sound(store', call'[d])
    BY <1>1, GrownStays DEF FreshInv
  <1>4. \A e \in list' : ListEntry(store', e)
    BY GrownStays DEF FreshInv
  <1>5. \A e \in single' : SingleEntry(store', e)
    BY GrownStays DEF FreshInv
  <1> QED
    BY <1>2, <1>3, <1>4, <1>5 DEF FreshInv

\* Nothing is told.
LEMMA NoAnswerIsFresh ==
    ASSUME answer' = NoAnswer PROVE AnswersAreFresh'
  <1>1. NoAnswer.code = ""
    BY DEF NoAnswer
  <1> QED
    BY <1>1, FreshOther, FreshNext

\* A call ends.
LEMMA CallEnds ==
    ASSUME IInv, FreshInv, NEW c \in Callers, NEW code, NEW users, Answer(c, code, users),
           Grown(store, store', 0), FreshIn(store', AnswerTo(call[c], code, users)),
           \A e \in list' : e \in list \/ ListEntry(store', e),
           \A e \in single' : e \in single \/ SingleEntry(store', e)
    PROVE  FreshInv' /\ AnswersAreFresh'
  <1>1. call' = [call EXCEPT ![c] = Idle] /\ answer' = AnswerTo(call[c], code, users)
    BY DEF Answer
  <1>2. Sound(store', Idle)
    BY IdleCall DEF Sound
  <1>3. FreshInv'
    BY <1>1, <1>2, CallMoves
  <1>4. AnswersAreFresh'
    BY <1>1, FreshNext
  <1> QED
    BY <1>3, <1>4

\* A call ends with an error.
LEMMA CallFails ==
    ASSUME IInv, FreshInv, NEW c \in Callers, NEW code, Answer(c, code, {}),
           code \notin {"OK", "NotFound"}, Grown(store, store', 0), UNCHANGED redis
    PROVE  FreshInv' /\ AnswersAreFresh'
  <1>1. FreshIn(store', AnswerTo(call[c], code, {}))
    BY AnswerFields, FreshOther
  <1> QED
    BY <1>1, CallEnds DEF redis

\* A call ends and leaves table and cache alone.
LEMMA CallAnswers ==
    ASSUME IInv, FreshInv, NEW c \in Callers, NEW code, NEW users, Answer(c, code, users),
           UNCHANGED <<store, redis>>, FreshIn(store, AnswerTo(call[c], code, users))
    PROVE  FreshInv' /\ AnswersAreFresh'
  <1>1. store' = store
    OBVIOUS
  <1>2. Grown(store, store', 0) /\ FreshIn(store', AnswerTo(call[c], code, users))
    BY <1>1, SameStore
  <1> QED
    BY <1>2, CallEnds DEF redis

\* A call is refused by the router, or starts at the handler it asks for.
LEMMA BeginFresh ==
    ASSUME IInv, FreshInv, NEW c \in Callers, NEW want \in Requests, NEW routed,
           Begin(c, want, routed),
           routed = RestCall(want.service, Http(want))
             \/ routed = Invoke(want.service, want.version, want.rpc, want.req)
    PROVE  FreshInv' /\ AnswersAreFresh'
  <1>1. store' = store /\ list' = list /\ single' = single
    BY DEF Begin, redis
  <1>2. CASE routed.code # "OK"
    <2>1. call' = call /\ answer' = [NoAnswer EXCEPT !.want = want, !.code = routed.code]
      BY <1>2 DEF Begin
    <2>2. answer'.known = 0 /\ answer'.code = routed.code
      BY <2>1 DEF NoAnswer
    <2>3. FreshIn(store', answer')
      <3>1. 1..answer'.known = {}
        BY <2>2
      <3> QED
        BY <1>2, <2>2, <3>1, Zenon DEF FreshIn
    <2> QED
      BY <1>1, <2>1, <2>3, FreshNext DEF FreshInv
  <1>3. CASE routed.code = "OK"
    <2> DEFINE req == ToHub(want.service, routed.version, routed.req)
               at == Entry(want.service, routed.rpc)
               known == IF routed.rpc \in {"GetUser", "ListUsers"} THEN Len(store) ELSE 0
               k == [Idle EXCEPT !.at = at, !.want = want, !.version = routed.version,
                       !.rpc = routed.rpc, !.req = req, !.known = known]
    <2>1. call' = [call EXCEPT ![c] = k] /\ answer' = NoAnswer
      BY <1>3 DEF Begin
    <2>2. /\ routed.rpc = want.rpc /\ routed.version = want.version
          /\ want.rpc \in Registered[want.service][want.version]
          /\ SameRequest(want.rpc, req, want.req)
      BY <1>3, RoutedFacts
    <2>3. want.service \in {"user", "search", "notification"} /\ want.version \in {"v1", "hub"}
      BY PlatformAssumption
    <2>4. /\ want.service = "user" => want.rpc \in {"GetUser", "ListUsers", "CreateUser"}
          /\ want.service = "search" => want.rpc \in {"GetUser", "SearchUsers"}
          /\ want.service = "notification" => want.rpc = "GetStatus"
      BY <2>2, <2>3, RegisteredFacts
    <2>5. /\ at \in {"create", "status", "query", "lookup"}
          /\ at = "create" => want.rpc = "CreateUser"
          /\ at = "status" => want.rpc = "GetStatus"
          /\ at = "query" => want.rpc \in {"GetUser", "ListUsers"}
          /\ at = "lookup" => want.service = "search" /\ want.rpc \in {"GetUser", "SearchUsers"}
      BY <2>2, <2>3, <2>4 DEF Entry
    <2>6. known \in 0..Len(store)
      BY SameStore
    <2> HIDE DEF req, at, known
    <2>7. /\ k.at = at /\ k.want = want /\ k.version = routed.version /\ k.rpc = routed.rpc
          /\ k.req = req /\ k.known = known /\ k.lag = 0
      BY DEF Idle
    <2> HIDE DEF k
    <2>8. Routed(k)
      BY <2>2, <2>7 DEF Routed
    <2>9. Placed(k)
      BY <2>2, <2>5, <2>7 DEF Placed
    <2>10. Backed(store, k)
      BY <2>5, <2>6, <2>7 DEF Backed
    <2>11. Sound(store', k) /\ Grown(store, store', 0)
      BY <1>1, <2>8, <2>9, <2>10, SameStore DEF Sound
    <2> QED
      BY <1>1, <2>1, <2>11, CallMoves, NoAnswerIsFresh
  <1> QED
    BY <1>2, <1>3

\* An INSERT.
LEMMA InsertGrows ==
    ASSUME IInv, FreshInv, NEW req, NEW told, store' = Append(store, Row(req, told))
    PROVE  /\ Grown(store, store', 0) /\ Len(store) + 1 \in DOMAIN store'
           /\ store'[Len(store) + 1].email = req.email
  <1>1. /\ IsSeq(store') /\ Len(store') = Len(store) + 1
        /\ DOMAIN store' = 1..(Len(store) + 1)
        /\ \A i \in DOMAIN store : store'[i] = store[i]
        /\ store'[Len(store) + 1] = Row(req, told)
    BY AppendSeq DEF IInv, Shape
  <1>2. Row(req, told).age = 0 /\ Row(req, told).email = req.email
    BY DEF Row
  <1>3. Len(store) \in Nat /\ DOMAIN store = 1..Len(store)
    BY SameStore
  <1>4. \A i \in DOMAIN store : store[i].age \in Nat
    BY DEF FreshInv, Ages
  <1>5. \A i \in DOMAIN store' : i \notin DOMAIN store => i = Len(store) + 1
    BY <1>1, <1>3
  <1>6. Len(store') \in Nat /\ Len(store) <= Len(store') /\ DOMAIN store' = 1..Len(store')
    BY <1>1, <1>3
  <1>7. \A n \in Nat : n <= n + 0
    OBVIOUS
  <1>8. \A i \in DOMAIN store' : i \notin DOMAIN store => store'[i].age = 0
    BY <1>1, <1>2, <1>5
  <1>9. \A i \in DOMAIN store :
          /\ store'[i].email = store[i].email /\ store'[i].name = store[i].name
          /\ store'[i].age \in Nat /\ store'[i].age <= store[i].age + 0
    BY <1>1, <1>4, <1>7, Zenon
  <1>10. Grown(store, store', 0)
    BY <1>3, <1>6, <1>8, <1>9 DEF Grown
  <1>11. Len(store) + 1 \in DOMAIN store'
    BY <1>1, <1>3
  <1> QED
    BY <1>1, <1>2, <1>10, <1>11

\* A history variable of a row changes.
LEMMA ToldGrows ==
    ASSUME IInv, FreshInv, IsSeq(store'), DOMAIN store' = DOMAIN store,
           \A i \in DOMAIN store : \E told :
             store'[i] = store[i] \/ store'[i] = [store[i] EXCEPT !.told = told]
    PROVE  Grown(store, store', 0)
  <1>1. \A i \in DOMAIN store : /\ store'[i].email = store[i].email
                                /\ store'[i].name = store[i].name
                                /\ store'[i].age = store[i].age
    BY DEF IInv, Shape, Stored, RowFields
  <1>2. Len(store) \in Nat /\ DOMAIN store = 1..Len(store)
    BY SameStore
  <1>3. Len(store') \in Nat /\ DOMAIN store' = 1..Len(store')
    BY SeqFacts
  <1>4. Len(store') = Len(store)
    BY <1>2, <1>3
  <1>5. \A i \in DOMAIN store : store[i].age \in Nat
    BY DEF FreshInv, Ages
  <1>6. \A n \in Nat : n <= n + 0 /\ n <= n
    OBVIOUS
  <1>7. \A i \in DOMAIN store : store'[i].age \in Nat /\ store'[i].age <= store[i].age + 0
    BY <1>1, <1>5, <1>6, Zenon
  <1> QED
    BY <1>1, <1>2, <1>3, <1>4, <1>6, <1>7, Zenon DEF Grown

-----------------------------------------------------------------------------
(* The steps of the services.                                              *)

\* The calls of a state that satisfies the invariant.
LEMMA CallFacts ==
    ASSUME IInv, FreshInv, NEW c \in Callers, call[c].at # "idle"
    PROVE  /\ Routed(call[c]) /\ Placed(call[c]) /\ Backed(store, call[c])
           /\ DOMAIN call[c] = CallFields /\ DOMAIN call = Callers
  BY DEF FreshInv, Sound, IInv, Shape

\* Proto is toProto, for the table as it is.
LEMMA ToProtoIsProto == \A i : ToProto(i) = Proto(store, i)
  BY DEF ToProto, Proto

\* CreateUser of user-service.
LEMMA CreateFresh ==
    ASSUME IInv, FreshInv, NEW c \in Callers,
           \/ RejectCreate(c) \/ Insert(c) \/ InsertFails(c)
           \/ Attempt(c) \/ Publish(c) \/ PublishFails(c)
    PROVE  FreshInv' /\ AnswersAreFresh'
  <1>1. CASE RejectCreate(c)
    <2>1. store' = store
      BY <1>1 DEF RejectCreate
    <2>2. Grown(store, store', 0)
      BY <2>1, SameStore
    <2> QED
      BY <1>1, <2>2, CallFails DEF RejectCreate
  <1>2. CASE Insert(c)
    <2> DEFINE n == Len(store) + 1
               k == [call[c] EXCEPT !.at = "publish", !.id = n, !.tries = 0, !.landed = FALSE]
    <2>1. /\ call[c].at = "create" /\ call' = [call EXCEPT ![c] = k] /\ answer' = NoAnswer
          /\ list' = list /\ single' = single
      BY <1>2 DEF Insert, redis
    <2>2. /\ Routed(call[c]) /\ Placed(call[c]) /\ Backed(store, call[c])
          /\ DOMAIN call[c] = CallFields
      BY <2>1, CallFacts
    <2>3. /\ Grown(store, store', 0) /\ n \in DOMAIN store'
          /\ store'[n].email = call[c].req.email
      BY <1>2, InsertGrows DEF Insert
    <2> HIDE DEF n
    <2>4. /\ k.at = "publish" /\ k.id = n /\ k.want = call[c].want /\ k.version = call[c].version
          /\ k.rpc = call[c].rpc /\ k.req = call[c].req /\ k.lag = call[c].lag
          /\ k.known = call[c].known
      BY <2>2 DEF CallFields
    <2> HIDE DEF k
    <2>5. Routed(k)
      BY <2>2, <2>4, Zenon DEF Routed
    <2>6. Placed(k)
      BY <2>1, <2>2, <2>4 DEF Placed
    <2>7. k.known \in 0..Len(store')
      BY <2>2, <2>3, <2>4 DEF Backed, Grown
    <2>8. Backed(store', k)
      BY <2>2, <2>3, <2>4, <2>7 DEF Backed
    <2>9. Sound(store', k)
      BY <2>5, <2>6, <2>8 DEF Sound
    <2> QED
      BY <2>1, <2>3, <2>9, CallMoves, NoAnswerIsFresh
  <1>3. CASE InsertFails(c)
    <2>1. Grown(store, store', 0)
      BY <1>3, SameStore, InsertGrows DEF InsertFails
    <2> QED
      BY <1>3, <2>1, CallFails DEF InsertFails
  <1>4. CASE Publish(c) \/ PublishFails(c)
    <2> DEFINE n == call[c].id
    <2>1. call[c].at = "publish" /\ UNCHANGED redis /\ call' = [call EXCEPT ![c] = Idle]
      BY <1>4 DEF Publish, PublishFails, Answer
    <2>2. PICK told : store' = [store EXCEPT ![n].told = told]
      BY <1>4 DEF Publish, PublishFails, Told
    <2>3. IsSeq(store') /\ DOMAIN store' = DOMAIN store
      BY <2>1, <2>2, Published DEF Stored
    <2>4. Grown(store, store', 0)
      BY <2>2, <2>3, ToldGrows
    <2>5. /\ Routed(call[c]) /\ Placed(call[c]) /\ Backed(store, call[c])
      BY <2>1, CallFacts
    <2>6. n \in DOMAIN store /\ store[n].email = call[c].req.email /\ call[c].rpc = "CreateUser"
      BY <2>1, <2>5 DEF Backed, Placed
    <2>7. CASE Publish(c)
      <3>1. Answer(c, "OK", {Proto(store', n)})
        <4>1. Answer(c, "OK", {ToProto(n)})
          BY <2>7 DEF Publish
        <4>2. ToProto(n) = Proto(store', n)
          BY <2>4, <2>6, ToProtoIsProto, GrownProto
        <4> QED
          BY <4>1, <4>2
      <3>2. n \in DOMAIN store' /\ store'[n].email = call[c].req.email
        BY <2>4, <2>6 DEF Grown
      <3>3. FreshIn(store', AnswerTo(call[c], "OK", {Proto(store', n)}))
        BY <2>5, <2>6, <3>2, FreshCreate
      <3> HIDE DEF n
      <3> QED
        BY <2>1, <2>4, <3>1, <3>3, CallEnds DEF redis
    <2>8. CASE PublishFails(c)
      BY <2>1, <2>4, <2>8, CallFails DEF PublishFails
    <2> QED
      BY <1>4, <2>7, <2>8
  <1>5. CASE Attempt(c)
    <2>1. PICK landed : call' = [call EXCEPT ![c].tries = @ + 1, ![c].landed = landed]
      BY <1>5 DEF Attempt
    <2>2. /\ call[c].at = "publish" /\ answer' = NoAnswer
          /\ store' = store /\ list' = list /\ single' = single
      BY <1>5 DEF Attempt, redis
    <2> DEFINE k == [call[c] EXCEPT !.tries = @ + 1, !.landed = landed]
    <2>3. call' = [call EXCEPT ![c] = k]
      BY <2>1
    <2>4. Sound(store, call[c]) /\ DOMAIN call[c] = CallFields
      BY DEF FreshInv, IInv, Shape
    <2>5. Grown(store, store', 0) /\ Ages(store)
      BY <2>2, SameStore DEF FreshInv
    <2>6. /\ \A f \in {"at", "want", "version", "rpc", "req", "id", "users", "known"} : k[f] = call[c][f]
          /\ k.lag = call[c].lag
      BY <2>4 DEF CallFields
    <2>7. call[c].at # "idle" => k.lag \in Nat
      BY <2>4, <2>6 DEF Sound, Backed
    <2>8. call[c].at # "fill"
      BY <2>2
    <2> HIDE DEF k
    <2>9. Sound(store', k)
      BY <2>4, <2>5, <2>6, <2>7, <2>8, GrownSound
    <2> QED
      BY <2>2, <2>3, <2>5, <2>9, CallMoves, NoAnswerIsFresh
  <1> QED
    BY <1>1, <1>2, <1>3, <1>4, <1>5

\* GetUser and ListUsers of user-service, and GetStatus of notification-service.
LEMMA QueryFresh ==
    ASSUME IInv, FreshInv, NEW c \in Callers, Query(c) \/ QueryFails(c) \/ Status(c)
    PROVE  FreshInv' /\ AnswersAreFresh'
  <1>1. UNCHANGED <<store, redis>> /\ call[c].at \in {"query", "status"}
    BY DEF Query, QueryFails, Status
  <1>2. Routed(call[c]) /\ Placed(call[c]) /\ Backed(store, call[c])
    BY <1>1, CallFacts
  <1>3. Len(store) \in Nat /\ DOMAIN store = 1..Len(store) /\ call[c].known \in 0..Len(store)
    BY <1>2, SameStore DEF Backed
  <1>4. CASE Query(c)
    <2>1. call[c].rpc \in {"GetUser", "ListUsers"}
      BY <1>2, <1>4 DEF Placed, Query
    <2>2. CASE call[c].rpc = "ListUsers"
      <3>1. Answer(c, "OK", {Proto(store, i) : i \in DOMAIN store})
        BY <1>4, <2>2, ToProtoIsProto, Zenon DEF Query, Stored
      <3>2. FreshIn(store, AnswerTo(call[c], "OK", {Proto(store, i) : i \in DOMAIN store}))
        BY <1>2, <1>3, <2>2, FreshList
      <3> DEFINE users == {Proto(store, i) : i \in DOMAIN store}
      <3> HIDE DEF users
      <3> QED
        BY <1>1, <3>1, <3>2, CallAnswers DEF users
    <2>3. CASE call[c].rpc = "GetUser" /\ call[c].req.id \in Stored
      <3>1. Answer(c, "OK", {Proto(store, call[c].req.id)})
        BY <1>4, <2>3, ToProtoIsProto DEF Query
      <3>2. FreshIn(store, AnswerTo(call[c], "OK", {Proto(store, call[c].req.id)}))
        BY <1>2, <2>3, FreshGet DEF Stored
      <3> QED
        BY <1>1, <3>1, <3>2, CallAnswers
    <2>4. CASE call[c].rpc = "GetUser" /\ call[c].req.id \notin Stored
      <3>1. Answer(c, "NotFound", {})
        BY <1>4, <2>4 DEF Query
      <3>2. FreshIn(store, AnswerTo(call[c], "NotFound", {}))
        BY <1>2, <1>3, <2>4, FreshNotFound DEF Stored
      <3> QED
        BY <1>1, <3>1, <3>2, CallAnswers
    <2> QED
      BY <2>1, <2>2, <2>3, <2>4
  <1>5. CASE QueryFails(c)
    <2>1. Grown(store, store', 0)
      BY <1>1, SameStore
    <2> QED
      BY <1>1, <1>5, <2>1, CallFails DEF QueryFails
  <1>6. CASE Status(c)
    <2>1. call[c].rpc = "GetStatus" /\ Answer(c, "OK", {})
      BY <1>2, <1>6 DEF Placed, Status
    <2>2. FreshIn(store, AnswerTo(call[c], "OK", {}))
      BY <1>2, <2>1, FreshStatus
    <2> QED
      BY <1>1, <2>1, <2>2, CallAnswers
  <1> QED
    BY <1>4, <1>5, <1>6

\* NewRepository never takes over a time to live of zero.
LEMMA TTLFacts == TimeToLive \in Nat /\ TimeToLive >= 1 /\ CacheTTL = TimeToLive
  BY PlatformAssumption DEF TimeToLive, CacheTTL

\* Reading the cache.
LEMMA CachedFresh ==
    ASSUME IInv, FreshInv, NEW c \in Callers, RejectGet(c) \/ GetCached(c) \/ SearchCached(c)
    PROVE  FreshInv' /\ AnswersAreFresh'
  <1>1. UNCHANGED <<store, redis>> /\ call[c].at = "lookup"
    BY DEF RejectGet, GetCached, SearchCached
  <1>2. Routed(call[c]) /\ Placed(call[c]) /\ Backed(store, call[c])
    BY <1>1, CallFacts
  <1>3. store' = store /\ Grown(store, store', 0)
    BY <1>1, SameStore
  <1>4. CASE RejectGet(c)
    BY <1>1, <1>3, <1>4, CallFails DEF RejectGet
  <1>5. CASE GetCached(c)
    <2>1. PICK e \in single : e.user.id = call[c].req.id /\ Answer(c, "OK", {e.user})
      BY <1>5 DEF GetCached
    <2>2. PICK i \in DOMAIN store : e.user = Proto(store, i)
      BY DEF FreshInv, SingleEntry
    <2>3. i = call[c].req.id
      BY <2>1, <2>2 DEF Proto
    <2>4. FreshIn(store, AnswerTo(call[c], "OK", {Proto(store, call[c].req.id)}))
      BY <1>2, <1>5, <2>3, FreshGet DEF GetCached
    <2> QED
      BY <1>1, <2>1, <2>2, <2>3, <2>4, CallAnswers
  <1>6. CASE SearchCached(c)
    <2> DEFINE Shows(e) == FilterUsers(e.users, call[c].req.query)
    <2>1. PICK e \in list :
            /\ answer' = [AnswerTo(call[c], "OK", Shows(e)) EXCEPT !.lag = e.lag]
            /\ call' = [call EXCEPT ![c] = Idle]
      BY <1>6 DEF SearchCached
    <2>2. /\ e.left \in 1..TimeToLive /\ e.lag \in Nat
          /\ Dated(store, e.users, e.lag + (TimeToLive - e.left))
      BY DEF FreshInv, ListEntry
    <2> DEFINE bound == e.lag + (TimeToLive - e.left)
    <2>3. bound \in Nat /\ bound < TimeToLive + e.lag
      BY <2>2, TTLFacts
    <2> HIDE DEF bound
    <2>4. /\ answer'.want = call[c].want /\ answer'.code = "OK" /\ answer'.lag = e.lag
          /\ answer'.users = FromHub(call[c].want.service, call[c].version, Shows(e))
      BY <2>1 DEF AnswerTo
    <2>5. call[c].rpc = "SearchUsers" /\ call[c].want.service = "search"
      BY <1>1, <1>2, <1>6 DEF SearchCached, Placed
    <2>6. \A i \in DOMAIN store : store[i].age \in Nat
      BY DEF FreshInv, Ages
    <2>7. FreshIn(store, answer')
      BY <1>2, <2>2, <2>3, <2>4, <2>5, <2>6, FreshSearch DEF bound
    <2>8. Sound(store', Idle)
      BY IdleCall DEF Sound
    <2> QED
      BY <1>1, <1>3, <2>1, <2>7, <2>8, CallMoves, FreshNext DEF redis
  <1> QED
    BY <1>4, <1>5, <1>6

\* Asking user-service.
LEMMA FetchFresh ==
    ASSUME IInv, FreshInv, NEW c \in Callers, Miss(c) \/ Fetch(c) \/ FetchFails(c)
    PROVE  FreshInv' /\ AnswersAreFresh'
  <1>1. /\ UNCHANGED <<store, redis>> /\ call[c].at \in {"lookup", "fetch"}
    BY DEF Miss, Fetch, FetchFails
  <1>2. /\ Routed(call[c]) /\ Placed(call[c]) /\ Backed(store, call[c])
        /\ DOMAIN call[c] = CallFields
    BY <1>1, CallFacts
  <1>3. store' = store /\ list' = list /\ single' = single /\ Grown(store, store', 0)
    BY <1>1, SameStore DEF redis
  <1>4. call[c].rpc \in {"GetUser", "SearchUsers"}
    BY <1>1, <1>2 DEF Placed
  <1>5. ASSUME NEW at \in {"fetch", "fill"}, NEW users,
               call' = [call EXCEPT ![c] = [call[c] EXCEPT !.at = at, !.users = users]],
               answer' = NoAnswer,
               at = "fill" /\ call[c].rpc = "GetUser" =>
                 call[c].req.id \in DOMAIN store /\ users = {Proto(store, call[c].req.id)},
               at = "fill" /\ call[c].rpc = "SearchUsers" => Dated(store, users, call[c].lag)
        PROVE  FreshInv' /\ AnswersAreFresh'
    <2> DEFINE k == [call[c] EXCEPT !.at = at, !.users = users]
    <2>1. /\ k.at = at /\ k.users = users /\ k.want = call[c].want /\ k.version = call[c].version
          /\ k.rpc = call[c].rpc /\ k.req = call[c].req /\ k.lag = call[c].lag
          /\ k.known = call[c].known
      BY <1>2 DEF CallFields
    <2> HIDE DEF k
    <2>2. Routed(k)
      BY <1>2, <2>1, Zenon DEF Routed
    <2>3. Placed(k)
      BY <1>1, <1>2, <1>5, <2>1 DEF Placed
    <2>4. Backed(store', k)
      BY <1>2, <1>3, <1>5, <2>1 DEF Backed
    <2>5. Sound(store', k)
      BY <2>2, <2>3, <2>4 DEF Sound
    <2> QED
      BY <1>3, <1>5, <2>5, CallMoves, NoAnswerIsFresh DEF k
  <1>6. CASE Miss(c)
    <2>1. call' = [call EXCEPT ![c] = [call[c] EXCEPT !.at = "fetch", !.users = call[c].users]]
      <3>1. call' = [call EXCEPT ![c] = [call[c] EXCEPT !.at = "fetch"]]
        BY <1>6 DEF Miss, Goto
      <3>2. [call[c] EXCEPT !.at = "fetch"] = [call[c] EXCEPT !.at = "fetch", !.users = call[c].users]
        BY <1>2 DEF CallFields
      <3> QED
        BY <3>1, <3>2, Zenon
    <2> QED
      BY <1>5, <1>6, <2>1 DEF Miss
  <1>7. CASE Fetch(c)
    <2> DEFINE all == {ToProto(i) : i \in Stored}
    <2>1. CASE call[c].rpc = "SearchUsers"
      <3>1. /\ call' = [call EXCEPT ![c] = [call[c] EXCEPT !.at = "fill", !.users = all]]
            /\ answer' = NoAnswer
        BY <1>7, <2>1 DEF Fetch
      <3>2. all = {Proto(store, i) : i \in DOMAIN store}
        BY ToProtoIsProto, Zenon DEF Stored
      <3>3. Dated(store, all, call[c].lag)
        <4>1. \A i \in DOMAIN store : Proto(store, i) \in all
          BY <3>2, Zenon
        <4> QED
          BY <3>2, <4>1, Zenon DEF Dated
      <3> HIDE DEF all
      <3> QED
        BY <1>5, <2>1, <3>1, <3>3
    <2>2. CASE call[c].rpc = "GetUser" /\ call[c].req.id \in Stored
      <3> DEFINE users == {ToProto(call[c].req.id)}
      <3>1. /\ call' = [call EXCEPT ![c] = [call[c] EXCEPT !.at = "fill", !.users = users]]
            /\ answer' = NoAnswer
        BY <1>7, <2>2 DEF Fetch
      <3>2. users = {Proto(store, call[c].req.id)}
        BY ToProtoIsProto
      <3> HIDE DEF users
      <3> QED
        BY <1>5, <2>2, <3>1, <3>2 DEF Stored
    <2>3. CASE call[c].rpc = "GetUser" /\ call[c].req.id \notin Stored
      <3>1. Answer(c, "NotFound", {})
        BY <1>7, <2>3, FetchCodes DEF Fetch
      <3>2. Len(store) \in Nat /\ DOMAIN store = 1..Len(store) /\ call[c].known \in 0..Len(store)
        BY <1>2, SameStore DEF Backed
      <3>3. FreshIn(store, AnswerTo(call[c], "NotFound", {}))
        BY <1>2, <2>3, <3>2, FreshNotFound DEF Stored
      <3> QED
        BY <1>1, <3>1, <3>3, CallAnswers
    <2> QED
      BY <1>4, <2>1, <2>2, <2>3
  <1>8. CASE FetchFails(c)
    <2>1. \E code \in {"Internal", "Unavailable"} : Answer(c, code, {})
      BY <1>8, FetchCodes DEF FetchFails
    <2> QED
      BY <1>1, <1>3, <2>1, CallFails
  <1> QED
    BY <1>6, <1>7, <1>8

\* Answering a call whose users were fetched, and caching them.
LEMMA FillFresh ==
    ASSUME IInv, FreshInv, NEW c \in Callers, FillUser(c) \/ FillList(c) \/ NoFill(c)
    PROVE  FreshInv' /\ AnswersAreFresh'
  <1> DEFINE k == call[c]
             shown == IF k.rpc = "SearchUsers" THEN FilterUsers(k.users, k.req.query) ELSE k.users
  <1>1. store' = store /\ k.at = "fill" /\ Answer(c, "OK", shown)
    BY DEF FillUser, FillList, NoFill, Fetched
  <1>2. Routed(k) /\ Placed(k) /\ Backed(store, k)
    BY <1>1, CallFacts
  <1>3. store' = store /\ Grown(store, store', 0)
    BY <1>1, SameStore
  <1>4. k.rpc \in {"GetUser", "SearchUsers"} /\ k.want.service = "search" /\ k.lag \in Nat
    BY <1>1, <1>2 DEF Placed, Backed
  <1>5. \A u \in k.users : \E i \in DOMAIN store : u = Proto(store, i)
    BY <1>1, <1>2, <1>4 DEF Backed, Dated
  <1>6. FreshIn(store, AnswerTo(k, "OK", shown))
    <2>1. CASE k.rpc = "GetUser"
      <3>1. shown = {Proto(store, k.req.id)} /\ k.req.id \in DOMAIN store
        BY <1>1, <1>2, <2>1 DEF Backed
      <3> HIDE DEF k, shown
      <3> QED
        BY <1>2, <2>1, <3>1, FreshGet
    <2>2. CASE k.rpc = "SearchUsers"
      <3> DEFINE a == AnswerTo(k, "OK", shown)
      <3>1. shown = FilterUsers(k.users, k.req.query) /\ Dated(store, k.users, k.lag)
        BY <1>1, <1>2, <2>2 DEF Backed
      <3>2. \A i \in DOMAIN store : store[i].age \in Nat
        BY DEF FreshInv, Ages
      <3>3. k.lag < TimeToLive + k.lag
        BY <1>4, TTLFacts
      <3>4. /\ a.want = k.want /\ a.code = "OK" /\ a.lag = k.lag
            /\ a.users = FromHub(k.want.service, k.version, shown)
        BY AnswerFields
      <3> HIDE DEF k, shown, a
      <3>5. FreshIn(store, a)
        BY <1>2, <1>4, <2>2, <3>1, <3>2, <3>3, <3>4, FreshSearch
      <3> QED
        BY <3>5 DEF a
    <2> QED
      BY <1>4, <2>1, <2>2
  <1>7. ASSUME NEW users \in SUBSET k.users, CacheEach(users)
        PROVE  \A e \in single' : e \in single \/ SingleEntry(store', e)
    <2> SUFFICES ASSUME NEW e \in single', e \notin single PROVE SingleEntry(store, e)
      BY <1>3
    <2>1. PICK u \in users : e = [user |-> u, left |-> CacheTTL]
      BY <1>7 DEF CacheEach
    <2>2. DOMAIN e = {"user", "left"} /\ e.user = u
      BY <2>1
    <2> QED
      BY <1>5, <2>2 DEF SingleEntry
  <1>8. \A e \in single' : e \in single \/ SingleEntry(store', e)
    <2>1. \/ \E users \in SUBSET k.users : CacheEach(users)
          \/ single' = single
      BY DEF FillUser, FillList, NoFill, redis
    <2> QED
      BY <1>7, <2>1
  <1>9. \A e \in list' : e \in list \/ ListEntry(store', e)
    <2> DEFINE new == [users |-> k.users, left |-> CacheTTL, lag |-> k.lag]
    <2>1. \/ list' = list
          \/ k.rpc = "SearchUsers" /\ list' = {new}
      BY DEF FillUser, FillList, NoFill, redis
    <2>2. DOMAIN new = {"users", "left", "lag"} /\ new.users = k.users /\ new.lag = k.lag
          /\ new.left = TimeToLive
      BY TTLFacts
    <2> HIDE DEF new
    <2>3. ASSUME k.rpc = "SearchUsers" PROVE ListEntry(store', new)
      <3>1. Dated(store', k.users, k.lag)
        BY <1>1, <1>2, <1>3, <2>3 DEF Backed
      <3>2. new.lag + (TimeToLive - new.left) = k.lag /\ new.left \in 1..TimeToLive
        BY <1>4, <2>2, TTLFacts
      <3> QED
        BY <1>4, <2>2, <3>1, <3>2 DEF ListEntry
    <2> QED
      BY <2>1, <2>3
  <1>10. FreshIn(store', AnswerTo(k, "OK", shown))
    BY <1>3, <1>6
  <1> HIDE DEF shown
  <1> QED
    BY <1>1, <1>3, <1>8, <1>9, <1>10, CallEnds

\* A process dies: its calls end with an error, whatever they were about.
LEMMA CrashFresh ==
    ASSUME IInv, FreshInv, UserServiceCrashes \/ SearchServiceCrashes
    PROVE  FreshInv' /\ AnswersAreFresh'
  <1>1. list' = list /\ single' = single
    BY DEF UserServiceCrashes, SearchServiceCrashes, redis
  <1>2. DOMAIN call' = Callers /\ \A c \in Callers : call'[c] \in {Idle, call[c]}
    BY DEF UserServiceCrashes, SearchServiceCrashes
  <1>3. \E k : answer' = AnswerTo(k, "Unavailable", {})
    BY DEF UserServiceCrashes, SearchServiceCrashes
  <1>4. Grown(store, store', 0)
    <2>1. CASE SearchServiceCrashes
      <3>1. store' = store
        BY <2>1 DEF SearchServiceCrashes
      <3> QED
        BY <3>1, SameStore
    <2>2. CASE UserServiceCrashes
      <3>1. PICK P \in [Stored -> BOOLEAN] :
              store' = [i \in Stored |-> IF P[i] THEN [store[i] EXCEPT !.told = "failure"]
                                                 ELSE store[i]]
        <4> DEFINE dead == {c \in Callers : call[c].at \in {"create", "publish", "query"}}
                   P == [i \in Stored |-> \E c \in dead : call[c].at = "publish" /\ call[c].id = i]
        <4>1. store' = [i \in Stored |-> IF P[i] THEN [store[i] EXCEPT !.told = "failure"]
                                                 ELSE store[i]]
          BY <2>2 DEF UserServiceCrashes
        <4>2. P \in [Stored -> BOOLEAN]
          OBVIOUS
        <4> HIDE DEF P
        <4> QED
          BY <4>1, <4>2
      <3>2. Len(store) \in Nat /\ Stored = 1..Len(store)
        BY SameStore DEF Stored
      <3>3. store' = [i \in 1..Len(store) |-> store'[i]]
        BY <3>1, <3>2
      <3>4. IsSeq(store') /\ DOMAIN store' = DOMAIN store
        BY <3>2, <3>3, FunctionIsSeq DEF Stored
      <3>5. \A i \in DOMAIN store : \E told :
              store'[i] = store[i] \/ store'[i] = [store[i] EXCEPT !.told = told]
        BY <3>1 DEF Stored
      <3> QED
        BY <3>4, <3>5, ToldGrows
    <2> QED
      BY <2>1, <2>2
  <1>5. Sound(store', Idle)
    BY IdleCall DEF Sound
  <1>6. \A c \in Callers : Sound(store', call'[c])
    BY <1>2, <1>4, <1>5, GrownStays DEF FreshInv
  <1>7. FreshInv'
    BY <1>1, <1>4, <1>6, GrownStays, GrownAges DEF FreshInv
  <1>8. AnswersAreFresh'
    BY <1>3, AnswerFields, FreshOther, FreshNext
  <1> QED
    BY <1>7, <1>8

\* Time passes: rows, fetched lists and cache entries age alike.
LEMMA TickFresh ==
    ASSUME IInv, FreshInv, Tick
    PROVE  FreshInv' /\ AnswersAreFresh'
  <1>1. Len(store) \in Nat /\ Stored = 1..Len(store) /\ DOMAIN store = 1..Len(store)
    BY SameStore DEF Stored
  <1>2. /\ store' = [i \in Stored |->
             [store[i] EXCEPT !.age = IF @ = TimeToLive + MaxLag THEN @ ELSE @ + 1]]
        /\ call' = [c \in Callers |->
             IF call[c].at = "fill" /\ call[c].rpc = "SearchUsers"
               THEN [call[c] EXCEPT !.lag = @ + 1] ELSE call[c]]
        /\ list' = Aged(list) /\ single' = Aged(single) /\ answer' = NoAnswer
    BY DEF Tick
  <1>3. IsSeq(store') /\ DOMAIN store' = 1..Len(store) /\ Len(store') = Len(store)
    BY <1>1, <1>2, FunctionIsSeq
  <1>4. Ages(store)
    BY DEF FreshInv
  <1>5. Grown(store, store', 1)
    <2>1. ASSUME NEW i \in DOMAIN store
          PROVE  /\ store'[i].email = store[i].email /\ store'[i].name = store[i].name
                 /\ store'[i].age \in Nat /\ store'[i].age <= store[i].age + 1
      <3> DEFINE age == store[i].age
                 next == IF age = TimeToLive + MaxLag THEN age ELSE age + 1
      <3>1. age \in Nat
        BY <1>4 DEF Ages
      <3>2. next \in Nat /\ next <= age + 1
        BY <3>1
      <3>3. store'[i] = [store[i] EXCEPT !.age = next]
        BY <1>2 DEF Stored
      <3> HIDE DEF next
      <3>4. DOMAIN store[i] = RowFields
        BY DEF IInv, Shape, Stored
      <3>5. store'[i].age = next /\ store'[i].email = store[i].email /\ store'[i].name = store[i].name
        BY <3>3, <3>4 DEF RowFields
      <3> QED
        BY <3>2, <3>5
    <2> QED
      BY <1>1, <1>3, <2>1 DEF Grown
  <1>6. ASSUME NEW c \in Callers PROVE Sound(store', call'[c])
    <2> DEFINE k == call[c]
               l == call'[c]
    <2>1. Sound(store, k) /\ DOMAIN k = CallFields
      BY DEF FreshInv, IInv, Shape
    <2>2. l = IF k.at = "fill" /\ k.rpc = "SearchUsers" THEN [k EXCEPT !.lag = @ + 1] ELSE k
      BY <1>2
    <2>3. k.at # "idle" => k.lag \in Nat
      BY <2>1 DEF Sound, Backed
    <2> HIDE DEF k, l
    <2>4. \A f \in {"at", "want", "version", "rpc", "req", "id", "users", "known"} : l[f] = k[f]
      BY <2>1, <2>2 DEF CallFields
    <2>5. l.lag = IF k.at = "fill" /\ k.rpc = "SearchUsers" THEN k.lag + 1 ELSE k.lag
      BY <2>1, <2>2 DEF CallFields
    <2>6. /\ k.at # "idle" => l.lag \in Nat
          /\ k.at = "fill" /\ k.rpc = "SearchUsers" => l.lag >= k.lag + 1
      BY <2>3, <2>5
    <2>7. Sound(store', l)
      BY <1>4, <1>5, <2>1, <2>4, <2>6, GrownSound
    <2> QED
      BY <2>7 DEF l
  <1>7. ASSUME NEW e \in list' PROVE ListEntry(store', e)
    <2>1. PICK d \in list : d.left # 1 /\ e = [d EXCEPT !.left = IF @ = 0 THEN 0 ELSE @ - 1]
      BY <1>2, <1>7 DEF Aged
    <2>2. /\ DOMAIN d = {"users", "left", "lag"} /\ d.left \in 1..TimeToLive /\ d.lag \in Nat
          /\ Dated(store, d.users, d.lag + (TimeToLive - d.left))
      BY DEF FreshInv, ListEntry
    <2> DEFINE left == d.left - 1
               b == d.lag + (TimeToLive - d.left)
               later == d.lag + (TimeToLive - left)
    <2>3. left \in 1..TimeToLive /\ b \in Nat /\ later \in Nat /\ later >= b + 1
      BY <2>1, <2>2, TTLFacts
    <2>4. e = [d EXCEPT !.left = left]
      BY <2>1, <2>2, TTLFacts
    <2> HIDE DEF left
    <2>5. DOMAIN e = {"users", "left", "lag"} /\ e.left = left /\ e.lag = d.lag /\ e.users = d.users
      BY <2>2, <2>4
    <2> HIDE DEF b, later
    <2>6. Dated(store', d.users, later)
      BY <1>4, <1>5, <2>2, <2>3, GrownDated DEF b
    <2> QED
      BY <2>2, <2>3, <2>5, <2>6 DEF ListEntry, later
  <1>8. ASSUME NEW e \in single' PROVE SingleEntry(store', e)
    <2>1. PICK d \in single : \E left : e = [d EXCEPT !.left = left]
      BY <1>2, <1>8 DEF Aged
    <2>2. DOMAIN d = {"user", "left"} /\ \E i \in DOMAIN store : d.user = Proto(store, i)
      BY DEF FreshInv, SingleEntry
    <2>3. DOMAIN e = {"user", "left"} /\ e.user = d.user
      BY <2>1, <2>2
    <2> QED
      BY <1>5, <2>2, <2>3, GrownProto DEF SingleEntry
  <1>9. Ages(store')
    BY <1>5, GrownAges
  <1> QED
    BY <1>2, <1>6, <1>7, <1>8, <1>9, NoAnswerIsFresh DEF FreshInv

\* The invariant of the answers holds of an empty cache.
LEMMA InitFresh == Init => FreshInv /\ AnswersAreFresh
  <1> SUFFICES ASSUME Init PROVE FreshInv /\ AnswersAreFresh
    OBVIOUS
  <1>1. /\ \A c \in Callers : call[c] = Idle
        /\ list = {} /\ single = {} /\ answer = NoAnswer
    BY DEF Init
  <1>2. \A c \in Callers : Sound(store, call[c])
    BY <1>1, IdleCall DEF Sound
  <1>3. Ages(store)
    <2>1. CASE store = <<>>
      BY <2>1 DEF Ages
    <2>2. CASE \E email \in Old :
                 store = <<[email |-> email, name |-> <<"Old">>, age |-> TimeToLive + MaxLag,
                            told |-> "success", due |-> FALSE]>>
      <3>1. DOMAIN store = {1} /\ store[1].age = TimeToLive + MaxLag
        BY <2>2
      <3> QED
        BY <3>1, TTLFacts, PlatformAssumption DEF Ages
    <2> QED
      BY <2>1, <2>2 DEF Init
  <1>4. NoAnswer.code = ""
    BY DEF NoAnswer
  <1> QED
    BY <1>1, <1>2, <1>3, <1>4, FreshOther, FreshNow DEF FreshInv

\* Every answer is as AnswersAreFresh says, for any number of concurrent clients,
\* through concurrent fills of the cache, failing SETs and crashes
\* (search-service internal/search/repository.go:78-106, 216-242).
THEOREM AnswersFresh == Spec => []AnswersAreFresh
  <1> DEFINE Inv == IInv /\ GroupInv /\ FreshInv /\ AnswersAreFresh
  <1>1. Init => Inv
    BY InitIInv, InitFresh
  <1>2. ASSUME Inv, [Next]_vars PROVE Inv'
    <2>1. IInv' /\ GroupInv'
      BY <1>2, NextIInv, NextGroupInv
    <2>2. CASE UNCHANGED vars
      <3>1. UNCHANGED <<store, call, list, single, answer>>
        BY <2>2 DEF vars, redis
      <3>2. FreshInv'
        BY <1>2, <3>1 DEF FreshInv
      <3>3. AnswersAreFresh'
        BY <1>2, <3>1, FreshNow, FreshNext
      <3> QED
        BY <2>1, <3>2, <3>3
    <2>3. CASE \E c \in Callers : CallStep(c)
      <3> SUFFICES ASSUME NEW c \in Callers, CallStep(c) PROVE FreshInv' /\ AnswersAreFresh'
        BY <2>1, <2>3
      <3>1. CASE BeginRest(c) \/ BeginGrpc(c)
        BY <1>2, <3>1, BeginFresh DEF BeginRest, BeginGrpc
      <3> QED
        BY <1>2, <3>1, CreateFresh, QueryFresh, CachedFresh, FetchFresh, FillFresh DEF CallStep
    <2>4. CASE UserServiceCrashes \/ SearchServiceCrashes
      BY <1>2, <2>1, <2>4, CrashFresh
    <2>5. CASE \/ \E g \in Subscribers : OnUserCreated(g) \/ Rejoin(g) \/ Commit(g)
               \/ Replicate \/ LeaderFails
      <3>1. UNCHANGED <<store, call, list, single>> /\ answer' = NoAnswer
        BY <2>5 DEF OnUserCreated, Rejoin, Commit, Replicate, LeaderFails, redis
      <3>2. FreshInv'
        BY <1>2, <3>1 DEF FreshInv
      <3> QED
        BY <2>1, <3>1, <3>2, NoAnswerIsFresh
    <2>6. CASE Tick
      BY <1>2, <2>1, <2>6, TickFresh
    <2> QED
      BY <1>2, <2>2, <2>3, <2>4, <2>5, <2>6 DEF Next
  <1> QED
    BY <1>1, <1>2, PTL DEF Spec

=============================================================================
