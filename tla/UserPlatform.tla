---------------------------- MODULE UserPlatform ----------------------------
(***************************************************************************)
(* The example services as one system (src/examples): user-service with    *)
(* its Postgres table and the topic user.events, notification-service that *)
(* consumes the topic, and search-service, a read-through cache in Redis   *)
(* in front of user-service.                                               *)
(*                                                                         *)
(* The topic is consumed as AtLeastOnce says, which is what KafkaConsumer  *)
(* is shown to implement, from where the group starts: without a committed *)
(* offset that is the newest one of each session.  The topic is replicated *)
(* and what its followers have is never lost (external).  A user is never  *)
(* changed or deleted, and its id (a uuid) is its position in the table.   *)
(* An email that a query matches stands for the substring search.          *)
(***************************************************************************)
EXTENDS Naturals, ExampleApis, Errx

CONSTANTS
    Callers,             \* clients, one call at a time each
    Emails,
    Old,                 \* emails of users that may exist from the start
    Requests,            \* what a client asks for: [service, version, rpc, req]
    RequireDisplayName,  \* app config of user-service
    DisplayNamePrefix,   \* app config of user-service, <<>> for none
    CacheTtl,            \* app config of search-service, 0 for an unset or zero value
    DefaultCacheTtl,
    Retries,             \* Producer.Retry.Max, 3 in the code
    MaxCalls,            \* bound on the calls of a behaviour
    MaxLag               \* bound on the time between a fetch and the answer made of it

ASSUME PlatformAssumption ==
    /\ CacheTtl \in Nat /\ DefaultCacheTtl \in Nat \ {0}
    /\ MaxCalls \in Nat /\ MaxLag \in Nat /\ Retries \in Nat
    /\ RequireDisplayName \in BOOLEAN
    /\ \A want \in Requests : /\ want.service \in {"user", "search", "notification"}
                              /\ want.version \in {"v1", "hub"}
                              /\ want.rpc \in {"CreateUser", "GetUser", "ListUsers", "SearchUsers",
                                                "GetStatus", "OnUserCreated"}
                              /\ DOMAIN want.req = DOMAIN NoRequest

VARIABLES
    store,      \* Postgres, table users: [email, name, age, told, due]; the last three are history
    topic,      \* user.events, as its leader has it: the ids of the published events
    replicated, \* user.events: how many of them the followers have
    group,      \* [start, from]: where a consumer group began, and its committed offset
    handled,    \* notification-service: <<group, offset>> of the handled events
    connected,  \* search-service has a Redis client
    list,       \* Redis: the entry of the list of users, if there is one
    single,     \* Redis: the entries of single users
    call,       \* the call of each client
    answer,     \* what the last step told a client
    begun,      \* number of calls so far
    lost        \* history: the users of events that went with a leader

kafka == <<topic, replicated, group, handled, lost>>
redis == <<list, single>>
vars == <<store, kafka, connected, redis, call, answer, begun>>

Stored == DOMAIN store

\* A configured time to live of zero means the default one (what the code makes of
\* it is CacheTTL).
TimeToLive == IF CacheTtl = 0 THEN DefaultCacheTtl ELSE CacheTtl

-----------------------------------------------------------------------------
\* Producers and handled by the generated registration code: CreateUser is
\* announced on user.events, which both groups consume.
PublishTopic == "user.events"
ConsumeTopic == [g \in {"notification-service", "user-service"} |-> "user.events"]
Subscribers == {g \in {"notification-service"} : ConsumeTopic[g] = PublishTopic}

\* What a group has not begun with needs no handling.
Before == UNION {{<<g, o>> : o \in 0..(group[g].start - 1)} : g \in Subscribers}

Delivery == INSTANCE AtLeastOnce WITH
    Partitions <- Subscribers, Length <- MaxCalls * (Retries + 1), Bad <- {},
    committed <- [g \in Subscribers |-> group[g].from],
    handled <- handled \cup Before

\* A group has an offset once it has committed one, which is past its beginning.
Committed(g) == group[g].from > group[g].start

-----------------------------------------------------------------------------
(* What the clients send.                                                  *)

\* The documented REST form of a request.
Http(want) ==
    LET prefix == <<want.version>> IN
    [method    |-> IF want.rpc \in {"CreateUser", "OnUserCreated"} THEN "POST" ELSE "GET",
     path      |-> prefix \o (CASE want.rpc = "GetUser"   -> <<"users", "id">>
                                [] want.rpc = "GetStatus" -> <<"status">>
                                [] want.rpc = "OnUserCreated" ->
                                     <<"notification.hub.NotificationEventHandler", "OnUserCreated">>
                                [] OTHER -> <<"users">>),
     verb      |-> IF want.rpc = "SearchUsers" THEN "search" ELSE "",
     id        |-> want.req.id,
     query     |-> want.req.query,
     body      |-> want.req,
     malformed |-> FALSE]

NoWant == [service |-> "", version |-> "", rpc |-> "", req |-> NoRequest]
Idle == [at |-> "idle", want |-> NoWant, version |-> "", rpc |-> "", req |-> NoRequest,
         id |-> 0, users |-> {}, lag |-> 0, known |-> 0, tries |-> 0, landed |-> FALSE]
NoAnswer == [want |-> NoWant, rpc |-> "", code |-> "", users |-> {}, known |-> 0, lag |-> 0]

Goto(c, at) == call' = [call EXCEPT ![c].at = at]

\* What a client is told; known and lag are history.
AnswerTo(k, code, users) ==
    [want |-> k.want, rpc |-> k.rpc, code |-> code,
     users |-> FromHub(k.want.service, k.version, users),
     known |-> k.known,
     lag   |-> k.lag]

\* The call ends; an answer of a v1 method has been converted.
Answer(c, code, users) ==
    /\ answer' = AnswerTo(call[c], code, users)
    /\ call' = [call EXCEPT ![c] = Idle]

\* The first step of the handler a call reaches.
Entry(service, rpc) ==
    CASE rpc = "CreateUser"   -> "create"
      [] rpc = "GetStatus"    -> "status"
      [] service = "user" /\ rpc # "CreateUser" -> "query"
      [] service = "search"   -> "lookup"

Begin(c, want, routed) ==
    /\ call[c].at = "idle"
    /\ begun < MaxCalls
    /\ IF routed.code # "OK"
         THEN /\ answer' = [NoAnswer EXCEPT !.want = want, !.code = routed.code]
              /\ UNCHANGED call
         ELSE /\ call' = [call EXCEPT ![c] =
                   [Idle EXCEPT !.at = Entry(want.service, routed.rpc), !.want = want,
                      !.version = routed.version, !.rpc = routed.rpc,
                      !.req = ToHub(want.service, routed.version, routed.req),
                      !.known = IF routed.rpc \in {"GetUser", "ListUsers"} THEN Len(store) ELSE 0]]
              /\ answer' = NoAnswer
    /\ begun' = begun + 1
    /\ UNCHANGED <<store, kafka, redis, connected>>

BeginRest(c) ==
    \E want \in Requests : Begin(c, want, RestCall(want.service, Http(want)))

BeginGrpc(c) ==
    \E want \in Requests : Begin(c, want, Invoke(want.service, want.version, want.rpc, want.req))

-----------------------------------------------------------------------------
(* Errors of the handlers, by their codes.                                 *)

Cause == <<[kind |-> "note"]>>

\* errx.Wrap in a handler of user-service, and the status its client receives.
UserServiceError(code) ==
    Received(GRPCStatus(ServerError(
        <<[kind |-> "app", error |-> Wrap(Cause, code, "internal", "public", <<>>)]>>)))

Unreachable == <<[kind |-> "status", code |-> "Unavailable", message |-> "peer", details |-> {}]>>

\* fetchUser passes the code of user-service on, fetchAllUsers does not.
FetchUserError(chain) ==
    LET code == FromError(<<[kind |-> "app", error |-> Normalize(chain, <<>>)]>>).code IN
    Wrap(chain, IF code = "OK" THEN "Internal" ELSE code, "internal", "public", <<>>).code

FetchAllUsersError(chain) == Wrap(chain, "Internal", "internal", "public", <<>>).code

-----------------------------------------------------------------------------
(* user-service.                                                           *)

DefaultDisplayName(name) == DisplayNamePrefix \o name

ValidCreate(req) ==
    /\ req.email # "" /\ req.name # <<>>
    /\ RequireDisplayName => req.display # <<>>

\* The stored name is the display name.
NewName(req) == IF req.display # <<>> THEN req.display ELSE DefaultDisplayName(req.name)

\* toProto, the hub view of a row.
ToProto(i) == [id |-> i, email |-> store[i].email, name |-> store[i].name, display |-> store[i].name]

RejectCreate(c) ==
    /\ call[c].at = "create"
    /\ ~ValidCreate(call[c].req)
    /\ Answer(c, "InvalidArgument", {})
    /\ UNCHANGED <<store, kafka, redis, connected, begun>>

Taken(email) == \E i \in Stored : store[i].email = email

\* due: every group that consumes the topic has committed an offset by now.
Row(req, told) == [email |-> req.email, name |-> NewName(req), age |-> 0, told |-> told,
                   due |-> \A g \in Subscribers : Committed(g)]

\* INSERT ... RETURNING.
Insert(c) ==
    /\ call[c].at = "create"
    /\ ValidCreate(call[c].req)
    /\ ~Taken(call[c].req.email)
    /\ store' = Append(store, Row(call[c].req, "nothing"))
    /\ call' = [call EXCEPT ![c].at = "publish", ![c].id = Len(store) + 1,
                            ![c].tries = 0, ![c].landed = FALSE]
    /\ answer' = NoAnswer
    /\ UNCHANGED <<kafka, redis, connected, begun>>

\* The email is taken, or the statement fails; when only its answer is lost the
\* row is there.
InsertFails(c) ==
    /\ call[c].at = "create"
    /\ ValidCreate(call[c].req)
    /\ \/ UNCHANGED store
       \/ ~Taken(call[c].req.email) /\ store' = Append(store, Row(call[c].req, "failure"))
    /\ Answer(c, "Internal", {})
    /\ UNCHANGED <<kafka, redis, connected, begun>>

\* SendMessage: an attempt, with its retries inside sarama.  The leader appends
\* the event or does not; when it does and its answer is lost the next attempt
\* appends another one, the producer being not idempotent.
Attempt(c) ==
    /\ call[c].at = "publish"
    /\ call[c].tries <= Retries
    /\ \E landed \in BOOLEAN :
         /\ topic' = IF landed THEN Append(topic, call[c].id) ELSE topic
         /\ call' = [call EXCEPT ![c].tries = @ + 1, ![c].landed = landed]
    /\ answer' = NoAnswer
    /\ UNCHANGED <<store, replicated, group, handled, lost, redis, connected, begun>>

Told(c, told) == store' = [store EXCEPT ![call[c].id].told = told]

\* The leader's answer arrives, which waits for no follower.
Publish(c) ==
    /\ call[c].at = "publish"
    /\ call[c].landed
    /\ Told(c, "success")
    /\ Answer(c, "OK", {ToProto(call[c].id)})
    /\ UNCHANGED <<kafka, redis, connected, begun>>

\* Mutant: a failed publish is logged and forgotten.
PublishFailsSilently(c) ==
    /\ call[c].at = "publish"
    /\ Told(c, "success")
    /\ Answer(c, "OK", {ToProto(call[c].id)})
    /\ UNCHANGED <<kafka, redis, connected, begun>>

\* The retries are used up, or an error that is not retried: the topic may have
\* the event nevertheless.
PublishFails(c) ==
    /\ call[c].at = "publish"
    /\ Told(c, "failure")
    /\ Answer(c, "Internal", {})
    /\ UNCHANGED <<kafka, redis, connected, begun>>

\* GetUser and ListUsers.
Query(c) ==
    /\ call[c].at = "query"
    /\ IF call[c].rpc = "ListUsers" THEN Answer(c, "OK", {ToProto(i) : i \in Stored})
       ELSE IF call[c].req.id \in Stored THEN Answer(c, "OK", {ToProto(call[c].req.id)})
       ELSE Answer(c, "NotFound", {})
    /\ UNCHANGED <<store, kafka, redis, connected, begun>>

QueryFails(c) ==
    /\ call[c].at = "query"
    /\ Answer(c, "Internal", {})
    /\ UNCHANGED <<store, kafka, redis, connected, begun>>

\* The process dies between two steps of its calls and is started again.
UserServiceCrashes ==
    LET dead == {c \in Callers : call[c].at \in {"create", "publish", "query"}} IN
    /\ dead # {}
    /\ call' = [c \in Callers |-> IF c \in dead THEN Idle ELSE call[c]]
    /\ \E c \in dead : answer' = AnswerTo(call[c], "Unavailable", {})
    /\ store' = [i \in Stored |->
         IF \E c \in dead : call[c].at = "publish" /\ call[c].id = i
           THEN [store[i] EXCEPT !.told = "failure"] ELSE store[i]]
    /\ UNCHANGED <<kafka, redis, connected, begun>>

-----------------------------------------------------------------------------
(* notification-service: one line is printed for every event handled.      *)

Status(c) ==
    /\ call[c].at = "status"
    /\ Answer(c, "OK", {})
    /\ UNCHANGED <<store, kafka, redis, connected, begun>>

\* A group reads in order, and only what the followers have.
OnUserCreated(g) ==
    /\ \E o \in group[g].start..(replicated - 1) :
         /\ Delivery!Settled(g, o)
         /\ handled' = handled \cup {<<g, o>>}
    /\ answer' = NoAnswer
    /\ UNCHANGED <<store, topic, replicated, group, lost, redis, connected, call, begun>>

\* Mutant: every session starts at the newest offset.
RejoinAlways(g) ==
    /\ group' = [group EXCEPT ![g] = [start |-> replicated, from |-> replicated]]
    /\ answer' = NoAnswer
    /\ UNCHANGED <<store, topic, replicated, handled, lost, redis, connected, call, begun>>

\* A session of a group that has committed nothing starts at the newest offset
\* (Consumer.Offsets.Initial is left as it is).
Rejoin(g) ==
    /\ ~Committed(g)
    /\ group' = [group EXCEPT ![g] = [start |-> replicated, from |-> replicated]]
    /\ answer' = NoAnswer
    /\ UNCHANGED <<store, topic, replicated, handled, lost, redis, connected, call, begun>>

\* The marks are committed.
Commit(g) ==
    /\ \E n \in (group[g].from + 1)..replicated :
         /\ Delivery!Settled(g, n)
         /\ group' = [group EXCEPT ![g].from = n]
    /\ answer' = NoAnswer
    /\ UNCHANGED <<store, topic, replicated, handled, lost, redis, connected, call, begun>>

-----------------------------------------------------------------------------
(* The brokers.                                                            *)

Replicate ==
    /\ replicated < Len(topic)
    /\ replicated' = replicated + 1
    /\ answer' = NoAnswer
    /\ UNCHANGED <<store, topic, group, handled, lost, redis, connected, call, begun>>

\* The leader fails and a follower takes over: events past those that all the
\* followers have are gone, acknowledged or not.
LeaderFails ==
    /\ \E n \in replicated..(Len(topic) - 1) :
         /\ topic' = SubSeq(topic, 1, n)
         /\ lost' = lost \cup {topic[o] : o \in (n + 1)..Len(topic)}
    /\ answer' = NoAnswer
    /\ UNCHANGED <<store, replicated, group, handled, redis, connected, call, begun>>

-----------------------------------------------------------------------------
(* search-service.                                                         *)

\* Mutant: a time to live of zero is taken over, and Redis keeps the entry.
CacheTTLUnchecked == CacheTtl

\* NewRepository.
CacheTTL == IF CacheTtl > 0 THEN CacheTtl ELSE DefaultCacheTtl

FilterUsers(users, query) == {u \in users : query = "" \/ u.email = query}

\* GetUser of the handler refuses an empty id.
RejectGet(c) ==
    /\ call[c].at = "lookup" /\ call[c].rpc = "GetUser"
    /\ call[c].req.id = 0
    /\ Answer(c, "InvalidArgument", {})
    /\ UNCHANGED <<store, kafka, redis, connected, begun>>

GetCached(c) ==
    /\ call[c].at = "lookup" /\ call[c].rpc = "GetUser"
    /\ connected
    /\ \E e \in single : e.user.id = call[c].req.id /\ Answer(c, "OK", {e.user})
    /\ UNCHANGED <<store, kafka, redis, connected, begun>>

SearchCached(c) ==
    /\ call[c].at = "lookup" /\ call[c].rpc = "SearchUsers"
    /\ connected
    /\ \E e \in list :
         /\ answer' = [AnswerTo(call[c], "OK", FilterUsers(e.users, call[c].req.query))
                          EXCEPT !.lag = e.lag]
         /\ call' = [call EXCEPT ![c] = Idle]
    /\ UNCHANGED <<store, kafka, redis, connected, begun>>

\* Nothing cached, no Redis client, or a GET that fails.
Miss(c) ==
    /\ call[c].at = "lookup"
    /\ call[c].rpc = "GetUser" => call[c].req.id # 0
    /\ Goto(c, "fetch")
    /\ answer' = NoAnswer
    /\ UNCHANGED <<store, kafka, redis, connected, begun>>

\* The hub API of user-service, over gRPC.
Fetch(c) ==
    LET id == call[c].req.id IN
    /\ call[c].at = "fetch"
    /\ IF call[c].rpc = "SearchUsers" \/ id \in Stored
         THEN /\ call' = [call EXCEPT ![c].at = "fill", 
                         ![c].users = IF call[c].rpc = "SearchUsers"
                                        THEN {ToProto(i) : i \in Stored} ELSE {ToProto(id)}]
              /\ answer' = NoAnswer
         ELSE Answer(c, FetchUserError(UserServiceError("NotFound")), {})
    /\ UNCHANGED <<store, kafka, redis, connected, begun>>

FetchFails(c) ==
    /\ call[c].at = "fetch"
    /\ \E chain \in {UserServiceError("Internal"), Unreachable} :
         Answer(c, IF call[c].rpc = "SearchUsers" THEN FetchAllUsersError(chain)
                                                  ELSE FetchUserError(chain), {})
    /\ UNCHANGED <<store, kafka, redis, connected, begun>>

\* Overwrites the entries of the users.
CacheEach(users) ==
    single' = {e \in single : e.user \notin users}
              \cup {[user |-> u, left |-> CacheTTL] : u \in users}

\* The answer of a call whose users were fetched.
Fetched(c) ==
    Answer(c, "OK", IF call[c].rpc = "SearchUsers"
                      THEN FilterUsers(call[c].users, call[c].req.query) ELSE call[c].users)

\* cacheUser; the error of a SET is ignored.
FillUser(c) ==
    /\ call[c].at = "fill" /\ call[c].rpc = "GetUser"
    /\ connected
    /\ \E users \in SUBSET call[c].users : CacheEach(users)
    /\ Fetched(c)
    /\ UNCHANGED <<store, kafka, connected, list, begun>>

\* cacheUsers: the list, then each user, and any of the SETs may fail.
FillList(c) ==
    /\ call[c].at = "fill" /\ call[c].rpc = "SearchUsers"
    /\ connected /\ call[c].users # {}
    /\ list' \in {list, {[users |-> call[c].users, left |-> CacheTTL, lag |-> call[c].lag]}}
    /\ \E users \in SUBSET call[c].users : CacheEach(users)
    /\ Fetched(c)
    /\ UNCHANGED <<store, kafka, connected, begun>>

\* Without a Redis client nothing is cached, and an empty list never is.
NoFill(c) ==
    /\ call[c].at = "fill"
    /\ ~connected \/ call[c].users = {}
    /\ Fetched(c)
    /\ UNCHANGED <<store, kafka, redis, connected, begun>>

\* The process dies; the next one may find Redis unreachable, and does without.
SearchServiceCrashes ==
    LET dead == {c \in Callers : call[c].at \in {"lookup", "fetch", "fill"}} IN
    /\ dead # {}
    /\ call' = [c \in Callers |-> IF c \in dead THEN Idle ELSE call[c]]
    /\ \E c \in dead : answer' = AnswerTo(call[c], "Unavailable", {})
    /\ connected' \in BOOLEAN
    /\ UNCHANGED <<store, kafka, redis, begun>>

-----------------------------------------------------------------------------
\* Redis drops the entries whose time has come; one that was SET without a time
\* to live stays.
Aged(entries) ==
    {[e EXCEPT !.left = IF @ = 0 THEN 0 ELSE @ - 1] : e \in {d \in entries : d.left # 1}}

\* Ages beyond what any answer may miss are not told apart.
Tick ==
    /\ \A c \in Callers : call[c].lag < MaxLag
    /\ store' = [i \in Stored |->
         [store[i] EXCEPT !.age = IF @ = TimeToLive + MaxLag THEN @ ELSE @ + 1]]
    /\ list' = Aged(list)
    /\ single' = Aged(single)
    /\ call' = [c \in Callers |->
         IF call[c].at = "fill" /\ call[c].rpc = "SearchUsers"
           THEN [call[c] EXCEPT !.lag = @ + 1] ELSE call[c]]
    /\ answer' = NoAnswer
    /\ UNCHANGED <<kafka, connected, begun>>

\* An empty platform, or one with a user whose creation is long past, and whose
\* event notification-service has committed.
Init ==
    /\ \/ store = <<>> /\ topic = <<>>
       \/ \E email \in Old :
            /\ store = <<[email |-> email, name |-> <<"Old">>, age |-> TimeToLive + MaxLag,
                          told |-> "success", due |-> FALSE]>>
            /\ topic = <<1>>
    /\ replicated = Len(topic)
    /\ group = [g \in Subscribers |-> [start |-> 0, from |-> Len(topic)]]
    /\ handled = Subscribers \X (0..(Len(topic) - 1))
    /\ lost = {}
    /\ connected \in BOOLEAN
    /\ list = {} /\ single = {}
    /\ call = [c \in Callers |-> Idle]
    /\ answer = NoAnswer
    /\ begun = 0

CallStep(c) ==
    \/ BeginRest(c) \/ BeginGrpc(c)
    \/ RejectCreate(c) \/ Insert(c) \/ InsertFails(c)
    \/ Attempt(c) \/ Publish(c) \/ PublishFails(c)
    \/ Query(c) \/ QueryFails(c) \/ Status(c)
    \/ RejectGet(c) \/ GetCached(c) \/ SearchCached(c) \/ Miss(c)
    \/ Fetch(c) \/ FetchFails(c) \/ FillUser(c) \/ FillList(c) \/ NoFill(c)

Next ==
    \/ \E c \in Callers : CallStep(c)
    \/ UserServiceCrashes \/ SearchServiceCrashes
    \/ \E g \in Subscribers : OnUserCreated(g) \/ Rejoin(g) \/ Commit(g)
    \/ Replicate \/ LeaderFails
    \/ Tick

Spec == Init /\ [][Next]_vars

-----------------------------------------------------------------------------
(* Properties.                                                             *)

Copies(i) == {o \in DOMAIN topic : topic[o] = i}

\* The table and the topic are written one after the other without a transaction
\* (handler.go:117-149), by a producer that retries without being idempotent and
\* waits for the leader alone (kafka.go:421-435).  Even so: emails are unique, only
\* stored users are announced, each once per attempt at most, and a stored user
\* that is not announced belongs to a call that is still under way, or its client
\* was told of a failure, or the only copies of its event went with a leader.
AnnouncedOrReported ==
    /\ \A i, j \in Stored : store[i].email = store[j].email => i = j
    /\ \A o \in DOMAIN topic : topic[o] \in Stored
    /\ \A i \in Stored : Cardinality(Copies(i)) <= Retries + 1
    /\ \A i \in Stored :
         \/ Copies(i) # {}
         \/ store[i].told = "failure"
         \/ i \in lost
         \/ \E c \in Callers : call[c].at = "publish" /\ call[c].id = i

\* notification-service skips nothing it is due: the event of a user that was
\* created after the group's first commit, however often it is in the topic, was
\* handled or is still ahead of the group, through sessions that start at the
\* newest offset (kafka.go:437-454), retries that leave copies, commits in any order
\* and leaders that fail.  And what was handled, or committed, is never taken
\* back: an event that comes later is not passed over because its offset was used.
DueIsHandledOrAhead ==
    \A g \in Subscribers :
        /\ group[g].from <= Len(topic)
        /\ \A h \in handled : h[1] = g => h[2] < Len(topic)
        /\ \A o \in DOMAIN topic : store[topic[o]].due =>
             <<g, o - 1>> \in handled \/ group[g].from < o

\* A user as the API a client asked shows it: v1 of user-service has no display
\* name.
Shown(want, i) ==
    [id |-> i, email |-> store[i].email, name |-> store[i].name,
     display |-> IF want.service = "user" /\ want.version = "v1" THEN <<>> ELSE store[i].name]

\* Answers are true whichever API and transport the call came by, through
\* concurrent fills of the cache, failing SETs, crashes and lost answers.  GetUser
\* gives the user asked for, and "not found" only of one that was not stored when
\* the call began; ListUsers misses no user stored before it; a search gives
\* stored users that match, and misses none that is older than the time to live
\* and the time its data took from the fetch to the SET together (search/repository.go:78-106, 216-242).
AnswersAreFresh ==
    LET want == answer.want
        matching == {i \in Stored : want.req.query \in {"", store[i].email}}
    IN  /\ answer.code = "NotFound" /\ want.rpc = "GetUser" =>
             want.req.id \notin 1..answer.known
        /\ answer.code = "OK" =>
             CASE want.rpc = "CreateUser" ->
                    \E i \in Stored : /\ answer.users = {Shown(want, i)}
                                      /\ store[i].email = want.req.email
               [] want.rpc = "GetUser" ->
                    /\ want.req.id \in Stored
                    /\ answer.users = {Shown(want, want.req.id)}
               [] want.rpc = "ListUsers" ->
                    /\ {Shown(want, i) : i \in 1..answer.known} \subseteq answer.users
                    /\ answer.users \subseteq {Shown(want, i) : i \in Stored}
               [] want.rpc = "SearchUsers" ->
                    /\ answer.users \subseteq {Shown(want, i) : i \in matching}
                    /\ \A i \in matching :
                         store[i].age >= TimeToLive + answer.lag =>
                             Shown(want, i) \in answer.users
               [] want.rpc = "GetStatus" -> answer.rpc = "GetStatus"
=============================================================================
