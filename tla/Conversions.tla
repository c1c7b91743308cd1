---------------------------- MODULE Conversions ----------------------------
(***************************************************************************)
(* What the converters and adapters that src/internal/versioning generates  *)
(* do when they run, and what they should do.  A converter is its list of   *)
(* field mappings, and Apply runs it on a message: a function from field    *)
(* names, Nil for a missing sub-message.                                    *)
(***************************************************************************)
EXTENDS Workspace

-----------------------------------------------------------------------------
(* What the generated code does.                                            *)

ZeroOf(f) == IF f.Repeated THEN <<>> ELSE IF IsScalarType(f.Type) THEN "" ELSE Nil

RECURSIVE Apply(_, _, _, _, _, _)
\* LegacyToHub_<message> and HubToLegacy_<message>: the field called `from` of
\* each mapping is assigned to the one called `to` of a new message of the schema.
Apply(converters, from, to, schema, message, in) ==
    LET Convert(type, x) == Apply(converters, from, to, schema, type, x)
        Assigned(f, x) == IF IsScalarType(f.Type) THEN x
                          ELSE IF f.Repeated THEN [i \in DOMAIN x |-> Convert(f.Type, x[i])]
                          ELSE Convert(f.Type, x)
        Mapping(name) == SelectSeq(converters[message].Fields, LAMBDA f : f[to] = name)
        Value(field) == IF Mapping(field.Name) = <<>> THEN ZeroOf(field)
                        ELSE LET f == Last(Mapping(field.Name)) IN Assigned(f, in[f[from]])
        fields == ToSet(schema.Messages[message])
    IN  IF in = Nil THEN Nil
        ELSE [n \in {f.Name : f \in fields} |-> Value(CHOOSE f \in fields : f.Name = n)]

LegacyToHub(converters, hub, message, in) ==
    Apply(converters, "LegacyField", "HubField", hub, message, in)
HubToLegacy(converters, legacy, message, in) ==
    Apply(converters, "HubField", "LegacyField", legacy, message, in)

\* The adapter's answer for the hub's.  A call without a request that returns a
\* list returns that list and nothing else.
AdapterAnswer(converters, legacy, a, resp) ==
    IF a.List = Nil THEN HubToLegacy(converters, legacy, a.RPC.ResponseType, resp)
    ELSE [n \in {f.Name : f \in ToSet(legacy.Messages[a.RPC.ResponseType])} |->
            IF n = a.List.Name
            THEN [i \in DOMAIN resp[n] |-> HubToLegacy(converters, legacy, a.List.Type, resp[n][i])]
            ELSE ZeroOf(CHOOSE f \in ToSet(legacy.Messages[a.RPC.ResponseType]) : f.Name = n)]

-----------------------------------------------------------------------------
(* The reference: what a conversion has to do, said without the plan.       *)

RECURSIVE ValuesOf(_, _, _)
\* The messages of a type, their lists of at most one element, and below the
\* given depth no sub-messages.
ValuesOf(schema, message, depth) ==
    LET Sub(f) == IF IsScalarType(f.Type) THEN {"", "x"}
                  ELSE IF depth = 0 \/ f.Type \notin DOMAIN schema.Messages THEN {}
                  ELSE ValuesOf(schema, f.Type, depth - 1)
        Allowed(f) == IF f.Repeated THEN {<<>>} \cup {<<v>> : v \in Sub(f)}
                      ELSE IF IsScalarType(f.Type) THEN Sub(f) ELSE {Nil} \cup Sub(f)
        Extend(some, f) == {m @@ (f.Name :> v) : m \in some, v \in Allowed(f)}
    IN  FoldLeft(Extend, {<<>>}, schema.Messages[message])

RECURSIVE Carries(_, _, _, _, _)
\* The message y of the second schema is x of the first: the fields they share
\* are the same, the others of y are zero.
Carries(from, to, message, x, y) ==
    LET shared == {f.Name : f \in ToSet(from.Messages[message])}
        lists == {f.Name : f \in {g \in ToSet(from.Messages[message]) : g.Repeated}}
        Same(f, u, w) == IF IsScalarType(f.Type) THEN u = w ELSE Carries(from, to, f.Type, u, w)
        Holds(f) == IF f.Name \notin shared THEN y[f.Name] = ZeroOf(f)
                    ELSE LET u == x[f.Name]  w == y[f.Name] IN
                         /\ f.Repeated <=> f.Name \in lists
                         /\ IF f.Repeated THEN /\ Len(u) = Len(w)
                                               /\ \A i \in DOMAIN u : Same(f, u[i], w[i])
                            ELSE Same(f, u, w)
    IN  IF x = Nil \/ y = Nil THEN x = Nil /\ y = Nil
        ELSE \A f \in ToSet(to.Messages[message]) : Holds(f)

-----------------------------------------------------------------------------
\* A segment of which the generators know every type.
Supported(schema) ==
    LET known == DOMAIN schema.Messages IN
    /\ \A m \in known : \A f \in ToSet(schema.Messages[m]) :
          IsScalarType(f.Type) \/ f.Type \in known
    /\ \A r \in UNION {ToSet(s.RPCs) : s \in {x \in ToSet(schema.Services) : ~x.Event}} :
          r.RequestType \in known \cup {"Empty"} /\ r.ResponseType \in known

\* Whether an adapter answers with the whole of the hub's answer.
Whole(legacy, a) ==
    a.List = Nil \/ Len(legacy.Messages[a.RPC.ResponseType]) = 1

Sound(hub, legacy, plan) ==
    LET converters == GenerateConvert(plan)
        adapters == GenerateAdapters(plan, legacy)
        events == EventRPCs(legacy, HubMeta(hub).EventService)
    IN  /\ ConvertersCalled(converters, adapters, events) \subseteq DOMAIN converters
        /\ \A m \in DOMAIN converters :
              /\ \A x \in ValuesOf(legacy, m, 1) :
                    Carries(legacy, hub, m, x, LegacyToHub(converters, hub, m, x))
              /\ \A x \in ValuesOf(hub, m, 1) :
                    Carries(hub, legacy, m, x, HubToLegacy(converters, legacy, m, x))
        /\ \A a \in {b \in adapters : b.Mode # "UNIMPLEMENTED" /\ Whole(legacy, b)} :
              \A x \in ValuesOf(hub, a.RPC.ResponseType, 1) :
                 Carries(hub, legacy, a.RPC.ResponseType, x,
                         AdapterAnswer(converters, legacy, a, x))

SoundPlans == Table([x \in Pairs |->
    LET hub == Schemas["hub", x[2]]  legacy == Schemas[x[1], x[3]] IN
    Plans[x].Errors = {} /\ Supported(hub) /\ Supported(legacy) => Sound(hub, legacy, Plans[x])])

\* Where nothing has to be written by hand and every type is supported, the
\* converters that are generated call only converters that are generated, carry
\* every field the two versions share in both directions and leave the others
\* zero, and an adapter's answer is the whole answer of the hub, a list call
\* with more than its list excepted.  The runtime calls only functions that
\* protoc-gen-zengo wrote, when the event service has a consumer and the
\* descriptors are not stale.
ConversionSound ==
    LET runtime == out["gen/zengo"].runtime
        Functions(seg) == GenerateFile(SegmentOf(seg, out["gen/zengo"].register[seg]), seg)
        meta == HubMeta(Schemas["hub", runtime.Hub])
    IN  /\ \A v \in Versions : LET c == out["gen/zengo"].convert[v] IN
              c # Nil => SoundPlans[v, c.Hub, c.Legacy]
        /\ runtime # Nil =>
              (runtime.Hub = out["gen/zengo"].register["hub"] =>
                (Functions("hub").Consumers # <<>> \/ meta.EventService = "" =>
                    RuntimeCalls(Functions("hub"), meta, {}) \subseteq Functions("hub").Functions))
=============================================================================
