----------------------------- MODULE Versioning -----------------------------
(***************************************************************************)
(* API versions: src/internal/versioning.  The hub is the API under         *)
(* development, vN a frozen copy of it.  The loader reads the Go code that  *)
(* protoc-gen-go made of them, BuildPlan compares the two, and the          *)
(* generators write converters between their messages, an adapter that      *)
(* serves vN by the hub's handler, and the wiring.  The templates are in    *)
(* src/internal/codegen/templates.                                          *)
(*                                                                          *)
(* The messages of vN keep the names they have in the hub.  A converter is  *)
(* its list of field mappings; what running one does is in Conversions.     *)
(***************************************************************************)
EXTENDS ProtoPlugin, Functions, TLC

-----------------------------------------------------------------------------
(* Freezing.                                                                *)

\* transformFrozenProto: the package and the import paths become those of the
\* version, and so do the REST paths, except one that begins with "/v".
FrozenPath(path, version, vDirs) ==
    IF path = <<>> THEN path ELSE IF path[1] \in vDirs THEN path ELSE <<version>> \o path

FreezeSegment(hub, version, vDirs) ==
    LET Method(m) == [m EXCEPT !.Path = FrozenPath(@, version, vDirs)]
        Service(s) == [s EXCEPT !.Methods = [j \in DOMAIN @ |-> Method(@[j])]]
    IN  [i \in DOMAIN hub |->
            [hub[i] EXCEPT !.Services = [k \in DOMAIN @ |-> Service(@[k])]]]

-----------------------------------------------------------------------------
(* Loading.                                                                 *)

\* gengoTypeName, of the Go type protoc-gen-go gives a field.
GengoTypeName(f) ==
    CASE f.Kind = "double" -> "float64" [] f.Kind = "float" -> "float32"
      [] f.Kind = "bytes" -> "byte"
      [] f.Kind \in {"message", "enum"} -> f.Of
      [] OTHER -> f.Kind

\* fileDescriptor: the first file of the package, resolved without any of the
\* files it imports.
FileDescriptor(segment) == IF segment[1].Imports = {} THEN segment[1] ELSE Failed

FieldMapLegacyName(segment, message, f) ==
    LET file == FileDescriptor(segment) IN
    IF file = Failed THEN ""
    ELSE IF message \in DOMAIN file.Messages THEN f.LegacyName ELSE ""

MemberToField(segment, message, f) ==
    [Name |-> f.Name, Type |-> GengoTypeName(f), Repeated |-> f.Repeated \/ f.Kind = "bytes",
     LegacyName |-> FieldMapLegacyName(segment, message, f)]

InterfaceToService(s) ==
    [Name |-> s.Name, Event |-> s.Event,
     RPCs |-> [j \in DOMAIN s.Methods |->
        [Name |-> s.Methods[j].Name, RequestType |-> s.Methods[j].Request,
         ResponseType |-> s.Methods[j].Response, Service |-> s.Name]]]

\* buildSegmentSchema: the services of a segment are given in the order of their names.
SchemaOf(segment) ==
    [Messages |-> [m \in Messages(segment) |->
        [i \in DOMAIN FieldsOf(segment, m) |-> MemberToField(segment, m, FieldsOf(segment, m)[i])]],
     Services |-> [i \in DOMAIN Services(segment) |-> InterfaceToService(Services(segment)[i])]]

\* NewLoader: every segment has to have packages.  A loader is kept for the life
\* of the process, under the names of the packages.
NewLoader(cache, api, legacy) ==
    LET key == {"hub"} \cup legacy IN
    IF \E s \in key : api[s] = Nil THEN Failed
    ELSE IF key \in DOMAIN cache THEN cache[key]
    ELSE [s \in key |-> api[s]]

RememberLoader(cache, loader) ==
    IF loader = Failed THEN cache
    ELSE [k \in DOMAIN cache \cup {DOMAIN loader} |->
            IF k \in DOMAIN cache THEN cache[k] ELSE loader]

\* HubMeta: the first service, and the first that handles events.
HubMeta(schema) ==
    LET Named(event) == SelectSeq(schema.Services, LAMBDA s : s.Event = event)
        First(s) == IF s = <<>> THEN "" ELSE s[1].Name
    IN  IF Named(FALSE) = <<>> THEN Failed
        ELSE [PrimaryService |-> First(Named(FALSE)), EventService |-> First(Named(TRUE))]

\* rpcKafkaConsume: the directory of a package is known by its path below the
\* working directory, and asked for by its import path in the module.
SourceDirs(loader) == {<<"./gen/api", s>> : s \in DOMAIN loader}
RPCKafkaConsume(loader, version, method) ==
    IF <<"module/gen/api", version>> \notin SourceDirs(loader) THEN Nil ELSE method.Consume

-----------------------------------------------------------------------------
(* The plan.                                                                *)

\* The hub's field for a field of the old message: by name, or by the old name
\* it declares; Nil when the hub has it no more.
HubFieldFor(hub, lf) ==
    LET Find(P(_)) == SelectSeq(hub, P)
        same == Find(LAMBDA h : h.Name = lf.Name)
        renamed == Find(LAMBDA h : h.LegacyName = lf.Name)
    IN  IF same # <<>> THEN same[1] ELSE IF renamed # <<>> THEN renamed[1] ELSE Nil

\* Mutant: whether a field is repeated is not compared.
CompareMessagesByType(hub, legacy) ==
    LET mapped == SelectSeq(legacy, LAMBDA lf : HubFieldFor(hub, lf) # Nil)
        Pair(lf) == [HubField |-> HubFieldFor(hub, lf).Name, LegacyField |-> lf.Name,
                     Type |-> lf.Type, Repeated |-> HubFieldFor(hub, lf).Repeated \/ lf.Repeated]
    IN  [Mode |-> IF \E i \in DOMAIN mapped : HubFieldFor(hub, mapped[i]).Type # mapped[i].Type
                  THEN "MANUAL" ELSE "AUTO",
         Fields |-> [i \in DOMAIN mapped |-> Pair(mapped[i])]]

\* A field that only one of the two messages has is left at its zero value.
CompareMessages(hub, legacy) ==
    LET mapped == SelectSeq(legacy, LAMBDA lf : HubFieldFor(hub, lf) # Nil)
        Pair(lf) == [HubField |-> HubFieldFor(hub, lf).Name, LegacyField |-> lf.Name,
                     Type |-> lf.Type, Repeated |-> HubFieldFor(hub, lf).Repeated \/ lf.Repeated]
        Changed(lf) == \/ HubFieldFor(hub, lf).Type # lf.Type
                       \/ HubFieldFor(hub, lf).Repeated # lf.Repeated
    IN  [Mode |-> IF \E i \in DOMAIN mapped : Changed(mapped[i]) THEN "MANUAL" ELSE "AUTO",
         Fields |-> [i \in DOMAIN mapped |-> Pair(mapped[i])]]

AllRPCs(schema) == UNION {ToSet(s.RPCs) : s \in ToSet(schema.Services)}

CompareRPC(hub, lr) ==
    LET same == {h \in AllRPCs(hub) : h.Name = lr.Name} IN
    IF same = {} THEN "UNIMPLEMENTED"
    ELSE IF \E h \in same : h.RequestType = lr.RequestType /\ h.ResponseType = lr.ResponseType
         THEN "AUTO" ELSE "MANUAL"

\* What has to be written by hand, under the name of the file it is looked for in.
BuildPlan(hub, legacy) ==
    LET kept == DOMAIN legacy.Messages \cap DOMAIN hub.Messages
        conversions == [m \in kept |-> CompareMessages(hub.Messages[m], legacy.Messages[m])]
        modes == [r \in AllRPCs(legacy) |-> CompareRPC(hub, r)]
        Manual(message, path) == [LegacyMessage |-> message, ManualPath |-> path]
    IN  [Messages |-> conversions,
         RPCs |-> modes,
         Errors |->
            {Manual(m, <<m>>) : m \in DOMAIN legacy.Messages \ kept}
            \cup {Manual(m, <<m>>) : m \in {k \in kept : conversions[k].Mode = "MANUAL"}}
            \cup {Manual("", <<r.Service, r.Name>>) :
                    r \in {x \in DOMAIN modes : modes[x] = "MANUAL"}}
            \cup {Manual("", <<r.Service, r.Name, "removed">>) :
                    r \in {x \in DOMAIN modes : modes[x] = "UNIMPLEMENTED"}}]

\* hasManualConverter: a file whose name contains the message's, which is any
\* file for a call, as its message is "".
HasManualConverter(files, message) ==
    \E f \in files : message = "" \/ message \in ToSet(f)

\* checkManualRequired, run from the root of the service.
ManualProvided(plan, files) ==
    \A e \in plan.Errors : e.ManualPath \in files \/ HasManualConverter(files, e.LegacyMessage)

-----------------------------------------------------------------------------
(* What is generated from the plan.                                         *)

IsScalarType(t) ==
    t \in {"string", "bytes", "bool", "double", "float", "int32", "int64", "uint32", "uint64",
           "sint32", "sint64", "fixed32", "fixed64", "sfixed32", "sfixed64"}

GenerateConvert(plan) ==
    Restrict(plan.Messages, {m \in DOMAIN plan.Messages : plan.Messages[m].Mode = "AUTO"})

\* repeatedMessageField: the first list of messages of a message.
RepeatedMessageField(schema, message) ==
    IF message \notin DOMAIN schema.Messages THEN Nil
    ELSE LET lists == SelectSeq(schema.Messages[message],
                                LAMBDA f : f.Repeated /\ ~IsScalarType(f.Type))
         IN  IF lists = <<>> THEN Nil ELSE lists[1]

GenerateAdapters(plan, legacy) ==
    LET served == {s \in ToSet(legacy.Services) : ~s.Event}
        Adapter(r) ==
            [RPC |-> r, Mode |-> plan.RPCs[r],
             List |-> IF r.RequestType = "Empty" THEN RepeatedMessageField(legacy, r.ResponseType)
                      ELSE Nil]
    IN  {Adapter(r) : r \in UNION {ToSet(s.RPCs) : s \in served}}

\* generateEventAdapters: a handler for every call of the event service, and the
\* consumers registered for a version.
EventRPCs(legacy, event) ==
    UNION {ToSet(s.RPCs) : s \in {x \in ToSet(legacy.Services) : x.Name = event}}
EventConsumers(loader, version, legacy, event) ==
    {m \in UNION {ToSet(s.Methods) : s \in {x \in ToSet(Services(legacy)) : x.Name = event}} :
        RPCKafkaConsume(loader, version, m) # Nil}

\* kafkaHubRegistrarName: read off the file protoc-gen-zengo wrote.
KafkaHubRegistrarName(register, meta) ==
    IF register.Consumers # <<>> THEN register.Consumers[1]
    ELSE <<"Register", meta.EventService, "hub">>

\* The names protoc-gen-zengo gives its functions, put together a second time.
RegisterGRPCName(service, version) == <<"RegisterGRPC", service, version>>
GatewayRegisterName(service, version) == <<"GatewayRegister", service, version>>

\* generateRuntime and generateWire: the functions they call.
RuntimeCalls(register, meta, versions) ==
    {RegisterGRPCName(meta.PrimaryService, "hub"), GatewayRegisterName(meta.PrimaryService, "hub")}
    \cup {GatewayRegisterName(meta.PrimaryService, v) : v \in versions}
    \cup IF meta.EventService = "" THEN {} ELSE {KafkaHubRegistrarName(register, meta)}

\* The converters that the converters, the adapters and the event handlers call.
ConvertersCalled(converters, adapters, events) ==
    LET Types(c) == {f.Type : f \in ToSet(c.Fields)}
        Of(a) == IF a.Mode = "UNIMPLEMENTED" THEN {}
                 ELSE IF a.List # Nil THEN {a.List.Type}
                 ELSE {a.RPC.ResponseType}
                      \cup IF a.RPC.RequestType = "Empty" THEN {} ELSE {a.RPC.RequestType}
    IN  {t \in UNION {Types(converters[m]) : m \in DOMAIN converters} : ~IsScalarType(t)}
        \cup UNION {Of(a) : a \in adapters}
        \cup {r.RequestType : r \in events}
=============================================================================
