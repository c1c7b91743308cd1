---------------------------- MODULE ProtoPlugin ----------------------------
(***************************************************************************)
(* The protobuf sources of a service and what is made of them before the    *)
(* versioning generator reads the result: the functions and the repository  *)
(* schema protoc-gen-zengo writes (src/cmd/protoc-gen-zengo), and the       *)
(* baseline Postgres migration (src/internal/generator/migration.go).       *)
(*                                                                          *)
(* A directory under api/ is a sequence of files in the order of their      *)
(* names.  A file has messages (sequences of fields), services and imports; *)
(* its services are all in one file, as in the scaffold.  The kind of a     *)
(* field is the protobuf one; "message" fields name theirs in Of.           *)
(***************************************************************************)
EXTENDS Naturals, SequencesExt

CONSTANTS Nil, Failed

Messages(segment) == UNION {DOMAIN segment[i].Messages : i \in 1..Len(segment)}
FieldsOf(segment, message) ==
    segment[CHOOSE i \in 1..Len(segment) : message \in DOMAIN segment[i].Messages].Messages[message]
Services(segment) == FlattenSeq([i \in 1..Len(segment) |-> segment[i].Services])

\* isEventService: the name ends in EventHandler.
IsEventService(svc) == svc.Event

-----------------------------------------------------------------------------
(* register_<version>.pb.go: the functions by which a version is served.  A *)
(* name that the generators put together is the sequence of its parts.      *)

RegisterName(svc, version) == <<"RegisterGRPC", svc, version>>
GatewayName(svc, version) == <<"GatewayRegister", svc, version>>
KafkaHandlerName(svc, method) == <<"Register", svc, method, "hub">>

\* generateFile: what is in the file, and its consumers in the order they are
\* written.  Only the hub produces and consumes events.
GenerateFile(segment, version) ==
    LET all == Services(segment)
        calls == {s \in ToSet(all) : ~IsEventService(s)}
        Marked(s, option) == SelectSeq(s.Methods, LAMBDA m : m[option] # Nil)
        Consumers(s) == IF ~IsEventService(s) THEN <<>>
                        ELSE LET ms == Marked(s, "Consume")
                             IN  [i \in 1..Len(ms) |-> KafkaHandlerName(s.Name, ms[i].Name)]
        consumers == IF version = "hub" THEN FlattenSeq([i \in 1..Len(all) |-> Consumers(all[i])])
                     ELSE <<>>
    IN  [Consumers |-> consumers,
         Functions |->
            {RegisterName(s.Name, version) : s \in calls}
            \cup {GatewayName(s.Name, version) : s \in calls}
            \cup ToSet(consumers)
            \cup IF version # "hub" THEN {}
                 ELSE UNION {{<<"Publish", m.Name>> : m \in ToSet(Marked(s, "Produce"))} :
                             s \in calls}]

-----------------------------------------------------------------------------
(* schema_gen.json: the tables of the hub's repositories.                   *)

InferPostgresType(f) ==
    IF f.Repeated THEN Failed
    ELSE CASE f.Kind = "string" -> "TEXT" [] f.Kind = "bool" -> "BOOLEAN"
           [] f.Kind \in {"int32", "sint32", "uint32", "fixed32", "sfixed32"} -> "INTEGER"
           [] f.Kind \in {"int64", "sint64", "uint64", "fixed64", "sfixed64"} -> "BIGINT"
           [] f.Kind = "float" -> "REAL" [] f.Kind = "double" -> "DOUBLE PRECISION"
           [] f.Kind = "bytes" -> "BYTEA"
           [] f.Kind = "message" /\ f.Of = "Timestamp" -> "TIMESTAMPTZ"
           [] OTHER -> Failed

BuildRepositoryColumn(f) ==
    LET c == f.Column
        type == IF c # Nil /\ c.SqlType # "" THEN c.SqlType ELSE InferPostgresType(f)
    IN  IF c # Nil /\ c.Ignore THEN Nil
        ELSE IF type = Failed THEN Failed
        ELSE [Name |-> f.Name, SQLType |-> type, PrimaryKey |-> c # Nil /\ c.PrimaryKey]

BuildRepositorySchema(file, repository) ==
    IF repository.Model \notin DOMAIN file.Messages THEN Failed
    ELSE LET all == {BuildRepositoryColumn(f) : f \in ToSet(file.Messages[repository.Model])}
             columns == all \ {Nil}
         IN  IF Failed \in all \/ Cardinality({c \in columns : c.PrimaryKey}) # 1 THEN Failed
             ELSE [Table |-> repository.Table, Columns |-> columns]

\* collectRepositorySchemas: one table per service, no table twice.
CollectRepositorySchemas(hub) ==
    LET Owned(i) == {s \in ToSet(hub[i].Services) : ~IsEventService(s) /\ s.Repository # Nil}
        owners == UNION {{<<i, s>> : s \in Owned(i)} : i \in 1..Len(hub)}
        schemas == {BuildRepositorySchema(hub[o[1]], o[2].Repository) : o \in owners}
    IN  IF Failed \in schemas THEN Failed
        ELSE IF Cardinality({r.Table : r \in schemas}) < Cardinality(owners) THEN Failed
        ELSE schemas

-----------------------------------------------------------------------------
(* migrations/001_init.sql: rewritten as long as it carries the header.     *)

Managed(file) == file = Nil \/ file.Header

ShouldTrackPostgresMigration(postgres, file, schemas) ==
    /\ postgres
    /\ IF file = Nil THEN schemas \notin {Nil, {}} ELSE file.Header

\* GeneratePostgresMigrationAt: the file afterwards, Failed without metadata.
GeneratePostgresMigration(postgres, file, schemas) ==
    IF ~postgres THEN file
    ELSE IF schemas = Nil THEN Failed
    ELSE IF schemas = {} \/ ~Managed(file) THEN file
    ELSE [Header |-> TRUE, Body |-> schemas]
=============================================================================
