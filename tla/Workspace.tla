----------------------------- MODULE Workspace -----------------------------
(***************************************************************************)
(* The zengo command line on a service directory: src/cmd/zengo, with       *)
(* src/internal/scaffold, generator and versioning.  Three actors share the *)
(* files without a lock: one command at a time (init, gen, check, add,      *)
(* version freeze), `zengo dev`, and the developer's editor.                *)
(*                                                                          *)
(* src is what people write, out what is generated, by the targets of the   *)
(* freshness check.  Generated code is kept as its provenance: the sources  *)
(* it was made from.  The sources of an API segment are the numbers, in     *)
(* Hubs, of the hub revisions its files were taken from.  Each stage of a   *)
(* generation is one step.                                                  *)
(***************************************************************************)
EXTENDS Versioning, OpenApi

CONSTANTS
    Hubs,          \* the revisions of api/hub; each has the same number of files
    VersionNames,  \* the names versions are frozen under, in order
    VDirs,         \* the REST directories whose name begins with v
    Scaffold,      \* the manifest of a new service
    Bare,          \* the manifest of an older service without a database
    BareHubs,      \* the revisions of the hub that such a service may be at
    Manifests,     \* the manifests the editor may write
    AddTargets,    \* the targets given to zengo add
    GenFlags,      \* the sets of flags zengo gen is run with
    ManualFiles,   \* the converters the editor may write
    MaxCommands,   \* how many commands are run
    MaxEdits       \* how many edits are made

M == INSTANCE Manifest

NumFiles == Len(Hubs[1])

\* The flags of the commands.  The linter, go vet and the tests of a check leave
\* the directory alone, so that only the flags of its freshness check are here.
GenCommand == SUBSET {"skipBuf", "protoOnly", "wireOnly", "skipSQLC", "skipCQL", "skipMain"}
CheckCommand == SUBSET {"skipGen", "skipBuf"}

ASSUME WorkspaceAssumption ==
    /\ Nil \notin {"", "enabled", "disabled"}
    /\ NumFiles \in Nat \ {0}
    /\ \A h \in DOMAIN Hubs : Len(Hubs[h]) = NumFiles
    /\ ToSet(VersionNames) \subseteq VersionDirs
    /\ VersionDirs \subseteq VDirs
    /\ BareHubs \subseteq DOMAIN Hubs
    /\ GenFlags \subseteq GenCommand
    /\ \A pb \in {Scaffold, Bare} \cup Manifests : pb # Nil /\ M!IsManifest(pb)
    /\ MaxCommands \in Nat /\ MaxEdits \in Nat

VARIABLES src, out, tool, dev, edits, commands

vars == <<src, out, tool, dev, edits, commands>>

-----------------------------------------------------------------------------
(* Provenance, and what is made of it.  These depend on no variable.        *)

Versions == ToSet(VersionNames)
Segments == {"hub"} \cup Versions
HubRef(h) == [i \in 1..NumFiles |-> h]
Refs == UNION {[1..n -> DOMAIN Hubs] : n \in 0..NumFiles}

SegmentOf(seg, ref) ==
    LET files == [i \in DOMAIN ref |-> Hubs[ref[i]][i]] IN
    IF seg = "hub" THEN files ELSE FreezeSegment(files, seg, VDirs)

\* buf: every type a file names is defined in the segment or imported.
Compiles(ref) ==
    LET seg == SegmentOf("hub", ref)
        known == Messages(seg) \cup {"Empty", "Timestamp"}
        calls == UNION {ToSet(s.Methods) : s \in ToSet(Services(seg))}
    IN  /\ \A m \in Messages(seg) : \A f \in ToSet(FieldsOf(seg, m)) :
              f.Kind = "message" => f.Of \in known
        /\ \A m \in calls : {m.Request, m.Response} \subseteq known
Sources == {ref \in Refs : Compiles(ref)}

\* A function given by all its values, which TLC then computes once.
Table(f) == f @@ <<>>
Schemas == Table([x \in Segments \X Sources |-> SchemaOf(SegmentOf(x[1], x[2]))])
Tables == Table([h \in DOMAIN Hubs |-> CollectRepositorySchemas(Hubs[h])])
\* By the version, and the sources of the hub and of the version.
Pairs == Versions \X {ref \in Sources : Len(ref) = NumFiles} \X Sources
Plans == Table([x \in Pairs |-> BuildPlan(Schemas["hub", x[2]], Schemas[x[1], x[3]])])

\* The documents buf leaves under gen/openapi, and what the split makes of them.
RawDocs(refs) ==
    [seg \in DOMAIN refs |->
        LET segment == SegmentOf(seg, refs[seg])
        IN  [i \in DOMAIN segment |-> Swagger(seg, segment, i)]]
CombinedDoc(refs) == SwaggerMerged(FlattenSeq(SetToSeq({RawDocs(refs)[s] : s \in DOMAIN refs})))
SplitOf(refs, merged) ==
    IF merged THEN SplitOpenAPI(<<>>, CombinedDoc(refs)) ELSE SplitOpenAPI(RawDocs(refs), Nil)
Layouts ==
    UNION {{layout \in [segs -> Sources] : layout["hub"] \in {HubRef(h) : h \in DOMAIN Hubs}} :
           segs \in {{"hub"} \cup some : some \in SUBSET Versions}}
Splits == Table([x \in Layouts \X BOOLEAN |-> SplitOf(x[1], x[2])])
NothingToSplit(refs) == refs = <<>> \/ Nil \in Splits[refs, FALSE]

-----------------------------------------------------------------------------
Targets == <<"gen/api", "gen/zengo", "gen/db", "gen/cql", ".cursor/rules",
             "docs/PROTO_REGISTRY.md", "cmd/main.go", "gen/openapi", "migrations/001_init.sql">>

NoApi == [seg \in Segments |-> Nil]
\* The targets before anything is generated.
Absent(t) ==
    CASE t = "gen/api" -> NoApi
      [] t = "gen/zengo" -> [register |-> NoApi, schema |-> Nil,
                             convert |-> [v \in Versions |-> Nil], runtime |-> Nil]
      [] t = "gen/openapi" -> [raw |-> <<>>, docs |-> Nil]
      [] OTHER -> Nil

\* The API as it stands: the sources of each segment that has a directory.
ApiNow == [seg \in {"hub"} \cup {v \in Versions : src.frozen[v] # Nil} |->
              IF seg = "hub" THEN HubRef(src.hub) ELSE src.frozen[seg]]

\* The segments that have files, which are the ones buf generates from.
ApiFiles == [seg \in {s \in DOMAIN ApiNow : ApiNow[s] # <<>>} |-> ApiNow[seg]]

\* What buf leaves of them beside what it left before.
Beside(old) == [seg \in DOMAIN ApiFiles \cup DOMAIN old |->
                   IF seg \in DOMAIN ApiFiles THEN ApiFiles[seg] ELSE old[seg]]

\* FindPath: the manifest of the service, and one in another format beside it.
Found == (IF src.manifest = Nil THEN {} ELSE {"zengo.textproto"})
         \cup IF src.twin THEN {"zengo.yaml"} ELSE {}
ManifestPath == M!ResolveManifestPath("", Found)

\* resolveServicePaths and manifest.Load, for a path that was found.
Service == IF src.manifest = Nil THEN Failed ELSE M!Load(src.manifest)
Postgres(m) == IF m.DB = Nil THEN FALSE ELSE m.DB.Postgres # Nil

\* Discover and legacyVersionsForMode.
LegacyVersions(m) ==
    IF M!LegacyCompatibilityMode(m) = "disabled" THEN {} ELSE DOMAIN ApiNow \ {"hub"}

-----------------------------------------------------------------------------
(* The stages of runGenerateAll.  A stage is given a generation under way    *)
(* (the stages it has, the manifest as it is now, the outputs, the loader    *)
(* cache of the process and whether all went well) and gives it back.        *)

Skips(g, stage) == ~g.ok \/ stage \notin g.stages
Fails(g) == [g EXCEPT !.ok = FALSE]

\* buf generate: nothing is written when a plugin refuses its input, and what
\* was generated for a version that is gone is not removed.
Buf(g) ==
    LET Over(old) == [seg \in Segments |-> IF seg \in DOMAIN ApiFiles THEN ApiFiles[seg] ELSE old[seg]]
    IN  IF Skips(g, "buf") THEN g
        ELSE IF Tables[src.hub] = Failed \/ \E seg \in DOMAIN ApiFiles : ApiFiles[seg] \notin Sources
        THEN Fails(g)
        ELSE [g EXCEPT !.out["gen/api"] = Over(@),
                       !.out["gen/zengo"].register = Over(@),
                       !.out["gen/zengo"].schema = src.hub,
                       !.out["gen/openapi"].raw = Beside(@)]

\* SplitOpenAPIAt, for the options in the buf.gen.yaml of the scaffold.
SplitInto(g, outcomes) ==
    IF Skips(g, "split") THEN g
    ELSE IF Failed \in outcomes THEN Fails(g)
    ELSE IF Nil \in outcomes THEN g
    ELSE [g EXCEPT !.out["gen/openapi"] = [raw |-> <<>>, docs |-> @.raw]]
Split(g) ==
    LET raw == g.out["gen/openapi"].raw IN
    SplitInto(g, IF raw = <<>> THEN {Nil} ELSE Splits[raw, FALSE])

\* What is made for a version, with the consumers its event adapter registers.
Adapted(v, loader) ==
    [Hub |-> loader["hub"], Legacy |-> loader[v],
     Consumers |-> EventConsumers(loader, v, SegmentOf(v, loader[v]),
                                  HubMeta(Schemas["hub", loader["hub"]]).EventService)]

\* versioning.Generate after the cleanup: versions in order, up to the first that
\* needs code by hand.  The converters and the adapters of a version are made
\* together.
GenerateVersions(g, legacy, loader, refused) ==
    LET done == {VersionNames[i] : i \in {j \in DOMAIN VersionNames :
                    VersionNames[j] \in legacy /\ \A k \in 1..j : VersionNames[k] \notin refused}}
        converted == [g EXCEPT !.cache = RememberLoader(@, loader),
                        !.out["gen/zengo"].convert = [v \in Versions |->
                          IF v \in done THEN Adapted(v, loader) ELSE @[v]]]
        runtime == [Hub |-> loader["hub"], Register |-> g.out["gen/zengo"].register["hub"],
                    Versions |-> legacy]
    IN  IF loader = Failed THEN Fails(g)
        ELSE IF HubMeta(Schemas["hub", loader["hub"]]) = Failed
        THEN [Fails(g) EXCEPT !.cache = RememberLoader(@, loader)]
        ELSE IF refused # {} THEN Fails(converted)
        ELSE [converted EXCEPT !.out["gen/zengo"].runtime = runtime]

\* cleanupStaleVersions, NewLoader and the rest of Generate.
Generate(g, legacy, loader) ==
    GenerateVersions([g EXCEPT !.out["gen/zengo"].convert =
                         [v \in Versions |-> IF v \in legacy THEN @[v] ELSE Nil]],
        legacy, loader,
        {v \in legacy : ~ManualProvided(Plans[v, loader["hub"], loader[v]], src.manual[v])})

\* The schema protoc-gen-zengo left, Nil when there is none.
RepositorySchema(o) == IF o["gen/zengo"].schema = Nil THEN Nil ELSE Tables[o["gen/zengo"].schema]

\* GeneratePostgresMigrationAt, after the versions.
Migrate(g) ==
    LET file == GeneratePostgresMigration(
                    Postgres(g.manifest), g.out["migrations/001_init.sql"], RepositorySchema(g.out))
    IN  IF ~g.ok THEN g
        ELSE IF file = Failed THEN Fails(g)
        ELSE [g EXCEPT !.out["migrations/001_init.sql"] = file]

Wire(g) ==
    LET legacy == LegacyVersions(g.manifest) IN
    IF Skips(g, "wire") THEN g
    ELSE IF g.manifest = Failed THEN Fails(g)
    ELSE Migrate(Generate(g, legacy, NewLoader(g.cache, g.out["gen/api"], legacy)))

MigrationBody(o) == IF o["migrations/001_init.sql"] = Nil THEN Nil
                    ELSE o["migrations/001_init.sql"].Body

Sqlc(g) ==
    IF Skips(g, "sqlc") \/ "sqlc.yaml" \notin src.files THEN g
    ELSE [g EXCEPT !.out["gen/db"] = [queries |-> src.queries, schema |-> MigrationBody(g.out)]]

\* cqlgen.Generate, when there is a cql directory.
Cql(g) == IF Skips(g, "cql") \/ src.cql = 0 THEN g ELSE [g EXCEPT !.out["gen/cql"] = src.cql]

\* shouldTrackGeneratedMain.
ShouldTrackGeneratedMain(o) == Managed(o["cmd/main.go"])

\* Mutant: a main.go without the header is rewritten too.
MainAlways(g) ==
    IF Skips(g, "docs") THEN g
    ELSE IF g.manifest = Failed THEN Fails(g)
    ELSE [g EXCEPT
            !.out["cmd/main.go"] = IF "main" \in g.stages
                                   THEN [Header |-> TRUE, Body |-> M!GenerateMain(g.manifest)] ELSE @,
            !.out[".cursor/rules"] = g.manifest.Service.Name,
            !.out["docs/PROTO_REGISTRY.md"] = g.manifest.Service.Name]

\* runGenerateMainOptsIn.
Main(g) ==
    LET renders == "main" \in g.stages /\ (g.force \/ ShouldTrackGeneratedMain(g.out)) IN
    IF Skips(g, "docs") THEN g
    ELSE IF g.manifest = Failed THEN Fails(g)
    ELSE IF renders /\ M!GenerateMain(g.manifest) = Failed THEN Fails(g)
    ELSE [g EXCEPT
            !.out["cmd/main.go"] = IF renders
                                   THEN [Header |-> TRUE, Body |-> M!GenerateMain(g.manifest)] ELSE @,
            !.out[".cursor/rules"] = g.manifest.Service.Name,
            !.out["docs/PROTO_REGISTRY.md"] = g.manifest.Service.Name]

\* runGenerateAll and runGenerateOptsIn: the stages for a set of flags, in groups
\* between which the other actors may act.
Stages(flags) ==
    LET Unless(some, stage) == IF flags \cap some = {} THEN {stage} ELSE {}
        proto == Unless({"skipBuf", "wireOnly"}, "buf") \cup Unless({"wireOnly"}, "split")
        rest == Unless({"skipSQLC", "wireOnly"}, "sqlc") \cup Unless({"skipCQL", "wireOnly"}, "cql")
                \cup Unless({"wireOnly"}, "docs") \cup Unless({"skipMain", "wireOnly"}, "main")
        Group(some) == IF some = {} THEN <<>> ELSE <<some>>
    IN  IF "protoOnly" \in flags THEN <<{"buf", "split"}>>
        ELSE Group(proto) \o <<{"wire"}>> \o Group(rest)

\* The stages of a group, for the path of a manifest or "": zengo gen looks for
\* the manifest in every stage that needs it, the others once and before the first.
Run(group, path, force, cache) ==
    Main(Cql(Sqlc(Wire(Split(Buf(
        [stages |-> group,
         manifest |-> M!Load(M!LoadProto(path, Found, src.manifest)),
         force |-> force,
         out |-> out, cache |-> cache, ok |-> TRUE]))))))

\* A group that runs another program may end there, for reasons of its own.
External(group) == group \cap {"dep", "buf", "sqlc"} # {}

-----------------------------------------------------------------------------
(* Commands.                                                                *)

Idle == [cmd |-> "none", pc |-> "done", path |-> "zengo.textproto", todo |-> <<>>,
         flags |-> {}, again |-> FALSE, force |-> FALSE,
         cache |-> <<>>, targets |-> {}, snapshot |-> <<>>, version |-> "",
         result |-> "", found |-> Nil, alone |-> FALSE]

NoDev == [pc |-> "off", todo |-> <<>>, cache |-> <<>>, roots |-> {}, changed |-> {},
          child |-> "none", undone |-> FALSE]
Gone == [NoDev EXCEPT !.pc = "exited", !.child = dev.child]

\* An empty directory, or the checkout, without generated code, of a service that
\* has no database, before or after its first versions were frozen.
Init ==
    /\ \E hub \in {0} \cup BareHubs, old \in SUBSET Versions :
          src = [manifest |-> IF hub = 0 THEN Nil ELSE Bare, hub |-> hub,
                 frozen |-> [v \in Versions |-> IF hub # 0 /\ v \in old THEN HubRef(1) ELSE Nil],
                 manual |-> [v \in Versions |-> {}], twin |-> FALSE,
                 queries |-> 0, cql |-> 0, files |-> {}]
    /\ out = [t \in ToSet(Targets) |-> Absent(t)]
    /\ tool = Idle
    /\ dev = NoDev
    /\ edits = 0
    /\ commands = 0

\* A watched file was written: its time of modification is later than any that
\* dev has noted.  The times of .cql files are never looked at.
Touch(roots) == dev' = [dev EXCEPT !.changed = @ \cup (roots \cap dev.roots)]

Ready == tool.pc = "done" /\ commands < MaxCommands /\ commands' = commands + 1
InService == src.manifest # Nil

Started(cmd) == [Idle EXCEPT !.cmd = cmd, !.pc = "gen"]
End == tool' = Idle

\* scaffold.InitService: what people write.
Scaffolded ==
    [src EXCEPT !.manifest = Scaffold, !.hub = 1, !.queries = 1,
                !.files = UNION {M!TemplatesOf(t) : t \in
                             {"postgres", "kafka", "nats", "obs", "redis", "s3", "cassandra"}}]

\* executeInit: the directory has to be empty.  The migration of the scaffold has
\* no header.
InitService ==
    /\ Ready
    /\ ~InService
    /\ src' = Scaffolded
    /\ out' = [out EXCEPT !["migrations/001_init.sql"] = [Header |-> FALSE, Body |-> {}]]
    /\ \E noGen \in BOOLEAN :
          tool' = [Started("init") EXCEPT !.force = TRUE,
                      !.todo = IF noGen THEN <<>> ELSE <<{"dep"}>> \o Stages({})]
    /\ UNCHANGED <<dev, edits>>

\* executeGen.
Gen ==
    /\ Ready
    /\ InService
    /\ \E flags \in GenFlags :
          tool' = [Started("gen") EXCEPT !.path = "", !.todo = Stages(flags)]
    /\ UNCHANGED <<src, out, dev, edits>>

\* One stage of the generation a command runs; a check ends in its comparison.
ToolStage ==
    /\ tool.pc = "gen" /\ tool.todo # <<>>
    /\ \E step \in {Run(Head(tool.todo), tool.path, tool.force, tool.cache)} :
       /\ out' = step.out
       /\ IF step.ok THEN tool' = [tool EXCEPT !.todo = Tail(@), !.cache = step.cache]
          ELSE IF tool.cmd = "check"
               THEN tool' = [tool EXCEPT !.pc = "restore", !.todo = <<>>, !.result = "failed"]
               ELSE End
    /\ UNCHANGED <<src, dev, edits, commands>>

ToolProgramFails ==
    /\ tool.pc = "gen" /\ tool.todo # <<>> /\ External(Head(tool.todo))
    /\ IF tool.cmd = "check"
       THEN tool' = [tool EXCEPT !.pc = "restore", !.todo = <<>>, !.result = "failed"]
       ELSE End
    /\ UNCHANGED <<src, out, dev, edits, commands>>

ToolDone ==
    /\ tool.pc = "gen" /\ tool.todo = <<>> /\ tool.cmd # "check"
    /\ End
    /\ UNCHANGED <<src, out, dev, edits, commands>>

\* generatedTargetsIn: what the check looks at.
TrackedTargets(m) ==
    {t \in ToSet(Targets) :
        CASE t = "cmd/main.go" -> ShouldTrackGeneratedMain(out)
          [] t = "gen/openapi" -> m.REST # Nil
          [] t = "migrations/001_init.sql" ->
                ShouldTrackPostgresMigration(Postgres(m), out[t], RepositorySchema(out))
          [] OTHER -> TRUE}

\* runServiceCheck and checkGenFreshIn: the plan and the snapshot.  found and
\* alone are for the properties: what the check found, and whether no one else
\* has acted since.
Check ==
    /\ Ready
    /\ ManifestPath # Failed /\ Service # Failed
    /\ \E flags \in CheckCommand :
       IF "skipGen" \in flags THEN End
       ELSE \E targets \in {TrackedTargets(Service)} :
            tool' = [Started("check") EXCEPT
                        !.flags = flags, !.again = "skipBuf" \notin flags, !.todo = Stages(flags),
                        !.force = ShouldTrackGeneratedMain(out), !.targets = targets,
                        !.snapshot = [t \in targets |-> out[t]],
                        !.found = out, !.alone = dev.pc \in {"off", "exited"}]
    /\ UNCHANGED <<src, out, dev, edits>>

\* The second generation, without buf, and then diffGeneratedTargets.
CheckGenerated ==
    /\ tool.cmd = "check" /\ tool.pc = "gen" /\ tool.todo = <<>>
    /\ tool' = IF tool.again THEN [tool EXCEPT !.todo = Stages({"skipBuf"}), !.again = FALSE]
               ELSE [tool EXCEPT !.pc = "restore",
                        !.result = IF \E t \in DOMAIN tool.snapshot : out[t] # tool.snapshot[t]
                                   THEN "stale" ELSE "ok"]
    /\ UNCHANGED <<src, out, dev, edits, commands>>

\* Mutant: what was not there before is not removed.
RestoredKeepsNew(upTo) ==
    [t \in DOMAIN out |->
        IF t \in tool.targets /\ \E i \in 1..upTo : Targets[i] = t
        THEN IF tool.snapshot[t] = Absent(t) THEN out[t] ELSE tool.snapshot[t]
        ELSE out[t]]

\* restoreGeneratedTargets, in the order of Targets, up to one of them.
Restored(upTo) ==
    [t \in DOMAIN out |-> IF t \in tool.targets /\ \E i \in 1..upTo : Targets[i] = t
                         THEN tool.snapshot[t] ELSE out[t]]

CheckRestores ==
    /\ tool.pc = "restore"
    /\ out' = Restored(Len(Targets))
    /\ End
    /\ dev' = [dev EXCEPT !.undone = @ \/ dev.pc \notin {"off", "exited"}]
    /\ UNCHANGED <<src, edits, commands>>

\* The first error ends it: that target is removed and not yet written again,
\* the later ones keep what was generated, and the backup is deleted.
CheckRestoreStops ==
    /\ tool.pc = "restore"
    /\ \E i \in DOMAIN Targets :
          /\ Targets[i] \in tool.targets
          /\ out' = [Restored(i - 1) EXCEPT ![Targets[i]] = Absent(Targets[i])]
    /\ End
    /\ dev' = [dev EXCEPT !.undone = @ \/ dev.pc \notin {"off", "exited"}]
    /\ UNCHANGED <<src, edits, commands>>

\* executeAdd for one target, with or without the generation after it.
Add ==
    /\ Ready
    /\ InService
    /\ \E target \in AddTargets, gen \in BOOLEAN :
       LET manifest == IF ManifestPath = Failed THEN Failed ELSE M!Add(src.manifest, target)
           brought == M!TemplatesOf(target) \ src.files
       IN  IF manifest = Failed
           THEN /\ End
                /\ UNCHANGED <<src, dev>>
           ELSE /\ src' = [src EXCEPT !.manifest = manifest, !.files = @ \cup brought,
                              !.queries = IF @ = 0 /\ "queries/app.sql" \in brought THEN 1 ELSE @]
                /\ Touch({"manifest", "configs"})
                /\ tool' = [Started("add") EXCEPT !.version = target,
                               !.todo = IF gen THEN Stages({}) ELSE <<>>]
    /\ UNCHANGED <<out, edits>>

\* runVersion, freezeVersion and Freeze: the generated hub has to be there, the
\* directory of the version must not.
Freeze ==
    /\ Ready
    /\ InService
    /\ \E v \in Versions :
       LET hub == out["gen/api"]["hub"]
           refused == IF hub = Nil \/ src.frozen[v] # Nil THEN TRUE
                      ELSE HubMeta(Schemas["hub", hub]) = Failed
       IN  IF refused
           THEN /\ End
                /\ UNCHANGED <<src, dev>>
           ELSE /\ tool' = [Started("freeze") EXCEPT !.pc = "copy", !.version = v]
                /\ src' = [src EXCEPT !.frozen[v] = <<>>]
                /\ UNCHANGED dev
    /\ UNCHANGED <<out, edits>>

\* One file of the hub, as it is now.
FreezeFile ==
    /\ tool.pc = "copy" /\ Len(src.frozen[tool.version]) < NumFiles
    /\ src' = [src EXCEPT !.frozen[tool.version] = Append(@, src.hub)]
    /\ Touch({"api"})
    /\ UNCHANGED <<out, tool, edits, commands>>

FreezeFails ==
    /\ tool.pc = "copy"
    /\ End
    /\ UNCHANGED <<src, out, dev, edits, commands>>

FreezeManifest ==
    /\ tool.pc = "copy" /\ Len(src.frozen[tool.version]) = NumFiles
    /\ LET pb == M!LoadProto(ManifestPath, Found, src.manifest)
           manifest == IF pb = Failed THEN Failed
                       ELSE M!Update(M!EnableCompatibility(M!FromProto(pb)))
       IN
       IF manifest = Failed THEN End /\ UNCHANGED <<src, dev>>
       ELSE /\ src' = [src EXCEPT !.manifest = manifest]
            /\ Touch({"manifest"})
            /\ End
    /\ UNCHANGED <<out, edits, commands>>

-----------------------------------------------------------------------------
(* zengo dev.                                                               *)

\* devWatchRoots: what is there when dev is started.
DevWatchRoots ==
    {"api", "internal", "manifest"}
    \cup IF src.files = {} THEN {} ELSE {"configs"}
    \cup IF src.queries = 0 THEN {} ELSE {"queries"}

DevStarts ==
    /\ dev.pc = "off" /\ ManifestPath # Failed
    /\ commands < MaxCommands /\ commands' = commands + 1
    /\ dev' = [dev EXCEPT !.pc = "gen", !.todo = Stages({}), !.roots = DevWatchRoots]
    /\ tool' = [tool EXCEPT !.alone = FALSE]
    /\ UNCHANGED <<src, out, edits>>

\* A failed generation ends dev; the service it started is left running.
DevStage ==
    /\ dev.pc = "gen" /\ dev.todo # <<>>
    /\ \E step \in {Run(Head(dev.todo), "zengo.textproto", FALSE, dev.cache)} :
       /\ out' = step.out
       /\ dev' = IF step.ok THEN [dev EXCEPT !.todo = Tail(@), !.cache = step.cache]
                 ELSE Gone
    /\ UNCHANGED <<src, tool, edits, commands>>

DevProgramFails ==
    /\ dev.pc = "gen" /\ dev.todo # <<>> /\ External(Head(dev.todo))
    /\ dev' = Gone
    /\ UNCHANGED <<src, out, tool, edits, commands>>

\* The old service is interrupted and waited for, as long as it takes.
DevInterrupts ==
    /\ dev.pc = "gen" /\ dev.todo = <<>>
    /\ dev' = [dev EXCEPT !.pc = "wait"]
    /\ UNCHANGED <<src, out, tool, edits, commands>>

\* Mutant: the times are noted when the service has been started again.
DevRestartsNotesTimes ==
    /\ dev.pc = "wait" /\ dev.child \in {"none", "ended"}
    /\ dev' = [dev EXCEPT !.pc = "idle", !.child = "running", !.changed = {}]
    /\ UNCHANGED <<src, out, tool, edits, commands>>

DevRestarts ==
    /\ dev.pc = "wait" /\ dev.child \in {"none", "ended"}
    /\ dev' = [dev EXCEPT !.pc = "idle", !.child = "running"]
    /\ UNCHANGED <<src, out, tool, edits, commands>>

\* The service may end at any time, but only here does dev notice.
ChildEnds ==
    /\ dev.pc = "wait" /\ dev.child = "running"
    /\ dev' = [dev EXCEPT !.child = "ended"]
    /\ UNCHANGED <<src, out, tool, edits, commands>>

\* A tick that finds a change notes the times and only then generates.
DevTick ==
    /\ dev.pc = "idle" /\ dev.changed # {}
    /\ dev' = [dev EXCEPT !.pc = "gen", !.todo = Stages({}), !.changed = {}]
    /\ UNCHANGED <<src, out, tool, edits, commands>>

DevCancelled ==
    /\ dev.pc = "idle"
    /\ dev' = Gone
    /\ UNCHANGED <<src, out, tool, edits, commands>>

-----------------------------------------------------------------------------
(* The editor.                                                              *)

Edit(root) ==
    /\ InService /\ edits < MaxEdits
    /\ edits' = edits + 1
    /\ Touch({root})
    /\ tool' = [tool EXCEPT !.alone = FALSE]
    /\ UNCHANGED commands

EditHub ==
    /\ Edit("api")
    /\ \E h \in DOMAIN Hubs \ {src.hub} : src' = [src EXCEPT !.hub = h]
    /\ UNCHANGED out

RemoveVersion ==
    /\ Edit("api")
    /\ \E v \in Versions : src.frozen[v] # Nil /\ src' = [src EXCEPT !.frozen[v] = Nil]
    /\ tool.pc # "copy"
    /\ UNCHANGED out

EditManifest ==
    /\ Edit("manifest")
    /\ \E m \in Manifests \ {src.manifest} : src' = [src EXCEPT !.manifest = m]
    /\ UNCHANGED out

\* The manifest in another format, which only a later command looks for.
CopyManifest ==
    /\ Edit("none")
    /\ ~src.twin /\ src' = [src EXCEPT !.twin = TRUE]
    /\ UNCHANGED out

WriteManual ==
    /\ Edit("internal")
    /\ \E v \in Versions, f \in ManualFiles :
          f \notin src.manual[v] /\ src' = [src EXCEPT !.manual[v] = @ \cup {f}]
    /\ UNCHANGED out

EditQueries ==
    /\ Edit("queries")
    /\ src' = [src EXCEPT !.queries = @ + 1]
    /\ UNCHANGED out

EditCql ==
    /\ Edit("cql")
    /\ src' = [src EXCEPT !.cql = @ + 1]
    /\ UNCHANGED out

\* The header is removed from a generated file.
TakeOver ==
    /\ Edit("none")
    /\ \E t \in {"cmd/main.go", "migrations/001_init.sql"} :
          out[t] # Nil /\ out[t].Header /\ out' = [out EXCEPT ![t].Header = FALSE]
    /\ UNCHANGED src

-----------------------------------------------------------------------------
ToolStep == ToolStage \/ ToolDone \/ CheckGenerated \/ CheckRestores \/ FreezeFile \/ FreezeManifest
DevStep == DevStage \/ DevInterrupts \/ DevRestarts \/ DevTick

Next ==
    \/ InitService \/ Gen \/ Check \/ Add \/ Freeze
    \/ ToolStep \/ ToolProgramFails \/ CheckRestoreStops \/ FreezeFails
    \/ DevStarts \/ DevStep \/ DevProgramFails \/ ChildEnds \/ DevCancelled
    \/ EditHub \/ RemoveVersion \/ EditManifest \/ CopyManifest
    \/ WriteManual \/ EditQueries \/ EditCql \/ TakeOver

\* When a step of the command, or of dev, can be taken.
ToolCan == tool.pc # "done"
DevCan ==
    \/ dev.pc = "gen"
    \/ dev.pc = "wait" /\ dev.child # "running"
    \/ dev.pc = "idle" /\ dev.changed # {}

\* A started command goes on, and the ticker ticks; nothing makes the developer
\* act or the service end.  This is WF_vars(ToolStep) /\ WF_vars(DevStep), with
\* ENABLED written out: TLC would run a generation to find out that it can.
Fairness ==
    /\ []<>~ToolCan \/ []<><<ToolStep>>_vars
    /\ []<>~DevCan \/ []<><<DevStep>>_vars

Spec == Init /\ [][Next]_vars /\ Fairness

-----------------------------------------------------------------------------
(* The properties.                                                          *)

HandWritten(t) == out[t] # Nil /\ ~out[t].Header

\* A check, or an init, that is under way writes the file.
Claimed(t) ==
    \/ tool.cmd = "check" /\ tool.pc # "done" /\ t \in tool.targets
    \/ tool.cmd = "init" /\ tool.pc # "done" /\ t = "cmd/main.go"

\* The section of the manifest that a command is about.
Concerned == IF tool.cmd = "freeze" THEN "Compatibility" ELSE M!SectionOf(tool'.version)

SourcesKept ==
    /\ src'.hub = src.hub /\ src'.manual = src.manual /\ src'.cql = src.cql
    /\ src.queries # 0 => src'.queries = src.queries

\* A version is only added to, and only by the freeze that makes it.
VersionsKept ==
    \A v \in Versions : src.frozen[v] # Nil =>
        IF tool.pc = "copy" /\ tool.version = v
        THEN IsPrefix(src.frozen[v], src'.frozen[v]) ELSE src'.frozen[v] = src.frozen[v]

FilesKept ==
    \A t \in {"cmd/main.go", "migrations/001_init.sql"} :
        HandWritten(t) /\ ~Claimed(t) => out'[t] = out[t]

SectionsKept ==
    LET before == M!Meaning(src.manifest)  after == M!Meaning(src'.manifest) IN
    src'.manifest # src.manifest =>
        \A section \in DOMAIN before \ {Concerned} : after[section] = before[section]

\* What people write is theirs: no command and no reload changes the hub, a
\* frozen version, a converter, a query, a main.go or a migration without the
\* header, or a section of the manifest it is not about.  A file that is taken
\* over while a check or an init that will write it is under way is not safe.
HandWrittenKept ==
    [][edits' = edits /\ InService =>
        SourcesKept /\ VersionsKept /\ FilesKept /\ SectionsKept]_vars

-----------------------------------------------------------------------------
\* Generated code is fresh when it is made from what is there now.
ApiFresh ==
    /\ \A seg \in DOMAIN ApiFiles : /\ out["gen/api"][seg] = ApiFiles[seg]
                                    /\ out["gen/zengo"].register[seg] = ApiFiles[seg]
    /\ out["gen/zengo"].schema = src.hub

\* Without a path in the API there is nothing to split, and buf's documents stay.
DocsFresh(m) ==
    LET openapi == out["gen/openapi"] IN
    m.REST # Nil => IF openapi.raw = <<>> THEN openapi.docs = ApiFiles
                    ELSE openapi.raw = Beside(openapi.raw)

\* The converters and the runtime are made from what the loader gives.
WireFresh(legacy, loader) ==
    LET runtime == out["gen/zengo"].runtime
    IN  /\ \A v \in Versions : out["gen/zengo"].convert[v] =
              IF v \in legacy THEN Adapted(v, loader) ELSE Nil
        /\ runtime = [Hub |-> loader["hub"], Register |-> out["gen/zengo"].register["hub"],
                      Versions |-> legacy]

FilesFresh(m) ==
    LET file == out["migrations/001_init.sql"] IN
    /\ Postgres(m) /\ RepositorySchema(out) \notin {Nil, {}} /\ Managed(file) =>
          IF file = Nil THEN FALSE ELSE file.Body = RepositorySchema(out)
    /\ "sqlc.yaml" \in src.files =>
          IF out["gen/db"] = Nil THEN FALSE ELSE out["gen/db"].schema = MigrationBody(out)
    /\ IF out["cmd/main.go"] = Nil THEN FALSE
       ELSE out["cmd/main.go"].Header => out["cmd/main.go"].Body = M!GenerateMain(m)
    /\ out[".cursor/rules"] = m.Service.Name
    /\ out["docs/PROTO_REGISTRY.md"] = m.Service.Name

QueriesFresh == "sqlc.yaml" \in src.files => out["gen/db"].queries = src.queries
CqlFresh == src.cql # 0 => out["gen/cql"] = src.cql

CodeFresh(m) ==
    WireFresh(LegacyVersions(m), out["gen/api"]) /\ FilesFresh(m) /\ QueriesFresh /\ CqlFresh
Fresh(m, skipBuf) ==
    /\ m.REST # Nil => NothingToSplit(out["gen/openapi"].raw)
    /\ skipBuf \/ (ApiFresh /\ DocsFresh(m))
    /\ CodeFresh(m)

\* What a check may leave behind where it is not tracked: the OpenAPI documents of
\* a service without REST, and a migration that there was nothing to make from.
Untracked == (IF Service.REST = Nil THEN {"gen/openapi"} ELSE {})
             \cup IF tool.found["migrations/001_init.sql"] = Nil
                     /\ RepositorySchema(tool.found) \in {Nil, {}}
                  THEN {"migrations/001_init.sql"} ELSE {}

TargetsRestored ==
    CheckRestores /\ tool.alone => \A t \in DOMAIN out \ Untracked : out'[t] = tool.found[t]

VerdictHonest ==
    CheckRestores /\ tool.alone =>
        \A skipBuf \in {"skipBuf" \in tool.flags} :
            tool.result \in {"ok", "stale"} => (tool.result = "ok" <=> Fresh(Service, skipBuf)')

\* A check that nobody disturbs says "ok" only when all it tracks is fresh, says
\* "stale" only when something is not, and leaves every target as it found it,
\* Untracked ones excepted.
CheckHonest == [][TargetsRestored /\ VerdictHonest]_vars

-----------------------------------------------------------------------------
\* The paths of a segment as they are served, with what they refer to.
Closed(layout, merged) ==
    LET Methods(seg) == UNION {{<<s, m>> : m \in ToSet(s.Methods)} :
                               s \in ToSet(Services(SegmentOf(seg, layout[seg])))}
        PathsOf(seg) == {PathOf(seg, c[1], c[2]) : c \in Methods(seg)}
        Served(seg, p) == IF merged THEN OpenAPIGroupForPath(p) ELSE seg
        \* Two segments, or two paths of one, that end up under one path.
        Alone(seg, p) == \A other \in DOMAIN layout : \A q \in PathsOf(other) :
                            /\ Served(other, q) = Served(seg, p)
                            /\ RewriteOpenAPIPath(Served(other, q), q)
                               = RewriteOpenAPIPath(Served(seg, p), p)
                            => other = seg /\ q = p
        all == CombinedDoc(layout).definitions
    IN  \A docs \in Splits[layout, merged] \ {Nil, Failed} :
            /\ \A g \in DOMAIN docs : IsClosure(docs[g], all)
            /\ \A seg \in DOMAIN layout : \A c \in Methods(seg) :
                  LET p == PathOf(seg, c[1], c[2])
                      g == Served(seg, p)
                  IN  /\ g \in DOMAIN docs
                      /\ RewriteOpenAPIPath(g, p) \in DOMAIN docs[g].paths
                      /\ Alone(seg, p) =>
                            {<<seg, n>> : n \in {c[2].Request, c[2].Response} \ {"Empty"}}
                            \subseteq docs[g].paths[RewriteOpenAPIPath(g, p)].refs
ClosedLayouts == Table([x \in Layouts |-> \A merged \in BOOLEAN : Closed(x, merged)])

\* Every document in gen/openapi has the calls of its version and no definition
\* too few or too many, and would have if buf had merged the documents; where two
\* calls share a path after the rewriting, that mode keeps one of them.
OpenAPIClosed == out["gen/openapi"].docs # Nil => ClosedLayouts[out["gen/openapi"].docs]

-----------------------------------------------------------------------------
\* Once edits stop, dev has generated from the last of them and runs the result,
\* unless it has exited or waits for a service that ignores the interrupt.  It
\* does not see .cql files, an empty version directory, nor queries/ when it was
\* created later, it keeps the descriptors of its first generation, and a check
\* puts old outputs back.
Reloaded(m) ==
    /\ m # Failed /\ ApiFresh /\ DocsFresh(m) /\ FilesFresh(m)
    /\ "queries" \in dev.roots => QueriesFresh
    /\ LET legacy == LegacyVersions(m)
           key == {"hub"} \cup legacy
       IN  \/ WireFresh(legacy, out["gen/api"])
           \/ key \in DOMAIN dev.cache /\ WireFresh(legacy, dev.cache[key])
DevSettled ==
    \/ dev.pc \in {"off", "exited"}
    \/ dev.pc = "wait" /\ dev.child = "running"
    \/ /\ dev.pc = "idle" /\ dev.changed = {}
       /\ ~dev.undone /\ (\A v \in Versions : src.frozen[v] # <<>>) => Reloaded(Service)
DevConverges == <>[]DevSettled
=============================================================================
