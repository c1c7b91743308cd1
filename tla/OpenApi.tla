------------------------------ MODULE OpenApi ------------------------------
(***************************************************************************)
(* The split of the OpenAPI documents: src/internal/generator/openapi.go.   *)
(* protoc-gen-openapiv2 leaves one document per proto file under            *)
(* gen/openapi/api/<segment>, or a single merged one; the split leaves one  *)
(* document per API version in gen/openapi.                                 *)
(*                                                                          *)
(* A document has paths, definitions and tags.  A path is its directories   *)
(* and, for a method without a binding, the version its package names.  The *)
(* item of a path is what it refers to and its tags; a definition is the    *)
(* set of definitions it refers to.  A definition is named by its segment   *)
(* and message.                                                             *)
(***************************************************************************)
EXTENDS ProtoPlugin, TLC

\* The directories the pattern v[0-9]+ matches.
CONSTANT VersionDirs

-----------------------------------------------------------------------------
(* protoc-gen-openapiv2.                                                    *)

Status == <<"rpc", "Status">>
ProtobufAny == <<"protobuf", "Any">>

PathOf(seg, s, m) ==
    IF m.Path # <<>> THEN [Dirs |-> m.Path, Package |-> ""]
    ELSE [Dirs |-> <<s.Name, m.Name>>, Package |-> seg]

\* The document of one file: its services, and the messages of the segment.
Swagger(seg, segment, i) ==
    LET calls == UNION {{<<s, m>> : m \in ToSet(s.Methods)} : s \in ToSet(segment[i].Services)}
        Refs(m) == {<<seg, n>> : n \in {m.Request, m.Response} \cap Messages(segment)}
        On(path) == {c \in calls : PathOf(seg, c[1], c[2]) = path}
        Used(n) == {f.Of : f \in {x \in ToSet(FieldsOf(segment, n)) : x.Kind = "message"}}
    IN  [paths |-> [path \in {PathOf(seg, c[1], c[2]) : c \in calls} |->
                        [refs |-> UNION {Refs(c[2]) : c \in On(path)} \cup {Status},
                         tags |-> {c[1].Name : c \in On(path)}]],
         definitions |->
            [d \in {<<seg, n>> : n \in Messages(segment)} |->
                {<<seg, n>> : n \in Used(d[2]) \cap Messages(segment)}]
            @@ (Status :> {ProtobufAny}) @@ (ProtobufAny :> {}),
         tags |-> {s.Name : s \in ToSet(segment[i].Services)}]

\* With its option allow_merge it writes one document for all files.
SwaggerMerged(docs) ==
    LET all == ToSet(docs)
        Join(field) == FoldLeft(LAMBDA f, d : f @@ d[field], <<>>, docs)
    IN  [paths |-> Join("paths"), definitions |-> Join("definitions"),
         tags |-> UNION {d.tags : d \in all}]

-----------------------------------------------------------------------------
\* openAPIGroupForPath: by the first directory, or by the package of the call.
OpenAPIGroupForPath(path) ==
    IF path.Dirs[1] \in VersionDirs THEN path.Dirs[1]
    ELSE IF path.Package \in VersionDirs THEN path.Package
    ELSE "hub"

RewriteOpenAPIPath(group, path) ==
    IF group # "hub" \/ path.Dirs[1] = "hub" THEN path
    ELSE [path EXCEPT !.Dirs = <<"hub">> \o @]

\* collectDefinitionRefs, of all the paths.
PathRefs(paths) == UNION {paths[p].refs : p \in DOMAIN paths}

\* Mutant: only what the paths name themselves is kept.
FilterDefinitionsShallow(definitions, paths) ==
    [d \in PathRefs(paths) \cap DOMAIN definitions |-> definitions[d]]

\* filterDefinitions: what the paths need, and what that needs, until nothing
\* is added; a reference without a definition is passed over.
FilterDefinitions(definitions, paths) ==
    LET Grow(needed, step) ==
            needed \cup UNION {definitions[d] : d \in needed \cap DOMAIN definitions}
        needed == FoldLeft(Grow, PathRefs(paths), [step \in 1..Cardinality(DOMAIN definitions) |-> step])
    IN  [d \in needed \cap DOMAIN definitions |-> definitions[d]]

\* filterTags and collectUsedTags.
FilterTags(tags, paths) == tags \cap UNION {paths[p].tags : p \in DOMAIN paths}

\* mergeOpenAPIMember: two different members of one name are refused.
MergeOpenAPIMember(members) ==
    LET keys == {m[1] : m \in members} IN
    IF Cardinality(members) # Cardinality(keys) THEN Failed
    ELSE [k \in keys |-> (CHOOSE m \in members : m[1] = k)[2]]

\* mergeOpenAPIDocs: the documents of one group.
MergeOpenAPIDocs(group, docs) ==
    LET all == ToSet(docs)
        paths == MergeOpenAPIMember(
                    UNION {{<<RewriteOpenAPIPath(group, p), d.paths[p]>> : p \in DOMAIN d.paths} :
                           d \in all})
        definitions == MergeOpenAPIMember(
                    UNION {{<<n, d.definitions[n]>> : n \in DOMAIN d.definitions} : d \in all})
    IN  IF paths = Failed \/ definitions = Failed THEN Failed
        ELSE [paths |-> paths, definitions |-> FilterDefinitions(definitions, paths),
              tags |-> UNION {d.tags : d \in all}]

\* collectGeneratedOpenAPIGroups: the documents that have paths, by segment.
CollectGroups(raw) ==
    LET Kept(seg) == SelectSeq(raw[seg], LAMBDA d : DOMAIN d.paths # {})
        groups == {seg \in DOMAIN raw : Kept(seg) # <<>>}
    IN  [g \in groups |-> Kept(g)]

\* splitCombinedOpenAPI: the paths of the merged document, by group.  Of two
\* paths that are the same after the rewriting one is kept, either of them: they
\* are read in the order of a Go map.
SplitCombined(doc) ==
    LET groups == {OpenAPIGroupForPath(p) : p \in DOMAIN doc.paths}
        Of(g) == {p \in DOMAIN doc.paths : OpenAPIGroupForPath(p) = g}
        Origins(g, q) == {p \in Of(g) : RewriteOpenAPIPath(g, p) = q}
        Kept(g) == FoldSet(LAMBDA q, some : {f @@ (q :> p) : f \in some, p \in Origins(g, q)},
                           {<<>>}, {RewriteOpenAPIPath(g, p) : p \in Of(g)})
        Document(kept) ==
            LET paths == [q \in DOMAIN kept |-> doc.paths[kept[q]]] IN
            [paths |-> paths, definitions |-> FilterDefinitions(doc.definitions, paths),
             tags |-> FilterTags(doc.tags, paths)]
    IN  FoldSet(LAMBDA g, some : {f @@ (g :> Document(k)) : f \in some, k \in Kept(g)},
                {<<>>}, groups)

\* SplitOpenAPIAt and rewriteOpenAPIDir: what may be left in gen/openapi, Nil
\* when there is nothing to split and Failed when documents cannot be merged.
SplitOpenAPI(raw, combined) ==
    LET grouped == CollectGroups(raw)
        docs == [g \in DOMAIN grouped |-> MergeOpenAPIDocs(g, grouped[g])]
    IN  IF DOMAIN grouped # {}
        THEN {IF \E g \in DOMAIN docs : docs[g] = Failed THEN Failed ELSE docs}
        ELSE IF combined = Nil THEN {Nil}
        ELSE IF DOMAIN combined.paths = {} THEN {Nil}
        ELSE SplitCombined(combined)

-----------------------------------------------------------------------------
\* The reference: what a document defines is the least set of its definitions
\* that has what its paths name and what its members name.
IsClosure(doc, definitions) ==
    LET names == DOMAIN definitions
        Closed(set) == \A d \in set : definitions[d] \cap names \subseteq set
        from == PathRefs(doc.paths) \cap names
    IN  /\ from \subseteq DOMAIN doc.definitions
        /\ Closed(DOMAIN doc.definitions)
        /\ \A set \in SUBSET DOMAIN doc.definitions :
             from \subseteq set /\ Closed(set) => set = DOMAIN doc.definitions
        /\ \A d \in DOMAIN doc.definitions : doc.definitions[d] = definitions[d]
=============================================================================
