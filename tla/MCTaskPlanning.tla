--------------------------- MODULE MCTaskPlanning ---------------------------
(***************************************************************************)
(* The routes and services of the repository's own .spec2flow/topology.yaml *)
(* - DocsGovernance, CliRuntime, SchemaContracts over docs, schemas, cli -  *)
(* with their entry services and dependencies varied (Acyclic) or as that   *)
(* file has them (Repository).                                              *)
(***************************************************************************)
EXTENDS TaskPlanning, TLC

CONSTANTS DocsGovernance, CliRuntime, SchemaContracts, docs, schemas, cli

NoDependency == [s \in Service |-> {}]

LaterServices(s) == CASE s = docs -> {schemas, cli} [] s = schemas -> {cli} [] OTHER -> {}

\* The adapter says nothing of dependencies, or adds one.
AdapterSays == {NoDependency, [NoDependency EXCEPT ![docs] = {cli}]}

Unsaid == [r \in TopologyRoute |-> "unsaid"]

Acyclic ==
    [entry : {(DocsGovernance :> {docs}) @@ (CliRuntime :> {schemas}) @@ (SchemaContracts :> {cli}),
              (DocsGovernance :> {docs}) @@ (CliRuntime :> {docs}) @@ (SchemaContracts :> {schemas}),
              (DocsGovernance :> {docs, schemas}) @@ (CliRuntime :> {cli}) @@ (SchemaContracts :> {docs})},
     dependsOn : {d \in [Service -> SUBSET {schemas, cli}] :
                     \A s \in Service : d[s] \subseteq LaterServices(s)},
     adapterDependsOn : AdapterSays,
     located : {{docs, schemas, cli}, {docs, schemas}, {}},
     approval : {Unsaid, [Unsaid EXCEPT ![DocsGovernance] = "waived", ![CliRuntime] = "asked"]}]

\* .spec2flow/topology.yaml:1-91.
Repository ==
    [entry : {(DocsGovernance :> {docs, cli}) @@ (CliRuntime :> {cli}) @@ (SchemaContracts :> {schemas, cli})},
     dependsOn : {[NoDependency EXCEPT ![docs] = {cli}, ![schemas] = {cli}]},
     adapterDependsOn : {NoDependency},
     located : {{docs, schemas, cli}},
     approval : {Unsaid}]

\* A critical rule on paths, a high one on a route, a medium one on everything.
Rules ==
    {[level |-> 4, paths |-> {schemas, Elsewhere}, workflows |-> {}, kinds |-> {}, approval |-> TRUE],
     [level |-> 3, paths |-> {}, workflows |-> {DocsGovernance}, kinds |-> {docs, schemas}, approval |-> FALSE],
     [level |-> 2, paths |-> {}, workflows |-> {}, kinds |-> {}, approval |-> TRUE]}

RuleBooks == {<<>>} \cup {<<a>> : a \in Rules} \cup {<<a, b>> : a, b \in Rules}

Nothing == [r \in TopologyRoute |-> 0]

Ask(requirement, phrases, keywords, files, filter, rules) ==
    [requirement |-> requirement, phrases |-> phrases, keywords |-> keywords,
     files |-> files, filter |-> filter, rules |-> rules]

Requests ==
    {Ask(FALSE, Nothing, Nothing, files, filter, rules) :
        files \in {{}, {schemas}, {docs, Elsewhere}, {Elsewhere}},
        filter \in {{}, {DocsGovernance, SchemaContracts}}, rules \in RuleBooks}
    \cup
    {Ask(TRUE, phrases, keywords, files, {}, rules) :
        phrases \in {Nothing, [Nothing EXCEPT ![DocsGovernance] = 1]},
        keywords \in {Nothing, [Nothing EXCEPT ![CliRuntime] = 1, ![SchemaContracts] = 2]},
        files \in {{}, {schemas}}, rules \in {<<a>> : a \in Rules}}

OneRequest == {Ask(FALSE, Nothing, Nothing, {}, {}, <<>>)}
=============================================================================
