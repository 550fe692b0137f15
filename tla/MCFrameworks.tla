------------------------------ MODULE MCFrameworks ------------------------------
(* The frameworks around a platform for TLC: configuration, marketplace,          *)
(* governance, capability resolution, observability, the API with its clients,     *)
(* deployment, migrations, verification and memory.  A behaviour runs one of them,  *)
(* and the others keep the first of their initial states.                            *)
EXTENDS Configuration, PluginMarketplace, Observability, ApiAccess, Deployment, Memory, Plugins,
        Frameworks, TLC

VARIABLE framework

Init ==
  /\ framework \in {"configuration", "marketplace", "governance", "resolution", "health", "records",
                    "api", "streams", "deployment", "migrations", "verification", "memory", "plugins", "providers",
                    "store"}
  /\ FactsInit /\ ConfigInit /\ MarketInit /\ GovernanceInit /\ ResolutionInit /\ ObservabilityInit
  /\ ApiInit /\ DeploymentInit /\ MigrationsInit /\ VerificationInit /\ MemoryInit
  /\ framework # "resolution" => routingMode = CHOOSE x \in RoutingModes : TRUE
  /\ framework # "verification" => DOMAIN findings = {}
  /\ framework # "memory" => \A m \in Memories : records[m].state = "available"
  /\ PluginsInit /\ (framework # "plugins" => \A p \in PluginIds : requires[p] = {})
  /\ AiInit /\ ReferenceInit
  /\ framework # "store" => \A k \in Keys : entities[k] = Missing

laterVars == <<pluginVars, aiVars, referenceVars>>

Next ==
  \/ /\ framework = "configuration" /\ ConfigNext
     /\ UNCHANGED <<framework, marketVars, governanceVars, resolutionVars, observabilityVars,
                    apiVars, deploymentVars, migrationVars, verificationVars, memoryVars, laterVars>>
  \/ /\ framework = "marketplace" /\ MarketNext
     /\ UNCHANGED <<framework, configVars, governanceVars, resolutionVars, observabilityVars,
                    apiVars, deploymentVars, migrationVars, verificationVars, memoryVars, laterVars>>
  \/ /\ framework = "governance" /\ GovernanceNext
     /\ UNCHANGED <<framework, configVars, marketVars, factVars, resolutionVars, observabilityVars,
                    apiVars, deploymentVars, migrationVars, verificationVars, memoryVars, laterVars>>
  \/ /\ framework = "resolution" /\ ResolutionNext
     /\ UNCHANGED <<framework, configVars, marketVars, factVars, governanceVars, observabilityVars,
                    apiVars, deploymentVars, migrationVars, verificationVars, memoryVars, laterVars>>
  \/ /\ framework \in {"health", "records"}
     /\ IF framework = "health" THEN HealthNext ELSE RecordNext
     /\ UNCHANGED <<framework, configVars, marketVars, factVars, governanceVars, resolutionVars,
                    apiVars, deploymentVars, migrationVars, verificationVars, memoryVars, laterVars>>
  \/ /\ framework \in {"api", "streams"} /\ ApiNext
     /\ \A c \in Commands : (Kind[c] = "stream") # (framework = "streams") => command'[c] = command[c]
     /\ UNCHANGED <<framework, configVars, marketVars, factVars, governanceVars, resolutionVars,
                    observabilityVars, deploymentVars, migrationVars, verificationVars, memoryVars, laterVars>>
  \/ /\ framework = "deployment" /\ DeploymentNext
     /\ UNCHANGED <<framework, configVars, marketVars, factVars, governanceVars, resolutionVars,
                    observabilityVars, apiVars, migrationVars, verificationVars, memoryVars, laterVars>>
  \/ /\ framework = "migrations" /\ MigrationsNext
     /\ UNCHANGED <<framework, configVars, marketVars, factVars, governanceVars, resolutionVars,
                    observabilityVars, apiVars, deploymentVars, verificationVars, memoryVars, laterVars>>
  \/ /\ framework = "verification" /\ VerificationNext
     /\ UNCHANGED <<framework, configVars, marketVars, factVars, governanceVars, resolutionVars,
                    observabilityVars, apiVars, deploymentVars, migrationVars, memoryVars, laterVars>>
  \/ /\ framework = "memory" /\ MemoryNext
     /\ UNCHANGED <<framework, configVars, marketVars, factVars, governanceVars, resolutionVars,
                    observabilityVars, apiVars, deploymentVars, migrationVars, verificationVars, laterVars>>
  \/ /\ framework = "plugins" /\ PluginsNext
     /\ UNCHANGED <<framework, configVars, marketVars, factVars, governanceVars, resolutionVars,
                    observabilityVars, apiVars, deploymentVars, migrationVars, verificationVars,
                    memoryVars, aiVars, referenceVars>>
  \/ /\ framework = "providers" /\ AiNext
     /\ UNCHANGED <<framework, configVars, marketVars, factVars, governanceVars, resolutionVars,
                    observabilityVars, apiVars, deploymentVars, migrationVars, verificationVars,
                    memoryVars, pluginVars, referenceVars>>
  \/ /\ framework = "store" /\ ReferenceNext
     /\ UNCHANGED <<framework, configVars, marketVars, factVars, governanceVars, resolutionVars,
                    observabilityVars, apiVars, deploymentVars, migrationVars, verificationVars,
                    memoryVars, pluginVars, aiVars>>

vars == <<framework, configVars, marketVars, factVars, governanceVars, resolutionVars,
          observabilityVars, apiVars, deploymentVars, migrationVars, verificationVars, memoryVars,
          laterVars>>

Spec == Init /\ [][Next]_vars

(* From a package of the marketplace to an active plugin: what may be installed,     *)
(* registered, activated and shut down (plugin-marketplace, plugin-framework).       *)
PackagesInv == MarketInv /\ PluginsInv

----------------------------------------------------------------------------
(* A platform definition that locks a value, its successor that does not, and    *)
(* tenants' definitions that contradict them.                                     *)

Definition(id, version, level, tenant, platforms, keys, kept) ==
  [id |-> id, version |-> version, level |-> level, tenant |-> tenant, platforms |-> platforms,
   keys |-> keys, required |-> {}, constrained |-> {"k", "l"}, wrong |-> {}, locked |-> kept]
SomeDefinitions ==
  {Definition(1, 1, 1, Everyone, {1, 2}, {"k", "l"}, {"k"}),
   Definition(1, 2, 1, Everyone, {2}, {"k"}, {}),
   Definition(2, 1, 2, "t", {1, 2}, {"k"}, {"k"}),
   Definition(2, 2, 2, "u", {1, 2}, {"k"}, {}),
   Definition(3, 1, 2, "t", {1}, {"k", "l"}, {"l"})}
SomePolicies ==
  {[id |-> 1, version |-> 1, level |-> 1, tenant |-> Everyone, platforms |-> {1, 2},
    type |-> "security",
    clauses |-> {[id |-> 1, priority |-> 2, effect |-> "deny"],
                 [id |-> 2, priority |-> 1, effect |-> "limit"]}]}
SomeConfigRequests ==
  {[tenant |-> "t", platform |-> 1, types |-> {"security"}, pinned |-> <<>>],
   [tenant |-> "u", platform |-> 2, types |-> {}, pinned |-> 1 :> 1]}

(* A package in two versions and one that needs the second of them.              *)
Pkg(id, version, dependencies) ==
  [id |-> id, version |-> version, platforms |-> {1}, contracts |-> {},
   dependencies |-> dependencies, matches |-> TRUE, signed |-> TRUE]
SomePackages ==
  {Pkg(1, 1, {}), Pkg(1, 2, {}), Pkg(2, 1, {[id |-> 1, range |-> {2}, optional |-> FALSE]})}
SomeInstaller == [platform |-> 1, contracts |-> {}]

V(major, minor) == <<major, minor, 0>>
Bp(revision, version, at) ==
  [id |-> "b", revision |-> revision, version |-> version, status |-> at, approved |-> TRUE]
SomeBlueprints ==
  {Bp(1, V(1, 0), "proposed"), Bp(2, V(1, 1), "approved"), Bp(2, V(1, 1), "removed"),
   Bp(3, V(2, 0), "proposed")}
SomeMigrations ==
  {[id |-> "m", version |-> v, source |-> V(1, 0), target |-> V(2, 0)] : v \in {V(1, 0), V(1, 1)}}
SomeDeprecations ==
  {[id |-> "d", effective |-> V(1, 0), removal |-> V(2, 0), status |-> s] :
     s \in {"proposed", "approved", "effective", "removed"}}
Change(from, to, kinds, compat) ==
  [previous |-> from, target |-> to, kinds |-> kinds, compatibility |-> compat, migration |-> TRUE]
SomeChanges ==
  {Change(V(1, 0), V(1, 1), {"feature"}, {}), Change(V(1, 1), V(1, 2), {"contract"}, {TRUE}),
   Change(V(1, 1), V(2, 0), {"fix"}, {FALSE}), Change(V(1, 2), V(2, 0), {"contract"}, {TRUE}),
   Change(V(2, 0), V(2, 1), {"feature"}, {TRUE})}
SomeExtensions ==
  {[contracts |-> {"x"}, claims |-> {"deployment"}, technologies |-> {}],
   [contracts |-> {"x"}, claims |-> {"y"}, technologies |-> {}]}
SomeAdrs == {[id |-> "a", complete |-> TRUE], [id |-> "a", complete |-> FALSE]}

SomeSupport == "i" :> {"v1", "v2"} @@ "j" :> {"v1"} @@ "k" :> {"v1", "v2"}
SomeVersions == <<"v1", "v2">>
SomeOrder == <<"i", "j", "k">>
SomeConfigured == <<"k">>
SomeRequests == "r" :> "v2"

SomeLogs == {[length |-> 2, secret |-> FALSE]}
SomeMetrics == {[labels |-> {"a"}], [labels |-> {"a", "b"}]}
Span(parent, traceId, at) ==
  [parent |-> parent, traceId |-> traceId, correlationId |-> "c", startedAt |-> 0, endedAt |-> 1,
   durationMs |-> 1, status |-> at]
SomeSpans ==
  {{Span(Undefined, "t", "completed"), Span("s", "t", "failed")},
   {Span(Undefined, "t", "completed"), Span("s", "u", "completed")}}
Diagnostic(id, at) ==
  [id |-> id, tenant |-> "t", classification |-> "internal", at |-> at, length |-> 1, secret |-> FALSE]
SomeDiagnostics == {Diagnostic(1, 1), Diagnostic(2, 2), Diagnostic(3, 3)}
PageByPage ==
  [tenant |-> "t", limit |-> 1, from |-> 1, to |-> 3,
   authorization |-> [authorized |-> TRUE, state |-> "active", operation |-> "query",
                      tenant |-> "t", maximumClassification |-> "internal"]]

\* Two reads that share the limit of one principal with their retries.
SomeKinds == "g" :> "read" @@ "h" :> "read" @@ "j" :> "create" @@ "s" :> "stream"
OnePrincipal == [c \in {"g", "h", "j", "s"} |-> "p"]

SomeComponents == <<"persistence", "api", "worker">>
TwoReleases == <<"v1", "v2">>

TwoTests == <<"t", "u">>

(* Three plugins that may need each other or a fourth that is not there; the last     *)
(* contributes to a kind without a registry as well.                                    *)
Need(p, isOptional, accepts) == [plugin |-> p, optional |-> isOptional, versions |-> accepts]
SomeNeeds ==
  {{}, {Need(1, FALSE, {}), Need(4, TRUE, {})}, {Need(2, FALSE, {})}, {Need(2, TRUE, {2})},
   {Need(4, FALSE, {})}}
SomeContributions == 1 :> <<"tool">> @@ 2 :> <<"tool">> @@ 3 :> <<"tool", "widget">>

(* A transaction over two repositories, and one over one of them, which may delete     *)
(* an entity and make it again within the tick of the one that was there before.         *)
SomeEnlisted == "w" :> {"r", "s"} @@ "x" :> {"r"}
SomeStaged == "w" :> 2 @@ "x" :> 2
OneTick == "w" :> 1 @@ "x" :> 0

=============================================================================
