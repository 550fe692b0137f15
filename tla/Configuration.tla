------------------------------ MODULE Configuration ------------------------------
(***************************************************************************)
(* ConfigurationFramework: versioned, immutable definitions of configuration *)
(* and of policy, and their resolution for one tenant into an effective       *)
(* artifact.  Every call checks, stores or computes in one synchronous piece, *)
(* then announces it (Facts).                                                 *)
(***************************************************************************)
EXTENDS Facts, Sequences, SequencesExt

CONSTANTS
  ConfigDefinitions,  \* [id, version, level, tenant, platforms, keys, required, constrained,
                      \*  wrong, locked]: keys by what their constraints say of them
  PolicyDefinitions,  \* [id, version, level, tenant, platforms, type, clauses], a clause
                      \* [id, priority, effect]
  ConfigRequests      \* [tenant, platform, types, pinned]

ScopeLevels == 1..6   \* platform, tenant, workspace, project, agent, invocation

\* what buildConfigurationDefinition and buildPolicyDefinition let through
ConfigurationDefinition(d) == d.level \in ScopeLevels /\ d.keys # {} /\ d.locked \subseteq d.constrained
PolicyDefinition(p) == p.level \in ScopeLevels /\ p.clauses # {}

ASSUME ConfigAssumption ==
  /\ \A d \in ConfigDefinitions : ConfigurationDefinition(d)
  /\ \A p \in PolicyDefinitions : PolicyDefinition(p)

Generated == {"effective-configuration.generated", "effective-policy.generated"}

VARIABLES
  configurations,     \* InMemoryConfigurationStore
  policies            \* InMemoryPolicyStore

configVars == <<configurations, policies>>

ConfigInit == configurations = {} /\ policies = {}

----------------------------------------------------------------------------
(* Definitions *)

Everyone == "everyone"
applies(scope, context) == scope.tenant \in {Everyone, context.tenant}
compatible(definition, context) == context.platform \in definition.platforms
versions(store, id) == {d \in store : d.id = id}
get(store, id, version) == {d \in versions(store, id) : d.version = version}

Tenants == {r.tenant : r \in ConfigRequests}
enforce(definition, tenant) == definition.tenant \in {Everyone, tenant}

\* DeterministicConfigurationValidator and DeterministicPolicyValidator
validate(d) == d.required \subseteq d.keys /\ d.keys \subseteq d.constrained /\ d.wrong = {}
validatePolicy(d) ==
  /\ \A a, b \in d.clauses : a.id = b.id => a = b
  /\ \A c \in d.clauses : c.priority \in Nat /\ ~(d.type = "security" /\ c.effect = "allow")

TypeOfFact(store, d) == IF versions(store, d.id) # {} THEN "updated" ELSE "created"

createConfiguration(d, tenant) ==
  /\ enforce(d, tenant) /\ validate(d)
  /\ get(configurations, d.id, d.version) = {}
  /\ configurations' = configurations \cup {d}
  /\ Announces(TypeOfFact(configurations, d), d)
  /\ UNCHANGED policies

createPolicy(d, tenant) ==
  /\ enforce(d, tenant) /\ validatePolicy(d)
  /\ get(policies, d.id, d.version) = {}
  /\ policies' = policies \cup {d}
  /\ Announces(TypeOfFact(policies, d), d)
  /\ UNCHANGED configurations

----------------------------------------------------------------------------
(* Resolution *)

\* the newest compatible version of a definition, or the pinned one: none is an error
Selected(store, id, request) ==
  LET values == {d \in versions(store, id) : compatible(d, request)} IN
  IF id \in DOMAIN request.pinned
    THEN {d \in values : d.version = request.pinned[id]}
    ELSE {d \in values : \A e \in values : e.version <= d.version}

\* some version of the definition has a scope that applies
Candidates(store, request) == {d.id : d \in {e \in store : applies(e, request)}}

Resolvable(store, request) ==
  \A id \in Candidates(store, request) : Selected(store, id, request) # {}

Before(d, e) == d.level < e.level \/ (d.level = e.level /\ d.id < e.id)

Applied(store, request) ==
  SetToSortSeq(UNION {Selected(store, id, request) : id \in Candidates(store, request)}, Before)

\* Seeded bug: the definition that overrides says whether it may.
Overrides_ByLater(applied, i, j, k) == k \notin applied[j].locked

\* a key of an earlier definition may be given another value by a later one
Overrides(applied, i, j, k) == k \notin applied[i].locked

ScopeConflict(applied) ==
  \E j \in DOMAIN applied : \E k \in applied[j].keys, i \in 1..(j - 1) :
      /\ k \in applied[i].keys /\ \A h \in (i + 1)..(j - 1) : k \notin applied[h].keys
      /\ ~Overrides(applied, i, j, k)

\* provenance: the last definition that has the key
Provenance(applied) ==
  [k \in UNION {applied[i].keys : i \in DOMAIN applied} |->
     applied[CHOOSE i \in DOMAIN applied :
               k \in applied[i].keys /\ \A h \in (i + 1)..Len(applied) : k \notin applied[h].keys]]

resolveConfiguration(request) ==
  LET applied == Applied(configurations, request) IN
  /\ Resolvable(configurations, request) /\ ~ScopeConflict(applied)
  /\ Announces("effective-configuration.generated",
               [request |-> request, applied |-> applied, source |-> Provenance(applied)])
  /\ UNCHANGED configVars

ClauseBefore(c, d) ==
  \/ c.priority > d.priority
  \/ c.priority = d.priority /\ (c.policy < d.policy \/ (c.policy = d.policy /\ c.id < d.id))

resolvePolicy(request) ==
  LET typed   == {p \in policies : \E q \in versions(policies, p.id) :
                                    q.type \in request.types /\ applies(q, request)}
      applied == Applied(typed, request)
      clauses == UNION {{[policy |-> p.id, id |-> c.id, priority |-> c.priority] : c \in p.clauses} :
                          p \in ToSet(applied)} IN
  /\ Resolvable(typed, request)
  /\ Announces("effective-policy.generated",
               [request |-> request, applied |-> applied, clauses |-> SetToSortSeq(clauses, ClauseBefore)])
  /\ UNCHANGED configVars

ConfigNext ==
  \/ \E tenant \in Tenants :
       \/ \E d \in ConfigDefinitions : createConfiguration(d, tenant)
       \/ \E d \in PolicyDefinitions : createPolicy(d, tenant)
  \/ \E r \in ConfigRequests : resolveConfiguration(r) \/ resolvePolicy(r)
  \/ FactsNext /\ UNCHANGED configVars

ConfigSpec == ConfigInit /\ FactsInit /\ [][ConfigNext]_<<configVars, factVars>>

----------------------------------------------------------------------------
(* Properties *)

\* the artifacts whose callers have them
effective == {f.subject : f \in {g \in recorded : g.type \in Generated}}

ConfigTypeOK ==
  /\ configurations \subseteq ConfigDefinitions /\ policies \subseteq PolicyDefinitions
  /\ \A store \in {configurations, policies} : \A c \in store : get(store, c.id, c.version) = {c}

(* An effective artifact applies one version of each definition, and a value that *)
(* some applied definition locks is the one of that definition.                    *)
LockedIsKept ==
  \A e \in effective :
    /\ \A i, j \in DOMAIN e.applied : e.applied[i].id = e.applied[j].id => i = j
    /\ \A i \in DOMAIN e.applied :
         "keys" \in DOMAIN e.applied[i] =>
           \A k \in e.applied[i].keys \cap e.applied[i].locked : e.source[k] = e.applied[i]

(* What is resolved for a tenant was defined for that tenant.  Refuted: the definition *)
(* is chosen by id again, and the latest version of the id may be another tenant's.      *)
ResolvedInScope ==
  \A e \in effective : \A i \in DOMAIN e.applied : applies(e.applied[i], e.request)

(* What configurations are resolved to (configuration/src/index.ts). *)
ConfigInv == ConfigTypeOK /\ LockedIsKept

=============================================================================
