-------------------------------- MODULE Governance --------------------------------
(***************************************************************************)
(* platform-governance: registries of blueprints, decisions, migrations and   *)
(* deprecations that only grow or advance, and the validation of a release     *)
(* against the version rules.  Every call is synchronous.  A version is         *)
(* <<major, minor, patch>>.                                                     *)
(***************************************************************************)
EXTENDS Naturals, Sequences, SequencesExt

CONSTANTS
  Blueprints,       \* blueprint records: [id, revision, version, status, approved]
  Adrs,             \* [id, complete]
  Migrations,       \* [id, version, source, target]
  Deprecations,     \* [id, effective, removal, status]
  Changes,          \* [previous, target, kinds, compatibility, migration], compatibility a
                    \* set of BOOLEAN: one per assessment
  Extensions,       \* [contracts, claims, technologies]
  MaxRecords        \* bound: records and releases

SemanticVersion == Nat \X Nat \X Nat
ASSUME GovernanceAssumption ==
  /\ \A c \in Changes : c.previous \in SemanticVersion /\ c.target \in SemanticVersion
  /\ MaxRecords \in Nat

VARIABLES
  blueprints,       \* histories of BlueprintRegistry, all in one sequence
  adrs, migrations,
  deprecations,     \* the last record of each deprecation
  released,         \* changes announced as released
  governanceAudit   \* [action, change]

governanceVars == <<blueprints, adrs, migrations, deprecations, released, governanceAudit>>

GovernanceInit ==
  /\ blueprints = <<>> /\ adrs = {} /\ migrations = <<>> /\ deprecations = {}
  /\ released = {} /\ governanceAudit = {}

Room == Len(blueprints) + Len(migrations) < MaxRecords

Older(v, w) ==
  \/ v[1] < w[1]
  \/ v[1] = w[1] /\ (v[2] < w[2] \/ (v[2] = w[2] /\ v[3] < w[3]))

OfId(history, id) == SelectSeq(history, LAMBDA r : r.id = id)

----------------------------------------------------------------------------
(* Registries *)

ValidBlueprint(b) == b.revision >= 1 /\ (b.status = "approved" => b.approved)

\* the status is not compared with that of the revision before
registerBlueprint(b) ==
  LET history == OfId(blueprints, b.id) IN
  /\ Room /\ ValidBlueprint(b)
  /\ history # <<>> =>
       b.revision = Last(history).revision + 1 /\ Older(Last(history).version, b.version)
  /\ blueprints' = Append(blueprints, b)
  /\ UNCHANGED <<adrs, migrations, deprecations, released, governanceAudit>>

createAdr(a) ==
  /\ a.complete /\ \A b \in adrs : b.id # a.id
  /\ adrs' = adrs \cup {a}
  /\ UNCHANGED <<blueprints, migrations, deprecations, released, governanceAudit>>

ValidMigration(m) == Older(m.source, m.target)

registerMigration(m) ==
  LET history == OfId(migrations, m.id) IN
  /\ Room /\ ValidMigration(m)
  /\ history # <<>> => Older(Last(history).version, m.version)
  /\ migrations' = Append(migrations, m)
  /\ UNCHANGED <<blueprints, adrs, deprecations, released, governanceAudit>>

ValidDeprecation(d) == Older(d.effective, d.removal)

NextStatus(from) ==
  CASE from = "proposed" -> "approved" [] from = "approved" -> "effective"
    [] from \in {"effective", "removed"} -> "removed"

\* the first record of a deprecation may have any status
registerDeprecation(d) ==
  /\ ValidDeprecation(d)
  /\ \A current \in deprecations : current.id = d.id => d.status = NextStatus(current.status)
  /\ deprecations' = {c \in deprecations : c.id # d.id} \cup {d}
  /\ UNCHANGED <<blueprints, adrs, migrations, released, governanceAudit>>

----------------------------------------------------------------------------
(* Releases *)

BreakingKinds == {"contract", "ownership", "lifecycle", "behavior", "compatibility"}
Breaking(c) == c.kinds \cap BreakingKinds # {} \/ FALSE \in c.compatibility

\* validateArchitecturalChange; a fix needs no rule of its own: its target is newer
Versioned(c) ==
  /\ Older(c.previous, c.target)
  /\ Breaking(c) => c.target[1] > c.previous[1] /\ c.migration /\ c.compatibility # {}
  /\ ~Breaking(c) /\ "feature" \in c.kinds /\ c.target[1] = c.previous[1] => c.target[2] > c.previous[2]

ConstitutionalOwners ==
  {"runtime execution", "authorization", "provider instantiation", "capability resolution",
   "event transport", "audit persistence", "configuration semantics", "persistence",
   "deployment", "governance"}

ValidExtension(e) ==
  e.contracts # {} /\ e.claims \cap ConstitutionalOwners = {} /\ e.technologies = {}

\* a change that is breaking by its assessments alone is not audited
AuditsOf(c) ==
  IF c.kinds \cap BreakingKinds # {}
    THEN {[action |-> a, change |-> c] : a \in {"breaking-change", "major-release"}} ELSE {}

validateRelease(c, extensions) ==
  /\ Versioned(c) /\ \A e \in extensions : ValidExtension(e)
  /\ released' = released \cup {c}
  /\ governanceAudit' = governanceAudit \cup AuditsOf(c)
  /\ UNCHANGED <<blueprints, adrs, migrations, deprecations>>

GovernanceNext ==
  \/ \E b \in Blueprints : registerBlueprint(b)
  \/ \E a \in Adrs : createAdr(a)
  \/ \E m \in Migrations : registerMigration(m)
  \/ \E d \in Deprecations : registerDeprecation(d)
  \/ \E c \in Changes, extensions \in SUBSET Extensions : validateRelease(c, extensions)

GovernanceSpec == GovernanceInit /\ [][GovernanceNext]_governanceVars

----------------------------------------------------------------------------
(* Properties *)

GovernanceTypeOK ==
  /\ \A history \in {blueprints, migrations} : Len(history) <= MaxRecords
  /\ ToSet(blueprints) \subseteq Blueprints /\ ToSet(migrations) \subseteq Migrations
  /\ adrs \subseteq Adrs /\ deprecations \subseteq Deprecations /\ released \subseteq Changes
  /\ \A d, e \in deprecations : d.id = e.id => d = e
  /\ \A a \in governanceAudit : a.change \in released

(* Whoever follows releases from one version to another of the same major number    *)
(* meets no breaking change on the way, whatever the releases between are: what a     *)
(* range '^' relies on.                                                               *)
CaretIsCompatible ==
  \A first, last \in released :
    \A c \in released :
      /\ first.previous[1] = last.target[1]
      /\ ~Older(c.previous, first.previous) /\ ~Older(last.target, c.target)
      => ~Breaking(c)

StatusOrder ==
  <<"proposed", "in-review", "approved", "implemented", "stable", "deprecated", "removed">>
Rank(status) == CHOOSE i \in DOMAIN StatusOrder : StatusOrder[i] = status

(* A blueprint goes through its statuses in their order.  Refuted: no registration looks *)
(* at the status before.                                                                  *)
StatusAdvances ==
  \A i, j \in DOMAIN blueprints :
    i < j /\ blueprints[i].id = blueprints[j].id =>
      Rank(blueprints[i].status) <= Rank(blueprints[j].status)

(* What is released and recorded (platform-governance/src/index.ts). *)
GovernanceInv == GovernanceTypeOK /\ CaretIsCompatible

=============================================================================
