----------------------------- MODULE PluginMarketplace -----------------------------
(***************************************************************************)
(* PluginMarketplace over InMemoryPackageRegistry: packages are published,    *)
(* discovered page by page, installed, updated and rolled back per scope, and *)
(* retired.  Nothing is ever removed from the registry.                       *)
(***************************************************************************)
EXTENDS Facts, FiniteSets, Sequences, SequencesExt

CONSTANTS
  Packages,         \* [id, version, platforms, contracts, dependencies, matches, signed];
                    \* a dependency [id, range, optional], range a set of versions;
                    \* matches: the artifact has the digest of the manifest
  Scopes,
  Installer,        \* [platform, contracts]: what requests say of their platform
  PageLimit         \* request.limit of discover

ASSUME MarketplaceAssumption == PageLimit \in Nat \ {0}

VARIABLES
  published,        \* packages of the registry
  registrations,    \* [package, scope]
  histories,        \* PackageHistoryRecords of all scopes, in order
  lifecycle,        \* PackageLifecycleRecords
  walk              \* one client that follows nextCursor from page to page

marketVars == <<published, registrations, histories, lifecycle, walk>>

NoWalk == [scope |-> "none", only |-> FALSE, offset |-> 0, due |-> {}, found |-> {}, done |-> FALSE]

MarketInit ==
  /\ published = {} /\ registrations = {} /\ histories = <<>> /\ lifecycle = {}
  /\ walk = NoWalk

Registration(id, version, scope) ==
  {r \in registrations : r.package.id = id /\ r.package.version = version /\ r.scope = scope}
installed(scope) == {r.package : r \in {q \in registrations : q.scope = scope}}

\* the records of other scopes that moved to a version this scope has are among them
history(id, scope) ==
  LET has == {p.version : p \in {q \in installed(scope) : q.id = id}} IN
  SelectSeq(histories, LAMBDA h : h.id = id /\ h.to \in has)

ManifestAccepted(p) == \A d \in p.dependencies : ~(d.id = p.id /\ d.range = {p.version})

\* what is published first under an id and a version stays
publishPackage(p) ==
  /\ ManifestAccepted(p)
  /\ published' = published \cup
       (IF \E q \in published : q.id = p.id /\ q.version = p.version THEN {} ELSE {p})
  /\ Announces("package.published", p)
  /\ UNCHANGED <<registrations, histories, lifecycle, walk>>

----------------------------------------------------------------------------
(* installOperation *)

ManifestValid(p) == \A d \in p.dependencies : d.id = p.id => p.version \notin d.range
IntegrityValid(p) == p.matches /\ p.signed
CompatiblePackage(p) == Installer.platform \in p.platforms /\ p.contracts \subseteq Installer.contracts

\* Seeded bug: a package of any scope satisfies a dependency.
DependenciesSatisfied_AnyScope(p, scope) ==
  \A d \in p.dependencies :
    d.optional \/ \E r \in registrations : r.package.id = d.id /\ r.package.version \in d.range

DependenciesSatisfied(p, scope) ==
  \A d \in p.dependencies :
    d.optional \/ \E q \in installed(scope) : q.id = d.id /\ q.version \in d.range

\* a level of trust other than 'untrusted' takes no more than integrity
Installable(p, scope) ==
  /\ p \in published /\ ManifestValid(p) /\ IntegrityValid(p) /\ CompatiblePackage(p)
  /\ DependenciesSatisfied(p, scope)

HistoryRecord(p, scope, operation) ==
  LET before == history(p.id, scope) IN
  [id |-> p.id, to |-> p.version, operation |-> operation, scope |-> scope,
   from |-> IF before = <<>> THEN 0 ELSE Last(before).to]

installOperation(p, scope, operation) ==
  /\ Installable(p, scope)
  /\ ~(operation = "install" /\ Registration(p.id, p.version, scope) # {})
  /\ registrations' = registrations \cup {[package |-> p, scope |-> scope]}
  /\ histories' = Append(histories, HistoryRecord(p, scope, operation))
  /\ Announces("package." \o operation, p)
  /\ UNCHANGED <<published, lifecycle, walk>>

\* 'deprecated' and 'retired' change no registration, and no operation asks for them
transition(p, scope, to) ==
  /\ Registration(p.id, p.version, scope) # {}
  /\ lifecycle' = lifecycle \cup {[package |-> p, to |-> to]}
  /\ Announces("package." \o to, p)
  /\ UNCHANGED <<published, registrations, histories, walk>>

----------------------------------------------------------------------------
(* discover *)

Discovered(p, q) == p.id < q.id \/ (p.id = q.id /\ p.version > q.version)
Matching(scope, installedOnly) ==
  IF installedOnly THEN {p \in published : p \in installed(scope)} ELSE published

NextCursor(offset, count) == offset + count

discover(scope, installedOnly) ==
  LET values   == SetToSortSeq(Matching(scope, installedOnly), Discovered)
      first    == walk.scope = "none"
      offset   == walk.offset
      selected == SubSeq(values, offset + 1,
                         IF offset + PageLimit < Len(values) THEN offset + PageLimit ELSE Len(values))
      next     == NextCursor(offset, Len(selected)) IN
  /\ ~walk.done /\ (first \/ (walk.scope = scope /\ walk.only = installedOnly))
  /\ walk' = [scope |-> scope, only |-> installedOnly, offset |-> next,
              due |-> IF first THEN Matching(scope, installedOnly) ELSE walk.due,
              found |-> walk.found \cup ToSet(selected),
              done |-> next >= Len(values)]
  /\ UNCHANGED <<published, registrations, histories, lifecycle, factVars>>

MarketNext ==
  \/ \E p \in Packages :
       \/ publishPackage(p)
       \/ \E scope \in Scopes :
            \/ \E operation \in {"install", "update", "rollback"} : installOperation(p, scope, operation)
            \/ \E to \in {"deprecated", "retired"} : transition(p, scope, to)
  \/ \E scope \in Scopes, installedOnly \in BOOLEAN : discover(scope, installedOnly)
  \/ FactsNext /\ UNCHANGED marketVars

MarketSpec == MarketInit /\ FactsInit /\ [][MarketNext]_<<marketVars, factVars>>

----------------------------------------------------------------------------
(* Properties *)

MarketTypeOK ==
  /\ published \subseteq Packages /\ registrations \subseteq [package : published, scope : Scopes]
  /\ \A h \in ToSet(histories) : Registration(h.id, h.to, h.scope) # {}
  /\ lifecycle \subseteq [package : Packages, to : {"deprecated", "retired"}]
  /\ walk.found \subseteq published

(* Whatever a scope has installed, updated or rolled back, what each of its          *)
(* packages depends on is installed in the same scope, unless it is optional.         *)
DependenciesInstalled ==
  \A r \in registrations : \A d \in r.package.dependencies :
    ~d.optional => \E p \in installed(r.scope) : p.id = d.id /\ p.version \in d.range

(* A client that follows the cursors to the last page has seen every package that was *)
(* there when it began, whatever is published between two pages.                       *)
WalkMissesNothing == walk.done => walk.due \subseteq walk.found

(* What is installed and what is found (plugin-marketplace/src/index.ts). *)
MarketInv == MarketTypeOK /\ FactsTypeOK /\ DependenciesInstalled /\ WalkMissesNothing

=============================================================================
