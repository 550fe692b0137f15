--------------------------- MODULE CapabilityResolution ---------------------------
(***************************************************************************)
(* CapabilityResolver for one capability: a request is bound to one of the    *)
(* registered implementations by the routing of the capability, or else by     *)
(* the first configured scope, or else by the default.  In fallback mode the    *)
(* caller asks again, excluding what failed it.  The resolver reads the          *)
(* implementations, awaits the configuration, selects, and awaits the            *)
(* publication of its fact; the implementationHealth of an implementation changes meanwhile.   *)
(***************************************************************************)
EXTENDS Naturals, Sequences, SequencesExt

CONSTANTS
  Implementations,
  Supports,          \* [Implementations -> set of contract versions]
  Enabled,           \* subset of Implementations
  CapabilityVersions,  \* sequence of contract versions, the newest last
  RoutingModes,      \* subset of {"none", "fixed", "fallback"}: a configuration has one
  RoutingOrder,      \* orderedImplementationIds
  Configured,        \* sequence: what tenant, workspace, project and global name
  DefaultImplementation,
  Requests,          \* [Requests -> contract version, or NoVersion]
  MaxHealthChanges, MaxResolutionFaults   \* bounds

NoVersion == "no version"

ASSUME ResolutionAssumption ==
  \* validateResolutionRouting
  /\ RoutingOrder \in Seq(Implementations) /\ RoutingOrder # <<>> /\ IsInjective(RoutingOrder)
  /\ "fallback" \in RoutingModes => Len(RoutingOrder) >= 2
  /\ CapabilityVersions # <<>> /\ MaxHealthChanges \in Nat /\ MaxResolutionFaults \in Nat

VARIABLES
  routingMode,
  registered,        \* ProviderRegistry
  implementationHealth,
  resolution,        \* per request: step, candidates read, excluded, binding
  tried,             \* the bindings its caller got, in order
  diagnostic,        \* "none", "resolved" or "failed", under the id of the request
  healthChanges, resolutionFaults

resolutionVars == <<routingMode, registered, implementationHealth, resolution, tried, diagnostic,
                    healthChanges, resolutionFaults>>

Unbound == "nothing"
ResolutionInit ==
  /\ routingMode \in RoutingModes
  /\ registered = {} /\ implementationHealth = [i \in Implementations |-> "healthy"]
  /\ resolution = [r \in DOMAIN Requests |->
                     [step |-> "idle", candidates |-> {}, excluded |-> {}, binding |-> Unbound]]
  /\ tried = [r \in DOMAIN Requests |-> <<>>]
  /\ diagnostic = [r \in DOMAIN Requests |-> "none"]
  /\ healthChanges = 0 /\ resolutionFaults = 0

----------------------------------------------------------------------------
(* Registry *)

register(i) ==
  /\ i \notin registered /\ registered' = registered \cup {i}
  /\ UNCHANGED <<routingMode, implementationHealth, resolution, tried, diagnostic, healthChanges, resolutionFaults>>

setHealth(i, to) ==
  /\ i \in registered /\ implementationHealth[i] # to
  /\ healthChanges < MaxHealthChanges /\ healthChanges' = healthChanges + 1
  /\ implementationHealth' = [implementationHealth EXCEPT ![i] = to]
  /\ UNCHANGED <<routingMode, registered, resolution, tried, diagnostic, resolutionFaults>>

----------------------------------------------------------------------------
(* DeterministicResolutionPolicy: a set with the selected implementation, or empty *)

ineligible(i, version) ==
  \/ i \notin Enabled \/ implementationHealth[i] = "unhealthy"
  \/ version # NoVersion /\ version \notin Supports[i]

\* at the first of some positions of the order
First(positions) == {RoutingOrder[n] : n \in {m \in positions : \A o \in positions : m <= o}}

ByScope(eligible) ==
  IF Configured # <<>> THEN {Head(Configured)} \cap eligible ELSE {DefaultImplementation} \cap eligible

\* Seeded bug: what failed the caller is a candidate again.
Unused_All(excluded) == DOMAIN RoutingOrder

\* the positions of the order that no exclusion of the caller takes away
Unused(excluded) == {n \in DOMAIN RoutingOrder : RoutingOrder[n] \notin excluded}

\* fixed: the first of the order or nothing; with all of it excluded, the scopes decide
select(eligible, excluded) ==
  LET order == Unused(excluded) IN
  CASE routingMode = "fallback" -> First({n \in order : RoutingOrder[n] \in eligible})
    [] routingMode = "fixed" /\ order # {} -> First(order) \cap eligible
    [] OTHER -> ByScope(eligible)

\* a request without a version is bound with the newest of the capability
BoundVersion(r) == IF Requests[r] = NoVersion THEN Last(CapabilityVersions) ELSE Requests[r]

----------------------------------------------------------------------------
(* resolveInternal *)

Goes(r, step) == resolution' = [resolution EXCEPT ![r].step = step]
Others == <<routingMode, registered, implementationHealth, healthChanges>>

\* the catch clause: a diagnostic the request has already is kept
ResolutionFails(r) ==
  /\ Goes(r, "failing")
  /\ diagnostic' = [diagnostic EXCEPT ![r] = IF @ = "none" THEN "failed" ELSE @]

resolve(r, excluded) ==
  /\ resolution' = [resolution EXCEPT ![r] =
       [step |-> "configuring", candidates |-> {i \in registered : ~ineligible(i, Requests[r])},
        excluded |-> excluded, binding |-> Unbound]]
  /\ UNCHANGED <<tried, diagnostic, resolutionFaults, Others>>

\* forCapability is empty, or the version is none of the capability's
Rejected(r) == registered = {} \/ BoundVersion(r) \notin ToSet(CapabilityVersions)

Resolve(r) == resolution[r].step = "idle" /\ ~Rejected(r) /\ resolve(r, {})

RejectRequest(r) ==
  /\ resolution[r].step = "idle" /\ Rejected(r)
  /\ ResolutionFails(r) /\ UNCHANGED <<tried, resolutionFaults, Others>>

\* the caller of a fallback excludes its binding and keeps the request's id
resolveNext(r) ==
  /\ resolution[r].step = "bound" /\ routingMode = "fallback"
  /\ resolve(r, resolution[r].excluded \cup {Last(tried[r])})

Select(r) ==
  LET selected == select(resolution[r].candidates, resolution[r].excluded) IN
  /\ resolution[r].step = "configuring"
  /\ IF selected = {} THEN ResolutionFails(r)
     ELSE /\ resolution' = [resolution EXCEPT ![r].step = "announcing",
                              ![r].binding = CHOOSE i \in selected : TRUE]
          /\ diagnostic' = [diagnostic EXCEPT ![r] = "resolved"]
  /\ UNCHANGED <<tried, resolutionFaults, Others>>

Bind(r) ==
  /\ resolution[r].step = "announcing" /\ Goes(r, "bound")
  /\ tried' = [tried EXCEPT ![r] = Append(@, resolution[r].binding)]
  /\ UNCHANGED <<diagnostic, resolutionFaults, Others>>

\* configuration.get or events.publish rejects
ResolutionFault(r) ==
  /\ resolution[r].step \in {"configuring", "announcing"}
  /\ resolutionFaults < MaxResolutionFaults /\ resolutionFaults' = resolutionFaults + 1
  /\ ResolutionFails(r) /\ UNCHANGED <<tried, Others>>

\* 'capability.failed' is published or not: the caller gets an error
Refuse(r) ==
  /\ resolution[r].step = "failing" /\ Goes(r, "refused")
  /\ UNCHANGED <<tried, diagnostic, resolutionFaults, Others>>

ResolutionNext ==
  \/ \E i \in Implementations :
       register(i) \/ \E to \in {"healthy", "degraded", "unhealthy"} : setHealth(i, to)
  \/ \E r \in DOMAIN Requests :
       Resolve(r) \/ RejectRequest(r) \/ resolveNext(r) \/ Select(r) \/ Bind(r)
         \/ ResolutionFault(r) \/ Refuse(r)

ResolutionSpec == ResolutionInit /\ [][ResolutionNext]_resolutionVars

----------------------------------------------------------------------------
(* Properties *)

ResolutionTypeOK ==
  /\ routingMode \in RoutingModes /\ registered \subseteq Implementations
  /\ \A r \in DOMAIN Requests :
       /\ resolution[r].candidates \subseteq registered \cap Enabled
       /\ resolution[r].binding \in Implementations \cup {Unbound}
       /\ resolution[r].step = "bound" => tried[r] # <<>> /\ diagnostic[r] = "resolved"
  /\ healthChanges \in 0..MaxHealthChanges /\ resolutionFaults \in 0..MaxResolutionFaults

(* A caller that falls back never gets an implementation twice and only ones of the *)
(* order, though their health changes while it goes on: so its attempts end.    *)
NeverRebound ==
  routingMode = "fallback" =>
    \A r \in DOMAIN Requests : IsInjective(tried[r]) /\ ToSet(tried[r]) \subseteq ToSet(RoutingOrder)

(* The implementation of a binding has the contract version of the binding.  Refuted   *)
(* where a request names no version: it is bound with the newest, whoever supports it.    *)
BoundVersionSupported ==
  \A r \in DOMAIN Requests : \A i \in ToSet(tried[r]) : BoundVersion(r) \in Supports[i]

(* What callers that resolve, fail and fall back are bound to (resolution.ts 60-230). *)
ResolutionInv == ResolutionTypeOK /\ NeverRebound

=============================================================================
