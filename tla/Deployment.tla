-------------------------------- MODULE Deployment --------------------------------
(***************************************************************************)
(* DeploymentManager: deploy, stop, scale, upgrade and rollback of one          *)
(* deployment, each a sequence of awaited calls of the provider and of the health *)
(* check between a read and a write of the stored status.  Nothing keeps the         *)
(* operations of two operators from one another.                                       *)
(***************************************************************************)
EXTENDS Naturals, Sequences, SequencesExt

CONSTANTS
  Operators,         \* who may call the manager
  StartupOrder,      \* its components, sorted by startupOrder and id
  Releases,          \* versions; the first one is that of the definition
  MaxDeployments, MaxDeployFaults   \* bounds: operations, and calls that reject

ASSUME DeploymentAssumption ==
  /\ StartupOrder \in Seq(ToSet(StartupOrder)) /\ Len(StartupOrder) > 0 /\ IsInjective(StartupOrder)
  /\ Releases \in Seq(ToSet(Releases)) /\ Len(Releases) > 0

VARIABLES
  status,            \* DeploymentStore: [state, active, previous], state "none" before it is put
  provided,          \* what the provider runs: [version, up]
  operation,         \* per operator: [step, component, current, target]
  ordering, versioning,    \* history of the starts and stops, and of the changes of version:
                     \* [clear, crossed], crossed the operators whose last one met another
  deployments, deployFaults

deploymentVars == <<status, provided, operation, ordering, versioning, deployments, deployFaults>>

NoRelease == "none"
NoStatus == [state |-> "none", active |-> NoRelease, previous |-> NoRelease]
AtRest == [step |-> "idle", component |-> 0, current |-> NoStatus, target |-> NoRelease]

DeploymentInit ==
  /\ status = NoStatus /\ provided = [version |-> NoRelease, up |-> {}]
  /\ operation = [o \in Operators |-> AtRest]
  /\ ordering = [clear |-> TRUE, crossed |-> {}] /\ versioning = [clear |-> TRUE, crossed |-> {}]
  /\ deployments = 0 /\ deployFaults = 0

----------------------------------------------------------------------------
(* What is known of the order of the components, and of the version *)

StartsOrStops == {"configuring", "preparing", "starting", "stopping"}
ChangesVersion == {"configuring", "preparing", "starting", "verifying", "upgrading",
                   "upgrade verifying", "restoring", "rolling back", "rollback verifying"}
AtWork(steps) == {o \in Operators : operation[o].step \in steps}

\* an operation that begins may meet those at work
Meets(history, steps, o, step) ==
  IF step \notin steps THEN history
  ELSE IF AtWork(steps) = {} THEN [history EXCEPT !.crossed = @ \ {o}]
  ELSE [clear |-> FALSE, crossed |-> history.crossed \cup AtWork(steps) \cup {o}]

\* one that met no other settles what others have left
Settled(history, o) == IF o \in history.crossed THEN history ELSE [history EXCEPT !.clear = TRUE]
Unsettled(history) == [history EXCEPT !.clear = FALSE]

----------------------------------------------------------------------------
Step(o) == operation[o].step
StepsTo(o, step) == operation' = [operation EXCEPT ![o].step = step]
Returns(o) == operation' = [operation EXCEPT ![o] = AtRest]

Calls(o, step, target) ==
  /\ Step(o) = "idle" /\ deployments < MaxDeployments /\ deployments' = deployments + 1
  /\ operation' = [operation EXCEPT ![o] = [step |-> step, component |-> 0,
                                            current |-> status, target |-> target]]
  /\ ordering' = Meets(ordering, StartsOrStops, o, step)
  /\ versioning' = Meets(versioning, ChangesVersion, o, step)
  /\ UNCHANGED <<status, provided, deployFaults>>

IsReady == status.state = "ready"

\* a call of the operator's rejects
CallFails(o) ==
  /\ Step(o) # "idle" /\ deployFaults < MaxDeployFaults /\ deployFaults' = deployFaults + 1

----------------------------------------------------------------------------
(* deploy *)

deploy(o) == Calls(o, "configuring", Head(Releases))

Resolved(o) ==
  /\ Step(o) = "configuring" /\ StepsTo(o, "preparing")
  /\ UNCHANGED <<status, provided, ordering, versioning, deployments, deployFaults>>

Prepared(o) ==
  /\ Step(o) = "preparing" /\ StepsTo(o, "starting")
  /\ UNCHANGED <<status, provided, ordering, versioning, deployments, deployFaults>>

StartsComponent(o) ==
  LET n == operation[o].component + 1 IN
  /\ Step(o) = "starting"
  /\ provided' = [version |-> operation[o].target, up |-> provided.up \cup {StartupOrder[n]}]
  /\ operation' = [operation EXCEPT ![o].component = n,
                                    ![o].step = IF n = Len(StartupOrder) THEN "verifying" ELSE @]
  /\ ordering' = IF n = Len(StartupOrder) THEN Settled(ordering, o) ELSE ordering
  /\ UNCHANGED <<status, versioning, deployments, deployFaults>>

\* the readiness of what was deployed
Verified(o) ==
  /\ Step(o) = "verifying" /\ Returns(o)
  /\ \E ready \in BOOLEAN :
       status' = [state |-> IF ready THEN "ready" ELSE "failed",
                  active |-> operation[o].target, previous |-> NoRelease]
  /\ versioning' = Settled(versioning, o)
  /\ UNCHANGED <<provided, ordering, deployments, deployFaults>>

DeployFails(o) ==
  /\ CallFails(o) /\ Step(o) \in {"configuring", "preparing", "starting", "verifying"} /\ Returns(o)
  /\ status' = [state |-> "failed", active |-> operation[o].target, previous |-> NoRelease]
  /\ UNCHANGED <<provided, ordering, versioning, deployments>>

----------------------------------------------------------------------------
(* stop, of a deployment in any state, and scale *)

\* Seeded bug: components are stopped as they were started.
StopOrder_AsStarted == StartupOrder
StopOrder == Reverse(StartupOrder)

stop(o) == status # NoStatus /\ Calls(o, "stopping", NoRelease)

StopsComponent(o) ==
  LET n == operation[o].component + 1
      stopped == n = Len(StopOrder) IN
  /\ Step(o) = "stopping"
  /\ provided' = [provided EXCEPT !.up = @ \ {StopOrder[n]}]
  /\ IF stopped
     THEN /\ Returns(o) /\ ordering' = Settled(ordering, o)
          /\ status' = [operation[o].current EXCEPT !.state = "stopped"]
     ELSE operation' = [operation EXCEPT ![o].component = n] /\ UNCHANGED <<status, ordering>>
  /\ UNCHANGED <<versioning, deployments, deployFaults>>

scale(o) == IsReady /\ Calls(o, "scaling", NoRelease)

Scaled(o) ==
  /\ Step(o) = "scaling" /\ Returns(o)
  /\ UNCHANGED <<status, provided, ordering, versioning, deployments, deployFaults>>

\* the store keeps what it had
StopOrScaleFails(o) ==
  /\ CallFails(o) /\ Step(o) \in {"stopping", "scaling"} /\ Returns(o)
  /\ UNCHANGED <<status, provided, ordering, versioning, deployments>>

----------------------------------------------------------------------------
(* upgrade and its automatic rollback *)

upgrade(o) == IsReady /\ \E release \in ToSet(Releases) : Calls(o, "upgrading", release)

Upgraded(o) ==
  /\ Step(o) = "upgrading" /\ StepsTo(o, "upgrade verifying")
  /\ provided' = [provided EXCEPT !.version = operation[o].target]
  /\ UNCHANGED <<status, ordering, versioning, deployments, deployFaults>>

\* the status of an operation that has changed the version
Changed(o) == [state |-> "ready", active |-> operation[o].target,
               previous |-> operation[o].current.active]

UpgradeVerified(o) ==
  /\ Step(o) = "upgrade verifying"
  /\ \/ Returns(o) /\ status' = Changed(o) /\ versioning' = Settled(versioning, o)
     \/ StepsTo(o, "restoring") /\ UNCHANGED <<status, versioning>>
  /\ UNCHANGED <<provided, ordering, deployments, deployFaults>>

\* the event or the audit that tells of an upgrade may fail after the store has it
UpgradeFails(o) ==
  /\ CallFails(o) /\ Step(o) \in {"upgrading", "upgrade verifying"} /\ StepsTo(o, "restoring")
  /\ \/ UNCHANGED status
     \/ Step(o) = "upgrade verifying" /\ status' = Changed(o)
  /\ UNCHANGED <<provided, ordering, versioning, deployments>>

\* Seeded bug: the provider is told of the version that failed.
RestoredVersion_Target(o) == operation[o].target
RestoredVersion(o) == operation[o].current.active

Restored(o) ==
  /\ Step(o) = "restoring" /\ Returns(o)
  /\ provided' = [provided EXCEPT !.version = RestoredVersion(o)]
  /\ status' = [state |-> "ready", active |-> operation[o].current.active, previous |-> NoRelease]
  /\ versioning' = Settled(versioning, o)
  /\ UNCHANGED <<ordering, deployments, deployFaults>>

----------------------------------------------------------------------------
(* rollback *)

rollback(o) ==
  IsReady /\ status.previous # NoRelease /\ Calls(o, "rolling back", status.previous)

RolledBack(o) ==
  /\ Step(o) = "rolling back" /\ StepsTo(o, "rollback verifying")
  /\ provided' = [provided EXCEPT !.version = operation[o].target]
  /\ UNCHANGED <<status, ordering, versioning, deployments, deployFaults>>

\* a version that is not ready stays where it is
RollbackVerified(o) ==
  /\ Step(o) = "rollback verifying" /\ Returns(o)
  /\ \/ status' = Changed(o) /\ versioning' = Settled(versioning, o)
     \/ UNCHANGED status /\ versioning' = Unsettled(versioning)
  /\ UNCHANGED <<provided, ordering, deployments, deployFaults>>

RollbackFails(o) ==
  /\ CallFails(o) /\ Step(o) \in {"restoring", "rolling back", "rollback verifying"} /\ Returns(o)
  /\ versioning' = Unsettled(versioning)
  /\ UNCHANGED <<status, provided, ordering, deployments>>

DeploymentNext ==
  \E o \in Operators :
    \/ deploy(o) \/ Resolved(o) \/ Prepared(o) \/ StartsComponent(o) \/ Verified(o) \/ DeployFails(o)
    \/ stop(o) \/ StopsComponent(o) \/ scale(o) \/ Scaled(o) \/ StopOrScaleFails(o)
    \/ upgrade(o) \/ Upgraded(o) \/ UpgradeVerified(o) \/ UpgradeFails(o) \/ Restored(o)
    \/ rollback(o) \/ RolledBack(o) \/ RollbackVerified(o) \/ RollbackFails(o)

DeploymentSpec == DeploymentInit /\ [][DeploymentNext]_deploymentVars

----------------------------------------------------------------------------
(* Properties *)

DeploymentTypeOK ==
  /\ status.state \in {"none", "ready", "failed", "stopped"}
  /\ {status.active, status.previous, provided.version} \subseteq ToSet(Releases) \cup {NoRelease}
  /\ provided.up \subseteq ToSet(StartupOrder)
  /\ ordering.crossed \cup versioning.crossed \subseteq Operators

(* Without exception: refuted by a deploy and a stop of two operators at once. *)
InOrder ==
  \A m, n \in DOMAIN StartupOrder :
    m < n /\ StartupOrder[n] \in provided.up => StartupOrder[m] \in provided.up

(* Whatever upgrades and rollbacks go on at the same time, and whichever operation fails  *)
(* half-way, no component is up whose predecessors in the startup order are down, unless     *)
(* deploys and stops of two operators met; and after that again, from the first deploy that    *)
(* has started, or stop that has stopped, every component alone (index.ts 213, 242).             *)
UpInOrder == ordering.clear => InOrder

(* The stored active version of a ready deployment is the one the provider runs when no    *)
(* deploy, upgrade or rollback is at work, stops and scalings of other operators or not: a    *)
(* failed upgrade puts both back (index.ts 300-320).  Except after a rollback that failed, or   *)
(* two of them that met, until one of them has ended well alone.                                  *)
ActiveIsProvided ==
  IsReady /\ AtWork(ChangesVersion) = {} /\ versioning.clear => provided.version = status.active

(* What operations that overlap, or fail half-way, leave of a deployment (index.ts 196-351). *)
DeploymentInv == DeploymentTypeOK /\ UpInOrder /\ ActiveIsProvided

=============================================================================
