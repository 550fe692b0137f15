--------------------------------- MODULE Plugins ---------------------------------
(***************************************************************************)
(* PluginManager (packages/plugin-framework): initialize() validates what    *)
(* was discovered, orders it by dependency and registers its contributions;   *)
(* plugins are then activated, deactivated and shut down.  Every hook and      *)
(* every published fact is awaited, calls run in between, and a call that       *)
(* resumes writes the plugin's state without looking at it again.                *)
(***************************************************************************)
EXTENDS Naturals, Sequences, SequencesExt, FiniteSetsExt

CONSTANTS
  PluginIds,          \* in the order of their names: a set of numbers
  DependencySets,     \* [plugin, optional, versions]: what a manifest may depend on
  Kinds,              \* kinds that have a registry
  Contributes,        \* [PluginIds -> sequence of kinds]
  PluginCallers,
  MaxPluginCalls, MaxPluginFaults   \* bounds

ASSUME PluginAssumption == PluginIds \subseteq Nat /\ Contributes \in [PluginIds -> Seq(STRING)]

VARIABLES
  requires,           \* [PluginIds -> dependencies], the manifests
  pluginRecord,       \* [PluginIds -> state]; "unknown" before discovery
  registries,         \* [Kinds -> plugins with a contribution in it]
  activationOrder,
  hookOn,             \* plugins whose hook has set itself up
  accepted,           \* what the dependency graph said: "pending", a sequence, or "refused"
  pluginCall,         \* [PluginCallers -> operation, its plugin, where it is, what it has left]
  pluginCalls, pluginFaults

pluginVars == <<requires, pluginRecord, registries, activationOrder, hookOn, accepted,
                pluginCall, pluginCalls, pluginFaults>>

NoCaller == [op |-> "none", plugin |-> 0, step |-> "none", left |-> <<>>]
Version == 1          \* of every plugin

PluginsInit ==
  /\ requires \in [PluginIds -> DependencySets]
  /\ \A p \in PluginIds : \A d \in requires[p] : d.plugin # p
  /\ pluginRecord = [p \in PluginIds |-> "unknown"]
  /\ registries = [k \in Kinds |-> {}]
  /\ activationOrder = <<>> /\ hookOn = {} /\ accepted = "pending"
  /\ pluginCall = [c \in PluginCallers |-> NoCaller]
  /\ pluginCalls = 0 /\ pluginFaults = 0

----------------------------------------------------------------------------
(* PluginDependencyGraph.order: depth first, dependencies by name *)

ByName(S) == SetToSortSeq(S, LAMBDA a, b : a < b)

\* a dependency that is not there, or not in a version it accepts
Unmet(d) ==
  \/ d.plugin \notin PluginIds /\ ~d.optional
  \/ d.plugin \in PluginIds /\ d.versions # {} /\ Version \notin d.versions

RECURSIVE Visit(_, _, _)
Visit(found, p, visiting) ==
  IF found = "refused" \/ p \in ToSet(found) THEN found
  ELSE IF p \in visiting \/ \E d \in requires[p] : Unmet(d) THEN "refused"
  ELSE LET dependencies == {d.plugin : d \in requires[p]} \cap PluginIds
           after == FoldLeft(LAMBDA f, q : Visit(f, q, visiting \cup {p}), found, ByName(dependencies))
       IN IF after = "refused" THEN after ELSE Append(after, p)

order == FoldLeft(LAMBDA f, p : Visit(f, p, {}), <<>>, ByName(PluginIds))

----------------------------------------------------------------------------
(* initialize() *)

FreeCaller(c) == pluginCall[c].op = "none"
Awaits(c, op, step) == pluginCall[c].op = op /\ pluginCall[c].step = step
Continues(c, op, p, step, left) ==
  pluginCall' = [pluginCall EXCEPT ![c] = [op |-> op, plugin |-> p, step |-> step, left |-> left]]
Settles(c) == pluginCall' = [pluginCall EXCEPT ![c] = NoCaller]
PluginFault == pluginFaults < MaxPluginFaults /\ pluginFaults' = pluginFaults + 1
StateOfPlugin(p, state) == pluginRecord' = [pluginRecord EXCEPT ![p] = state]

initialize(c) ==
  /\ FreeCaller(c) /\ \A p \in PluginIds : pluginRecord[p] = "unknown"
  /\ LET ids == ByName(PluginIds) IN
       /\ Continues(c, "initialize", Head(ids), "validate", Tail(ids))
       /\ StateOfPlugin(Head(ids), "discovered")
  /\ UNCHANGED <<requires, registries, activationOrder, hookOn, accepted, pluginCalls, pluginFaults>>

\* the catch of PluginRegistrationPipeline.register
Undo(p, added) == [k \in Kinds |-> added[k] \ {p}]

\* PluginRegistrationPipeline.register: a kind without a registry fails it
Registers(c, p, left) ==
  LET unknown == SelectInSeq(Contributes[p], LAMBDA k : k \notin Kinds)
      reached == ToSet(IF unknown = 0 THEN Contributes[p]
                       ELSE SubSeq(Contributes[p], 1, unknown - 1))
      added == [k \in Kinds |-> IF k \in reached THEN registries[k] \cup {p} ELSE registries[k]]
  IN IF unknown = 0
     THEN registries' = added /\ Continues(c, "initialize", p, "fact", left)
     ELSE registries' = Undo(p, added) /\ Settles(c)

Refuses(c) == Settles(c) /\ UNCHANGED registries

\* the first of the ordered plugins, once the last is validated
Validated(c) ==
  /\ Awaits(c, "initialize", "validate")
  /\ LET call == pluginCall[c] IN
       IF call.left # <<>>
       THEN /\ Continues(c, "initialize", Head(call.left), "validate", Tail(call.left))
            /\ pluginRecord' = [pluginRecord EXCEPT ![call.plugin] = "validated",
                                                    ![Head(call.left)] = "discovered"]
            /\ UNCHANGED <<accepted, registries>>
       ELSE /\ accepted' = order
            /\ IF order = "refused"
               THEN Refuses(c) /\ StateOfPlugin(call.plugin, "validated")
               ELSE /\ Registers(c, order[1], Tail(order))
                    /\ pluginRecord' = [pluginRecord EXCEPT ![call.plugin] = "validated",
                         ![order[1]] = IF ToSet(Contributes[order[1]]) \subseteq Kinds
                                       THEN "registered" ELSE "validated"]
  /\ UNCHANGED <<requires, activationOrder, hookOn, pluginCalls, pluginFaults>>

\* PluginRegisteredV1 is published: the next plugin is registered
RegisteredFact(c) ==
  /\ Awaits(c, "initialize", "fact")
  /\ LET left == pluginCall[c].left IN
       IF left = <<>> THEN Settles(c) /\ UNCHANGED <<registries, pluginRecord>>
       ELSE /\ Registers(c, Head(left), Tail(left))
            /\ IF ToSet(Contributes[Head(left)]) \subseteq Kinds
               THEN StateOfPlugin(Head(left), "registered") ELSE UNCHANGED pluginRecord
  /\ UNCHANGED <<requires, activationOrder, hookOn, accepted, pluginCalls, pluginFaults>>

\* a manifest or its permissions are refused, or a publication fails
InitializeFails(c) ==
  /\ pluginCall[c].op = "initialize" /\ PluginFault /\ Settles(c)
  /\ UNCHANGED <<requires, pluginRecord, registries, activationOrder, hookOn, accepted, pluginCalls>>

----------------------------------------------------------------------------
(* activate(), deactivate(), shutdown() *)

CallPlugin(c) == FreeCaller(c) /\ pluginCalls < MaxPluginCalls /\ pluginCalls' = pluginCalls + 1

Activatable == {"registered", "inactive"}

activate(c, p) ==
  /\ CallPlugin(c) /\ pluginRecord[p] \in Activatable
  /\ StateOfPlugin(p, "activating")
  /\ Continues(c, "activate", p, "hook", <<>>)
  /\ UNCHANGED <<requires, registries, activationOrder, hookOn, accepted, pluginFaults>>

Activated(c) ==
  /\ Awaits(c, "activate", "hook")
  /\ LET p == pluginCall[c].plugin IN
       /\ hookOn' = hookOn \cup {p} /\ activationOrder' = Append(activationOrder, p)
       /\ StateOfPlugin(p, "active")
       /\ Continues(c, "activate", p, "fact", <<>>)
  /\ UNCHANGED <<requires, registries, accepted, pluginCalls, pluginFaults>>

\* the hook, or the publication after it, throws
ActivationFails(c) ==
  /\ pluginCall[c].op = "activate" /\ PluginFault
  /\ StateOfPlugin(pluginCall[c].plugin, "failed") /\ Settles(c)
  /\ UNCHANGED <<requires, registries, activationOrder, hookOn, accepted, pluginCalls>>

ActivatedFact(c) ==
  /\ Awaits(c, "activate", "fact") /\ Settles(c)
  /\ UNCHANGED <<requires, pluginRecord, registries, activationOrder, hookOn, accepted,
                 pluginCalls, pluginFaults>>

\* the plugins of a shutdown that are not inactive already, the last activated first
Remaining(left) ==
  LET first == SelectInSeq(left, LAMBDA p : pluginRecord[p] # "inactive")
  IN IF first = 0 THEN <<>> ELSE SubSeq(left, first, Len(left))

\* deactivate() of the first of them: it throws unless the plugin is active
Deactivates(c, op, left) ==
  IF Remaining(left) = <<>> \/ pluginRecord[Head(Remaining(left))] # "active"
  THEN Settles(c) /\ UNCHANGED pluginRecord
  ELSE /\ Continues(c, op, Head(Remaining(left)), "hook", Tail(Remaining(left)))
       /\ StateOfPlugin(Head(Remaining(left)), "deactivating")

deactivate(c, p) ==
  /\ CallPlugin(c) /\ pluginRecord[p] = "active"
  /\ Deactivates(c, "deactivate", <<p>>)
  /\ UNCHANGED <<requires, registries, activationOrder, hookOn, accepted, pluginFaults>>

shutdown(c) ==
  /\ CallPlugin(c) /\ activationOrder # <<>>
  /\ Deactivates(c, "shutdown", Reverse(activationOrder))
  /\ UNCHANGED <<requires, registries, activationOrder, hookOn, accepted, pluginFaults>>

Stops(c) == pluginCall[c].op \in {"deactivate", "shutdown"}

\* lastIndexOf, splice
Without(p) ==
  LET index == SelectLastInSeq(activationOrder, LAMBDA q : q = p)
  IN IF index = 0 THEN activationOrder ELSE RemoveAt(activationOrder, index)

Deactivated(c) ==
  /\ Stops(c) /\ pluginCall[c].step = "hook"
  /\ LET p == pluginCall[c].plugin IN
       /\ hookOn' = hookOn \ {p} /\ activationOrder' = Without(p)
       /\ StateOfPlugin(p, "inactive")
       /\ pluginCall' = [pluginCall EXCEPT ![c].step = "fact"]
  /\ UNCHANGED <<requires, registries, accepted, pluginCalls, pluginFaults>>

DeactivatedFact(c) ==
  /\ Stops(c) /\ pluginCall[c].step = "fact"
  /\ Deactivates(c, pluginCall[c].op, pluginCall[c].left)
  /\ UNCHANGED <<requires, registries, activationOrder, hookOn, accepted, pluginCalls, pluginFaults>>

\* the hook or the publication throws: the rest of a shutdown is not reached
DeactivationFails(c) ==
  /\ Stops(c) /\ PluginFault /\ Settles(c)
  /\ UNCHANGED <<requires, pluginRecord, registries, activationOrder, hookOn, accepted, pluginCalls>>

PluginsNext ==
  \E c \in PluginCallers :
    \/ initialize(c) \/ Validated(c) \/ RegisteredFact(c) \/ InitializeFails(c)
    \/ Activated(c) \/ ActivationFails(c) \/ ActivatedFact(c)
    \/ shutdown(c) \/ Deactivated(c) \/ DeactivatedFact(c) \/ DeactivationFails(c)
    \/ \E p \in PluginIds : activate(c, p) \/ deactivate(c, p)

PluginsSpec == PluginsInit /\ [][PluginsNext]_pluginVars

----------------------------------------------------------------------------
(* Properties *)

PluginsTypeOK ==
  /\ pluginRecord \in [PluginIds -> {"unknown", "discovered", "validated", "registered", "activating",
                                     "active", "deactivating", "inactive", "failed"}]
  /\ registries \in [Kinds -> SUBSET PluginIds]
  /\ activationOrder \in Seq(PluginIds) /\ hookOn \subseteq PluginIds

\* what follows from a dependency, over any number of steps
Needs(p) == {d.plugin : d \in requires[p]} \cap PluginIds
RECURSIVE NeedsWithin(_, _)
NeedsWithin(p, n) ==
  IF n = 0 THEN {} ELSE Needs(p) \cup UNION {NeedsWithin(q, n - 1) : q \in Needs(p)}

(* The graph accepts exactly the plugins whose dependencies are met and form no     *)
(* cycle, and puts every plugin after those it needs (dependency-graph.ts 4-26).     *)
OrderIsSound ==
  accepted # "pending" =>
    LET sound == \A p \in PluginIds : /\ \A d \in requires[p] : ~Unmet(d)
                                      /\ p \notin NeedsWithin(p, Cardinality(PluginIds))
    IN /\ sound <=> accepted # "refused"
       /\ sound => /\ ToSet(accepted) = PluginIds /\ Len(accepted) = Cardinality(PluginIds)
                   /\ \A i \in DOMAIN accepted :
                        Needs(accepted[i]) \subseteq ToSet(SubSeq(accepted, 1, i - 1))

(* Registration is "metadata-only and atomic" (specification 02): a plugin is in      *)
(* all the registries of its contributions or in none (registration.ts 20-33).         *)
RegistrationAtomic ==
  \A p \in PluginIds :
    IF pluginRecord[p] \in {"unknown", "discovered", "validated"}
    THEN \A k \in Kinds : p \notin registries[k]
    ELSE \A k \in ToSet(Contributes[p]) : k \in Kinds /\ p \in registries[k]

(* A hook is never set up twice, and what a shutdown goes through is what is set      *)
(* up: whichever calls overlap and fail, late publications of an earlier activation     *)
(* included (plugin-manager.ts 41-61).                                                    *)
HooksMatchRecords ==
  /\ IsInjective(activationOrder) /\ ToSet(activationOrder) = hookOn
  /\ \A p \in PluginIds :
       /\ pluginRecord[p] = "active" => p \in hookOn
       /\ pluginRecord[p] \in {"registered", "activating", "inactive"} => p \notin hookOn

(* What shutdown() leaves set up is being set up or stopped by somebody: refuted. A     *)
(* plugin whose activation could not be published is 'failed' but set up, and            *)
(* deactivate() throws on it, for itself and for the rest of the shutdown.                *)
ShutdownReachesAll ==
  \A p \in hookOn : pluginRecord[p] # "failed"

(* A plugin is active only while what it needs is: refuted, since activate() and        *)
(* deactivate() look at the plugin's own state alone.                                    *)
NeedsAreActive ==
  \A p \in PluginIds : pluginRecord[p] = "active" => \A q \in Needs(p) : pluginRecord[q] = "active"

(* What the manager promises of its plugins (plugin-manager.ts, registration.ts,          *)
(* dependency-graph.ts).                                                                   *)
PluginsInv == PluginsTypeOK /\ OrderIsSound /\ RegistrationAtomic /\ HooksMatchRecords

=============================================================================
