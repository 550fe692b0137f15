------------------------------- MODULE Composition -------------------------------
(***************************************************************************)
(* CompositionRoot once it is built: a root container and the execution        *)
(* scopes opened on it.  A token is resolved by awaiting the promise of its      *)
(* value, which is cached for a singleton and, per scope, for a scoped token;     *)
(* the factory resolves the dependencies it declared, one after the other,          *)
(* through the root or scope it is called in.  Roots and scopes are disposed while     *)
(* factories run.                                                                       *)
(***************************************************************************)
EXTENDS Naturals, Sequences, SequencesExt

CONSTANTS
  Tokens,
  Lifetime,          \* [Tokens -> {"singleton", "scoped", "transient"}]
  DependsOn,         \* [Tokens -> Seq(Tokens)]
  Scopes,            \* execution scopes
  Resolvers,         \* callers outside any factory
  MaxPromises, MaxFactoryFaults   \* bounds

Root == "root"
Places == {Root} \cup Scopes

\* #reachesScoped, over the dependencies of an acyclic graph
ReachesScoped[n \in 0..10, t \in Tokens] ==
  n > 0 /\ \E d \in ToSet(DependsOn[t]) : Lifetime[d] = "scoped" \/ ReachesScoped[n - 1, d]

\* #validateGraph: the containers that build() accepts
ASSUME DependenciesAssumption == \A t \in Tokens : DependsOn[t] \in Seq(Tokens)
ASSUME CompositionAssumption ==
  \A t \in Tokens : Lifetime[t] = "singleton" => ~ReachesScoped[10, t]

VARIABLES
  promises,          \* #create calls in order: [token, at, parts, step]
  cache,             \* per place: token -> promise, 0 when there is none
  disposables,       \* per place: the promises whose value it disposes, as they were made
  disposal,          \* per place: [step, left], left the values still to dispose
  disposedValues,    \* promises whose value had dispose() called
  resolver,          \* per caller: the promise it awaits, or 0
  factoryFaults

compositionVars == <<promises, cache, disposables, disposal, disposedValues, resolver, factoryFaults>>

CompositionInit ==
  /\ promises = <<>>
  /\ cache = [p \in Places |-> [t \in Tokens |-> 0]]
  /\ disposables = [p \in Places |-> <<>>]
  /\ disposal = [p \in Places |-> [step |-> "open", left |-> <<>>]]
  /\ disposedValues = {} /\ factoryFaults = 0
  /\ resolver = [r \in Resolvers |-> 0]

----------------------------------------------------------------------------
(* #resolve *)

\* the cache of a resolution in a place; a transient has none
CacheOf(t, place) == IF Lifetime[t] = "singleton" THEN Root ELSE place

Refused(t, place) ==
  \/ disposal[place].step # "open" \/ disposal[Root].step # "open"
  \/ Lifetime[t] = "scoped" /\ place = Root

Cached(t, place) == IF Lifetime[t] = "transient" THEN 0 ELSE cache[CacheOf(t, place)][t]

Remembered(t, place, promise) ==
  IF Lifetime[t] = "transient" THEN cache ELSE [cache EXCEPT ![CacheOf(t, place)][t] = promise]

\* the promise a resolution awaits, and the promises and the cache it leaves
Promise(t, place) == IF Cached(t, place) # 0 THEN Cached(t, place) ELSE Len(promises) + 1
Creates(t, place) == Cached(t, place) = 0
NewPromise(t, place) == [token |-> t, at |-> place, parts |-> <<>>, step |-> "making"]

resolve(r, t, place) ==
  /\ resolver[r] = 0 /\ ~Refused(t, place)
  /\ Len(promises) < MaxPromises
  /\ resolver' = [resolver EXCEPT ![r] = Promise(t, place)]
  /\ IF Creates(t, place)
     THEN /\ promises' = Append(promises, NewPromise(t, place))
          /\ cache' = Remembered(t, place, Len(promises) + 1)
     ELSE UNCHANGED <<promises, cache>>
  /\ UNCHANGED <<disposables, disposal, disposedValues, factoryFaults>>

\* the caller resumes, with the value or with the error
Resumes(r) ==
  /\ resolver[r] # 0 /\ promises[resolver[r]].step # "making"
  /\ resolver' = [resolver EXCEPT ![r] = 0]
  /\ UNCHANGED <<promises, cache, disposables, disposal, disposedValues, factoryFaults>>

----------------------------------------------------------------------------
(* #create *)

Part(p) == IF promises[p].parts = <<>> THEN 0 ELSE promises[p].parts[Len(promises[p].parts)]
Awaits(p) == Part(p) # 0 /\ promises[Part(p)].step = "making"
Wanted(p) == DependsOn[promises[p].token][Len(promises[p].parts) + 1]
Complete(p) == Len(promises[p].parts) = Len(DependsOn[promises[p].token])
Running(p) == promises[p].step = "making" /\ ~Awaits(p)
PartFailed(p) == Part(p) # 0 /\ promises[Part(p)].step = "failed"

\* the factory resolves its next dependency, in the place it was called in
FactoryResolves(p) ==
  /\ Running(p) /\ ~PartFailed(p) /\ ~Complete(p) /\ ~Refused(Wanted(p), promises[p].at)
  /\ Len(promises) < MaxPromises
  /\ LET t == Wanted(p)  place == promises[p].at
         waiting == [promises EXCEPT ![p].parts = Append(@, Promise(t, place))] IN
       IF Creates(t, place)
       THEN /\ promises' = Append(waiting, NewPromise(t, place))
            /\ cache' = Remembered(t, place, Len(promises) + 1)
       ELSE promises' = waiting /\ UNCHANGED cache
  /\ UNCHANGED <<disposables, disposal, disposedValues, resolver, factoryFaults>>

\* decorated, the value is handed to the place for disposal
Made(p) ==
  /\ Running(p) /\ ~PartFailed(p) /\ Complete(p)
  /\ promises' = [promises EXCEPT ![p].step = "made"]
  /\ disposables' = [disposables EXCEPT ![promises[p].at] = Append(@, p)]
  /\ UNCHANGED <<cache, disposal, disposedValues, resolver, factoryFaults>>

\* the promise rejects and whoever awaits it takes it out of the cache
Rejects(p) ==
  /\ promises' = [promises EXCEPT ![p].step = "failed"]
  /\ cache' = [q \in Places |-> [t \in Tokens |-> IF cache[q][t] = p THEN 0 ELSE cache[q][t]]]
  /\ UNCHANGED <<disposables, disposal, disposedValues, resolver>>

FactoryFails(p) ==
  /\ Running(p) /\ ~PartFailed(p)
  /\ factoryFaults < MaxFactoryFaults /\ factoryFaults' = factoryFaults + 1
  /\ Rejects(p)

DependencyFails(p) ==
  /\ Running(p)
  /\ PartFailed(p) \/ (~Complete(p) /\ Refused(Wanted(p), promises[p].at))
  /\ Rejects(p) /\ UNCHANGED factoryFaults

----------------------------------------------------------------------------
(* dispose, of the root or of a scope *)

\* Seeded bug: values are disposed in the order they were made.
DisposalOrder_AsMade(values) == values
DisposalOrder(values) == Reverse(values)

dispose(place) ==
  /\ disposal[place].step = "open"
  /\ disposal' = [disposal EXCEPT ![place] = [step |-> "disposing", left |-> DisposalOrder(disposables[place])]]
  /\ UNCHANGED <<promises, cache, disposables, disposedValues, resolver, factoryFaults>>

\* disposeReverse awaits one value after the other
DisposesNext(place) ==
  /\ disposal[place].left # <<>>
  /\ disposedValues' = disposedValues \cup {Head(disposal[place].left)}
  /\ disposal' = [disposal EXCEPT ![place].left = Tail(@)]
  /\ UNCHANGED <<promises, cache, disposables, resolver, factoryFaults>>

\* what was made meanwhile is dropped from the list unseen
Disposed(place) ==
  /\ disposal[place] = [step |-> "disposing", left |-> <<>>]
  /\ disposal' = [disposal EXCEPT ![place].step = "disposed"]
  /\ disposables' = [disposables EXCEPT ![place] = <<>>]
  /\ cache' = [cache EXCEPT ![place] = [t \in Tokens |-> 0]]
  /\ UNCHANGED <<promises, disposedValues, resolver, factoryFaults>>

CompositionNext ==
  \/ \E r \in Resolvers, t \in Tokens, p \in Places : resolve(r, t, p)
  \/ \E r \in Resolvers : Resumes(r)
  \/ \E p \in DOMAIN promises : FactoryResolves(p) \/ Made(p) \/ FactoryFails(p) \/ DependencyFails(p)
  \/ \E p \in Places : dispose(p) \/ DisposesNext(p) \/ Disposed(p)

CompositionSpec == CompositionInit /\ [][CompositionNext]_compositionVars

----------------------------------------------------------------------------
(* Properties *)

CompositionTypeOK ==
  /\ \A p \in DOMAIN promises : /\ promises[p].step \in {"making", "made", "failed"}
                                /\ ToSet(promises[p].parts) \subseteq DOMAIN promises
                                /\ promises[p].at \in Places
  /\ \A q \in Places, t \in Tokens : cache[q][t] \in 0..Len(promises)
  /\ \A q \in Places : ToSet(disposables[q]) \subseteq DOMAIN promises
  /\ \A r \in Resolvers : resolver[r] \in 0..Len(promises)

PromisesOf(t) == {p \in DOMAIN promises : promises[p].token = t}

(* Whoever resolves it first, and from whatever scopes at the same time, a       *)
(* singleton whose factory never failed is created once                            *)
(* (composition-root.ts 207-212).                                                    *)
CreatedOnce ==
  \A t \in Tokens : Lifetime[t] = "singleton" =>
    \/ \E p \in PromisesOf(t) : promises[p].step = "failed"
    \/ \A p, q \in PromisesOf(t) : p = q

(* Whatever was resolving when the disposal of a root or scope began, it disposes no  *)
(* value of that place before one that the place made from it and had finished by then *)
(* (disposeReverse, composition-root.ts 263-266).  A value of another place that was     *)
(* made from it, and one that is finished during the disposal, may be left with a          *)
(* disposed part: see SingletonsOutliveScopes.                                               *)
DependentsFirst ==
  \A s \in Places : \A q \in ToSet(disposal[s].left) :
    \A p \in ToSet(promises[q].parts) : promises[p].at = s => p \notin disposedValues

(* A singleton lives as long as the root: "created lazily once in the root          *)
(* container and disposed with it" (specification 03, line 38).  Refuted: the scope      *)
(* that resolves it first disposes it.                                                    *)
SingletonsOutliveScopes ==
  \A t \in Tokens : cache[Root][t] \in disposedValues => disposal[Root].step # "open"

(* The two promises of the container: one singleton, and within a place disposal from *)
(* the dependents down (composition-root.ts 160-266).                                  *)
CompositionInv == CompositionTypeOK /\ CreatedOnce /\ DependentsFirst

=============================================================================
