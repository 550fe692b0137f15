------------------------------ MODULE ReferenceStore ------------------------------
(***************************************************************************)
(* The in-memory provider (packages/persistence, reference.ts) under the       *)
(* PersistenceFramework: clients read entities, stage saves and deletes that    *)
(* expect what they read (and nothing after a delete of their own), and commit.  *)
(* A commit works on copies of the repositories it enlists and puts them in       *)
(* place together; its publication is awaited afterwards.  Tokens are made of      *)
(* the revision and the caller's time.                                              *)
(***************************************************************************)
EXTENDS Naturals, Sequences

CONSTANTS
  Repositories, EntityIds,
  Clients,                  \* each with one transaction
  Enlists,                  \* [Clients -> the repositories of its request]
  WrittenAt,                \* [Clients -> the time its operations carry]
  MaxStaged,                \* bound: [Clients -> operations of its transaction]
  MaxPublicationFaults      \* bound

ASSUME ReferenceAssumption ==
  /\ Clients \cap {"none", "earlier"} = {}
  /\ MaxStaged \in [Clients -> Nat] /\ MaxPublicationFaults \in Nat

VARIABLES
  entities,                 \* [Keys -> the entity, or Missing]
  client,                   \* [Clients -> state of its transaction, what it read and staged]
  publicationFaults

referenceVars == <<entities, client, publicationFaults>>

Keys == Repositories \X EntityIds
Missing == [revision |-> 0, token |-> <<0, 0>>, data |-> "none"]
Earlier == [revision |-> 1, token |-> <<1, 0>>, data |-> "earlier"]

ReferenceInit ==
  /\ entities \in [Keys -> {Missing, Earlier}]
  /\ client = [c \in Clients |->
       [state |-> "active", staged |-> <<>>, told |-> "nothing",
        read |-> entities, replaced |-> entities]]
  /\ publicationFaults = 0

----------------------------------------------------------------------------
(* find(), stage() *)

Active(c) == client[c].state = "active"

\* find() of an entity that changed since, before anything is staged on it
find(c, k) ==
  /\ Active(c) /\ k[1] \in Enlists[c] /\ client[c].read[k] # entities[k]
  /\ \A i \in DOMAIN client[c].staged : client[c].staged[i].key # k
  /\ client' = [client EXCEPT ![c].read[k] = entities[k]]
  /\ UNCHANGED <<entities, publicationFaults>>

\* the version that was read; none of what the transaction has deleted
ExpectedOf(staged, k, read) ==
  LET earlier == {i \in DOMAIN staged : staged[i].key = k} IN
  IF \E i \in earlier : staged[i].type = "delete" /\ \A j \in earlier : j <= i THEN Missing ELSE read

\* of an enlisted repository
stage(c, k, type) ==
  /\ Active(c) /\ Len(client[c].staged) < MaxStaged[c] /\ k[1] \in Enlists[c]
  /\ client' = [client EXCEPT ![c].staged =
       Append(@, [type |-> type, key |-> k, expected |-> ExpectedOf(@, k, client[c].read[k])])]
  /\ UNCHANGED <<entities, publicationFaults>>

----------------------------------------------------------------------------
(* commit(): save() and remove() on the copies *)

Matches(current, expected) ==
  current.revision = expected.revision /\ current.token = expected.token

\* no copy to put in place
Refused == <<>>

\* a save of what is missing expects nothing; a delete of it is refused
applyOperation(shadow, operation, c) ==
  IF shadow = Refused THEN shadow
  ELSE LET current == shadow[operation.key]
           revision == current.revision + 1
       IN IF \/ ~Matches(current, operation.expected)
             \/ operation.type = "delete" /\ current = Missing
          THEN Refused
          ELSE [shadow EXCEPT ![operation.key] =
                  IF operation.type = "delete" THEN Missing
                  ELSE [revision |-> revision, token |-> <<revision, WrittenAt[c]>>, data |-> c]]

\* the copies at first, and after each operation
Copies(start, operations, c) ==
  LET after[n \in 0..Len(operations)] ==
        IF n = 0 THEN start ELSE applyOperation(after[n - 1], operations[n], c)
  IN  after

Shadow(c) == Copies(entities, client[c].staged, c)[Len(client[c].staged)]

commit(c) ==
  /\ Active(c)
  /\ IF Shadow(c) = Refused
     THEN /\ client' = [client EXCEPT ![c].state = "failed", ![c].told = "failed"]
          /\ UNCHANGED entities
     ELSE /\ entities' = Shadow(c)
          /\ client' = [client EXCEPT ![c].state = "publishing", ![c].replaced = entities]
  /\ UNCHANGED publicationFaults

\* AccountableTransaction.commit: transaction-committed is published, and then told
CommitTold(c) ==
  /\ client[c].state = "publishing"
  /\ client' = [client EXCEPT ![c].state = "committed", ![c].told = "committed"]
  /\ UNCHANGED <<entities, publicationFaults>>

CommitUnpublished(c) ==
  /\ client[c].state = "publishing" /\ publicationFaults < MaxPublicationFaults
  /\ publicationFaults' = publicationFaults + 1
  /\ client' = [client EXCEPT ![c].state = "committed", ![c].told = "failed"]
  /\ UNCHANGED entities

RollsBack == {"active", "failed"}

\* and then transaction-rolled-back is published, which may fail
rollsBack(c) ==
  /\ client[c].state \in RollsBack
  /\ \/ /\ client' = [client EXCEPT ![c].state = "rolled-back", ![c].told = "rolled-back"]
        /\ UNCHANGED publicationFaults
     \/ /\ publicationFaults < MaxPublicationFaults /\ publicationFaults' = publicationFaults + 1
        /\ client' = [client EXCEPT ![c].state = "rolled-back", ![c].told = "failed"]
  /\ UNCHANGED entities

ReferenceNext ==
  \E c \in Clients :
    \/ commit(c) \/ CommitTold(c) \/ CommitUnpublished(c) \/ rollsBack(c)
    \/ \E k \in Keys : find(c, k) \/ \E type \in {"save", "delete"} : stage(c, k, type)

ReferenceSpec == ReferenceInit /\ [][ReferenceNext]_referenceVars

----------------------------------------------------------------------------
(* Properties *)

ReferenceTypeOK ==
  /\ \A c \in Clients :
       /\ client[c].state \in {"active", "publishing", "committed", "failed", "rolled-back"}
       /\ client[c].told \in {"nothing", "committed", "failed", "rolled-back"}
       /\ Len(client[c].staged) <= MaxStaged[c]
  /\ \A k \in Keys : /\ entities[k].token[1] = entities[k].revision
                      /\ entities[k].data \in Clients \cup {"none", "earlier"}

Touches(c) == {client[c].staged[i].key : i \in DOMAIN client[c].staged}

\* when what is stored was written; what was there before the clients at 0
TimeOf(writer) == IF writer \in Clients THEN WrittenAt[writer] ELSE 0
SameTick(e, f) == /\ "none" \notin {e.data, f.data} /\ e.revision = f.revision
                  /\ TimeOf(e.data) = TimeOf(f.data)

(* A transaction that is committed replaced the entities its client had read, whatever  *)
(* the order and number of its operations; what another client put in their place is lost  *)
(* only when it has their revision and was written at their tick (save and remove,           *)
(* reference.ts 274-338, 406).                                                                 *)
NoLostUpdate ==
  \A c \in Clients : client[c].state \in {"publishing", "committed"} =>
    \A k \in Touches(c) : \/ client[c].replaced[k] = client[c].read[k]
                         \/ SameTick(client[c].replaced[k], client[c].read[k])

(* Without that exception: refuted.  A client that deletes an entity and makes it again     *)
(* within the tick of the first gives it the token which another client still expects.        *)
NothingIsLost ==
  \A c \in Clients : client[c].state \in {"publishing", "committed"} =>
    \A k \in Touches(c) : client[c].replaced[k] = client[c].read[k]

(* A client that is told of a rollback has left nothing behind, in any repository, a     *)
(* commit whose publication failed before included (reference.ts 165-181).                *)
RolledBackLeavesNothing ==
  \A c \in Clients : client[c].told = "rolled-back" =>
    \A k \in Keys : entities[k].data # c

(* What clients are told by the in-memory provider (reference.ts, index.ts 379-475).       *)
ReferenceInv == ReferenceTypeOK /\ NoLostUpdate /\ RolledBackLeavesNothing

=============================================================================
