------------------------------- MODULE Persistence -------------------------------
(***************************************************************************)
(* Transactions on PostgreSQL (packages/persistence-postgres) under the     *)
(* PersistenceFramework (packages/persistence), as the host's checkpoint    *)
(* store (apps/platform-host, persistence-execution-checkpoint-store.ts)     *)
(* drives them: load, then find again, begin, compare, commit.  A commit     *)
(* applies its operations one query at a time under row locks at READ        *)
(* COMMITTED.  The database (locks, pool, lost connections) is external.     *)
(***************************************************************************)
EXTENDS AtomicStore, FiniteSets, Sequences, SequencesExt

Free == "free"      \* of a row that is not locked

CONSTANTS
  Order,           \* [Transactions -> the entities of its operations, in their order]
  PoolSize,        \* connections of the pool
  MaxDbFaults      \* bound: failed queries, lost connections, failed publications

ASSUME PersistenceAssumption ==
  /\ \A t \in Transactions : /\ Order[t] \in Seq(Entities) \ {<<>>}
                             /\ ToSet(Order[t]) = DOMAIN Operations[t]
  /\ Free \notin Transactions
  /\ PoolSize \in Nat \ {0}

VARIABLES
  tx,              \* [Transactions -> where the call is and what it has done]
  lock,            \* [Entities -> the transaction that holds the row, or Free]
  connections,     \* transactions that hold a connection of the pool
  facts,           \* published persistence.transaction-committed and -rolled-back
  dbFaults

persistenceVars == <<storeVars, tx, lock, connections, facts, dbFaults>>

\* existing: what find() returned; next: the operation to be applied next
PersistenceTransaction ==
  [at : {"unused", "loaded", "found", "begun", "applying", "publishing", "undoing", "ended"},
   existing : [Entities -> [revision : Nat, token : Transactions \cup {"none"}]], next : Nat]

PersistenceInit ==
  /\ StoreInit
  /\ tx = [t \in Transactions |->
             [at |-> "unused", existing |-> [e \in Entities |-> Absent], next |-> 1]]
  /\ lock = [e \in Entities |-> Free]
  /\ connections = {} /\ facts = {} /\ dbFaults = 0

At(t, place) == tx[t].at = place
MovesTo(t, place) == tx' = [tx EXCEPT ![t].at = place]
Unlocked(t) == [e \in Entities |-> IF lock[e] = t THEN Free ELSE lock[e]]
Fault == dbFaults < MaxDbFaults /\ dbFaults' = dbFaults + 1
Touched(t) == DOMAIN Operations[t]

----------------------------------------------------------------------------
(* PersistenceExecutionCheckpointStore: load() and store() *)

LoadCheckpoint(t) ==
  /\ At(t, "unused")
  /\ LoadAll(t)
  /\ MovesTo(t, "loaded")
  /\ UNCHANGED <<lock, connections, facts, dbFaults>>

FindExisting(t) ==
  /\ At(t, "loaded")
  /\ tx' = [tx EXCEPT ![t].at = "found", ![t].existing = rows]
  /\ UNCHANGED <<storeVars, lock, connections, facts, dbFaults>>

\* pool.connect() waits for a connection, then BEGIN
Begin(t) ==
  /\ At(t, "found") /\ Cardinality(connections) < PoolSize
  /\ connections' = connections \cup {t}
  /\ MovesTo(t, "begun")
  /\ UNCHANGED <<storeVars, lock, facts, dbFaults>>

BeginFails(t) ==
  /\ At(t, "found") /\ Fault
  /\ UNCHANGED <<rows, base, applied, lock, connections, facts>>
  /\ Tell(t, "failed") /\ MovesTo(t, "ended")

\* the token of the checkpoint against the one found
SameVersion(t) == \A e \in Touched(t) : tx[t].existing[e] = base[t][e]

StageWrite(t) ==
  /\ At(t, "begun") /\ SameVersion(t)
  /\ MovesTo(t, "applying")
  /\ UNCHANGED <<storeVars, lock, connections, facts, dbFaults>>

CheckpointConflict(t) ==
  /\ At(t, "begun") /\ ~SameVersion(t)
  /\ MovesTo(t, "undoing")
  /\ UNCHANGED <<storeVars, lock, connections, facts, dbFaults>>

----------------------------------------------------------------------------
(* PostgresPersistenceTransaction.commit: applySave and applyDelete *)

Applying(t) == At(t, "applying") /\ tx[t].next <= Len(Order[t])
Target(t) == Order[t][tx[t].next]

\* Seeded bug: what is stored is not compared with what is expected.
Expected_Any(t) == TRUE

\* SELECT ... FOR UPDATE finds the latest committed row, and it is the expected one
Expected(t) == rows[Target(t)] = tx[t].existing[Target(t)]

\* FOR UPDATE, or an INSERT beside another's uncommitted one, waits for the lock
ApplyOperation(t) ==
  /\ Applying(t) /\ lock[Target(t)] = Free
  /\ Expected(t) /\ (Operations[t][Target(t)] = "delete" => rows[Target(t)] # Absent)
  /\ lock' = [lock EXCEPT ![Target(t)] = t]
  /\ tx' = [tx EXCEPT ![t].next = @ + 1]
  /\ UNCHANGED <<storeVars, connections, facts, dbFaults>>

\* the state is 'failed': ROLLBACK
Fails(t) ==
  /\ MovesTo(t, "undoing") /\ lock' = Unlocked(t)
  /\ UNCHANGED <<storeVars, connections, facts>>

\* OPTIMISTIC_LOCK_FAILED, DUPLICATE_ENTITY, ENTITY_NOT_FOUND
OperationRefused(t) ==
  /\ Applying(t) /\ lock[Target(t)] = Free
  /\ ~Expected(t) \/ (Operations[t][Target(t)] = "delete" /\ rows[Target(t)] = Absent)
  /\ Fails(t) /\ UNCHANGED dbFaults

QueryFails(t) == At(t, "applying") /\ Fault /\ Fails(t)

\* two transactions wait for each other: the database fails one of them
WaitsFor(t, u) == t # u /\ Applying(t) /\ lock[Target(t)] = u
DeadlockDetected(t) ==
  /\ \E u \in Transactions : WaitsFor(t, u) /\ WaitsFor(u, t)
  /\ Fails(t) /\ UNCHANGED dbFaults

Releases(t) == connections' = connections \ {t}

Commit(t) ==
  /\ At(t, "applying") /\ tx[t].next > Len(Order[t])
  /\ rows' = After(t) /\ applied' = applied \cup {t}
  /\ lock' = Unlocked(t) /\ Releases(t)
  /\ MovesTo(t, "publishing")
  /\ UNCHANGED <<base, answer, facts, dbFaults>>

\* the connection is lost around COMMIT, which may have happened
CommitLost(t) ==
  /\ At(t, "applying") /\ tx[t].next > Len(Order[t]) /\ Fault
  /\ \/ rows' = After(t) /\ applied' = applied \cup {t}
     \/ UNCHANGED <<rows, applied>>
  /\ lock' = Unlocked(t)
  /\ MovesTo(t, "undoing")
  /\ UNCHANGED <<base, answer, connections, facts>>

\* Seeded bug: a commit that failed keeps its connection.
Undo_KeepsConnection(t) ==
  /\ At(t, "undoing")
  /\ UNCHANGED <<rows, base, applied, lock, connections, dbFaults>>
  /\ Tell(t, "failed") /\ MovesTo(t, "ended")
  /\ facts' = facts \cup {<<t, "rolled-back">>}

\* the finally of commit(), then the caller's rollback() and its fact
Undo(t) ==
  /\ At(t, "undoing")
  /\ UNCHANGED <<rows, base, applied, lock, dbFaults>>
  /\ Tell(t, "failed") /\ MovesTo(t, "ended") /\ Releases(t)
  /\ facts' = facts \cup {<<t, "rolled-back">>}

----------------------------------------------------------------------------
(* AccountableTransaction.commit: the fact, and then the answer *)

PublishCommitted(t) ==
  /\ At(t, "publishing")
  /\ UNCHANGED <<rows, base, applied, lock, connections, dbFaults>>
  /\ Tell(t, "committed") /\ MovesTo(t, "ended")
  /\ facts' = facts \cup {<<t, "committed">>}

\* TRANSACTION_FAILED, though it is committed
PublishFails(t) ==
  /\ At(t, "publishing") /\ Fault
  /\ UNCHANGED <<rows, base, applied, lock, connections, facts>>
  /\ Tell(t, "failed") /\ MovesTo(t, "ended")

Proceed(t) ==
  \/ FindExisting(t) \/ Begin(t) \/ StageWrite(t) \/ CheckpointConflict(t)
  \/ ApplyOperation(t) \/ OperationRefused(t) \/ DeadlockDetected(t) \/ Commit(t)
  \/ Undo(t) \/ PublishCommitted(t)

PersistenceNext ==
  \E t \in Transactions :
    \/ LoadCheckpoint(t) \/ Proceed(t)
    \/ BeginFails(t) \/ QueryFails(t) \/ CommitLost(t) \/ PublishFails(t)

\* the pool is a queue, and the database answers and grants its locks in turn
PersistenceFairness ==
  \A t \in Transactions :
    WF_persistenceVars(Proceed(t)) /\ SF_persistenceVars(Begin(t) \/ ApplyOperation(t))

PersistenceSpec == PersistenceInit /\ [][PersistenceNext]_persistenceVars /\ PersistenceFairness

----------------------------------------------------------------------------
(* Properties *)

PersistenceTypeOK ==
  /\ tx \in [Transactions -> PersistenceTransaction]
  /\ lock \in [Entities -> Transactions \cup {Free}]
  /\ connections \subseteq Transactions /\ Cardinality(connections) <= PoolSize
  /\ facts \subseteq Transactions \X {"committed", "rolled-back"}

\* the mapping: the committed rows, and per transaction what was loaded, done and told
Atomic == INSTANCE AtomicStore WITH rows <- rows, base <- base, applied <- applied, answer <- answer

(* The transaction, query by query with its locks, conflicts, deadlocks and lost *)
(* connections, is an atomic one: an abstract store where it takes effect at      *)
(* once, on what its caller had loaded, or not at all.                            *)
ImplementsAtomicStore == Atomic!StoreSpec

(* Every store() is answered: no lock, connection or deadlock keeps a call        *)
(* waiting for ever, whichever calls beside it fail.                              *)
EveryStoreAnswered ==
  \A t \in Transactions : At(t, "loaded") ~> answer[t] # "none"
=============================================================================
