------------------------------- MODULE AtomicStore -------------------------------
(***************************************************************************)
(* What the persistence contracts promise of a transaction                 *)
(* (packages/persistence/src/index.ts: atomic, partialCommit: false,        *)
(* OPTIMISTIC_LOCK_FAILED): all of its operations take effect at one moment *)
(* at which every entity is still what its caller had loaded, or none does; *)
(* a caller that is told 'committed' is told the truth, and one that is      *)
(* told of a failure may not know.                                          *)
(***************************************************************************)
EXTENDS Naturals

CONSTANTS
  Entities,
  Transactions,
  Operations       \* [Transactions -> what it does: [some Entities -> "save" or "delete"]]

VARIABLES
  rows,            \* [Entities -> its version, or Absent]
  base,            \* [Transactions -> the versions its caller loaded]
  applied,         \* transactions that took effect
  answer           \* [Transactions -> what its caller was told]

storeVars == <<rows, base, applied, answer>>

Absent == [revision |-> 0, token |-> "none"]
\* newVersionToken is a new UUID: the transaction stands for it
Written(version, t, operation) ==
  IF operation = "delete" THEN Absent ELSE [revision |-> version.revision + 1, token |-> t]
After(t) ==
  [e \in Entities |-> IF e \in DOMAIN Operations[t]
                      THEN Written(rows[e], t, Operations[t][e]) ELSE rows[e]]

StoreInit ==
  /\ rows = [e \in Entities |-> Absent]
  /\ base = [t \in Transactions |-> [e \in Entities |-> Absent]]
  /\ applied = {}
  /\ answer = [t \in Transactions |-> "none"]

LoadAll(t) ==
  /\ t \notin applied /\ answer[t] = "none"
  /\ base' = [base EXCEPT ![t] = rows]
  /\ UNCHANGED <<rows, applied, answer>>

Apply(t) ==
  /\ t \notin applied /\ answer[t] = "none"
  /\ \A e \in DOMAIN Operations[t] : rows[e] = base[t][e]
  /\ rows' = After(t)
  /\ applied' = applied \cup {t}
  /\ UNCHANGED base

Tell(t, what) ==
  /\ answer[t] = "none"
  /\ answer' = [answer EXCEPT ![t] = what]
  /\ what = "committed" => t \in applied'

\* an answer, alone or with the effect
StoreNext ==
  \E t \in Transactions :
    \/ LoadAll(t)
    \/ Apply(t) /\ (UNCHANGED answer \/ \E what \in {"committed", "failed"} : Tell(t, what))
    \/ UNCHANGED <<rows, base, applied>> /\ \E what \in {"committed", "failed"} : Tell(t, what)

StoreSpec == StoreInit /\ [][StoreNext]_storeVars
=============================================================================
