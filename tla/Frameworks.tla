-------------------------------- MODULE Frameworks --------------------------------
(* Frameworks whose promises belong together: one builds on what the other keeps.   *)
EXTENDS Governance, Verification, CapabilityResolution, AiProvider, Migrations, ReferenceStore

(* What the governance of the repository and its test framework certify (the       *)
(* platform-governance and testing-verification packages).                           *)
RecordsInv == GovernanceInv /\ VerificationInv

(* From a capability to the provider that answers for it: what is bound, and what the *)
(* consumer of the provider is told (capability-resolution, ai-provider).              *)
ProvidersInv == ResolutionInv /\ AiInv

(* Schema and entities of the two stores: what a migration and a transaction leave     *)
(* behind (vector-store-pgvector and persistence-postgres migrators, persistence).      *)
StorageInv == MigrationsInv /\ ReferenceInv

=============================================================================
