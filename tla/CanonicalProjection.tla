-------------------------- MODULE CanonicalProjection --------------------------
(***************************************************************************)
(* The bound of canonical_projection_bytes in core/fingerprints.py, which  *)
(* writes every artifact, receipt, snapshot and schedule fingerprint and   *)
(* which every reader runs again: no list of a projection is longer than   *)
(* _MAX_COLLECTION_LENGTH.  The records of this project stay below the     *)
(* limit of one MiB as long as their lists stay below this one (1024 steps *)
(* of a history are some 380 kB), so no other size is modelled.            *)
(***************************************************************************)
EXTENDS Naturals, Sequences

CONSTANT MaxCollection  \* _MAX_COLLECTION_LENGTH, 1024 in the code

ASSUME MaxCollectionAssumption == MaxCollection \in Nat

CanonicalList(list) == Len(list) <= MaxCollection
=============================================================================
