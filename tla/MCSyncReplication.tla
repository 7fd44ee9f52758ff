--------------------------- MODULE MCSyncReplication ---------------------------
(* SyncReplication for TLC: directions are model values.                      *)
EXTENDS SyncReplication, TLC

Symmetry == Permutations(Objects)
================================================================================
