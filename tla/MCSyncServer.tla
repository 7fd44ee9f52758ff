------------------------------ MODULE MCSyncServer ------------------------------
(* SyncServer for TLC: the addresses of peers are interchangeable.             *)
EXTENDS SyncServer, TLC

Symmetry == Permutations(Peers)
=================================================================================
