----------------------------- MODULE MCSyncSession -----------------------------
(* Small instances of SyncSession for TLC: one client program, one server     *)
(* program and at most two connections between them at a time, so that a new  *)
(* session may run beside a connection the server has not yet given up.       *)
EXTENDS SyncSession

AllVersions == {"same", "large", "app", "protocol"}
SameVersion == {"same"}
================================================================================
