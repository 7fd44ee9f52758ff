------------------------------- MODULE MCSyncTime -------------------------------
(* SyncTime for TLC: a rate backwards, a stopped clock and a fast one, and days *)
(* within the limits and beyond one.                                            *)
EXTENDS SyncTime

MCRates == {-1, 0, 2}
MCJDs == {0, 5}
MCEarliest == -2
================================================================================
