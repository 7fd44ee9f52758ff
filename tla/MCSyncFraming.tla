---------------------------- MODULE MCSyncFraming ----------------------------
(* Small instances of SyncFraming for TLC: a header of two bytes, so that it  *)
(* can be cut, payloads of none to two bytes, and one size that does not fit. *)
EXTENDS SyncFraming

MCPayloadSizes == 0..(MaxPayload + 1)
==============================================================================
