---------------------------- MODULE MCSceneLoader ----------------------------
(* Three scenes, one of each kind of ground, for TLC.                         *)
EXTENDS SceneLoader, TLC

CONSTANTS Hill, Tower, Hall

MCScene  == {Hill, Tower, Hall}
MCGround == (Hill :> "model") @@ (Tower :> "file") @@ (Hall :> "none")
==============================================================================
