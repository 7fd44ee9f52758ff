\* The program may end, and no more than MaxAsked requests are made.
CHECK_DEADLOCK FALSE
SPECIFICATION Spec
CONSTANTS
    Hill = Hill
    Tower = Tower
    Hall = Hall
    NoScene = NoScene
    Scene <- MCScene
    Ground <- MCGround
    MaxAsked = 4
    MaxPosted = 2
INVARIANTS
    SceneInv
    LastWins
PROPERTIES
    Settles
