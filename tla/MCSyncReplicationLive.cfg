SPECIFICATION FairSpec
CONSTANTS
    Objects = {o1}
    Places = {d1, d2}
    Fovs = {60}
    None = None
    MaxChanges = 2
PROPERTIES
    CatchesUp
