SPECIFICATION Spec
CONSTANTS
    Objects = {o1, o2}
    Places = {d1, d2}
    Fovs = {60, 90}
    None = None
    MaxChanges = 3
SYMMETRY Symmetry
INVARIANTS
    ReplicationInv
    FollowingReplicated
    ViewReplicated
