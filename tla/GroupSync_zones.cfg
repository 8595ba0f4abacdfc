SPECIFICATION FairSpec
CONSTANTS
    Zones = {z1, z2}
    Users = {}
    MaxRv = 5
    MaxGroupRv = 2
INVARIANTS TypeOK FinalizerProtectsGroup
PROPERTIES OwnFinalizerOnly ImplementsGuardedReplica Converges
