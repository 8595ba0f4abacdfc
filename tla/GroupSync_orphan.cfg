SPECIFICATION FairSpec
CONSTANTS
    Zones = {z1}
    Users = {u1}
    MaxRv = 4
    MaxGroupRv = 2
PROPERTIES NoOrphanedGroup
