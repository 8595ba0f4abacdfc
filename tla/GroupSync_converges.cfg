SPECIFICATION FairSpec
CONSTANTS
    Zones = {z1}
    Users = {u1}
    MaxRv = 5
    MaxGroupRv = 4
PROPERTIES Converges
