SPECIFICATION FairSpec
CONSTANTS
    Zones = {z1, z2}
    FirstVersion = 2
    MaxVersion = 3
    MaxZoneEdits = 1
INVARIANTS TypeOK VersionsFitTogether
PROPERTIES Reported
