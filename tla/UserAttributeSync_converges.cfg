SPECIFICATION FairSpec
CONSTANTS
    Orgs = {o1, o2}
    Empty = Empty
    NoAnnotations = NoAnnotations
    Absent = Absent
    MaxRv = 4
    MaxLocalRv = 4
PROPERTIES Converges
