SPECIFICATION FairSpec
CONSTANTS
    Profiles = {p1, p2}
    Namespaces = {n1}
    Specs = {s1}
    Absent = Absent
    Overrides = {"none", "valid"}
    SelectedProfile = Absent
    EarlyEdits = FALSE
    MaxEdits = 3
INVARIANT TypeOK
PROPERTIES NoTakeover Converges
