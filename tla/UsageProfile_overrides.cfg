SPECIFICATION FairSpec
CONSTANTS
    Profiles = {p1}
    Namespaces = {n1, n2}
    Specs = {s1, s2}
    Absent = Absent
    Overrides = {"unparsed", "refused"}
    SelectedProfile = p1
    EarlyEdits = FALSE
    MaxEdits = 2
PROPERTIES Converges
