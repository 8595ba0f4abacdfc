SPECIFICATION Spec
CONSTANTS
    o1 = o1
    o2 = o2
    Requests = {r1}
    Users = {u1}
    Namespaces = {n1, n2}
    Orgs = {o1, o2}
    Privileged = {}
    NoOrg = NoOrg
    NoUser = NoUser
    NoRequester = NoRequester
    Verbs = {"create", "update", "delete", "project", "component"}
    MutatorEnabled = TRUE
    SkipValidateQuota = FALSE
    EnableLegacyNamespaceQuota = FALSE
    LegacyNamespaceQuota = 0
    SelectedProfile = 2
    Override <- OneOverride
    MaxLag = 2
    MaxWrites = 4
    MaxEdits = 1
SYMMETRY NamespaceSymmetry
INVARIANTS TypeOK OrganizationsComeFromMembers
