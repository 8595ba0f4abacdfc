SPECIFICATION Spec
CONSTANTS
    o1 = o1
    o2 = o2
    Requests = {r1, r2}
    Users = {u1}
    Namespaces = {n1, n2}
    Orgs = {o1, o2}
    Privileged = {}
    NoOrg = NoOrg
    NoUser = NoUser
    NoRequester = NoRequester
    Verbs = {"create", "update", "delete", "project"}
    MutatorEnabled = TRUE
    SkipValidateQuota = FALSE
    EnableLegacyNamespaceQuota = FALSE
    LegacyNamespaceQuota = 1
    SelectedProfile = 1
    Override <- OneOverride
    MaxLag = 1
    MaxWrites = 3
    MaxEdits = 1
SYMMETRY QuotaSymmetry
INVARIANTS QuotaExcessBounded
