SPECIFICATION FairSpec
CONSTANTS
    u1 = u1
    g1 = g1
    admin = admin
    view = view
    PrivilegedUsers = {}
    PrivilegedGroups = {}
    PrivilegedClusterRoles = {admin}
    Requesters <- TheRequesters
    Bindings <- TheBindings
    Quotas = {q1}
    LimitRange = lr
    Resources = {cpu, storage}
    OrgLabel = org
    AllowedKeys = {org}
    None = None
    Bad = Bad
    Default = Default
    Metadata = TRUE
    Reserved = FALSE
    MaxEdits = 3
INVARIANTS TypeOK AmountsAreAuthorized
PROPERTIES Converges
