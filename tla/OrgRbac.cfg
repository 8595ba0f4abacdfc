SPECIFICATION FairSpec
CONSTANTS
    RoleBindings = {b1, b2}
    Orgs = {o1, o2}
    NoOrg = NoOrg
    Custom = Custom
    MaxEdits = 2
INVARIANTS TypeOK BindsOwnOrganization
PROPERTIES InitializedIsKept Converges
