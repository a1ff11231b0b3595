SPECIFICATION Spec
CONSTANTS
    operator = operator
    NoUser = NoUser
    Self = Self
    frances = frances
    corina = corina
    nia = nia
    Operators = {operator}
    MaxHistory = 2
    MaxOps = 5
    NewGroups <- McNewGroups
    Focuses <- McFocuses
    Peers <- McPeers
    SeedPeers <- McSeedPeers
    SeedStatus <- McSeedStatus
    SeedGroup <- McSeedGroup
    Slug <- McSlug
    GroupSlug = "bridge"
PROPERTY ClientGuarded
CHECK_DEADLOCK FALSE
