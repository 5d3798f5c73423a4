SPECIFICATION Spec
CONSTANTS
    alice = alice
    bob = bob
    carol = carol
    dev = dev
    prod = prod
    None = None
    Keys = {alice, bob, carol}
    Admin = alice
    Scopes = {dev, prod}
    InitialScopes = {dev}
    Vars = {}
    OpIds = {op1, op2}
    Handlers = {h1, h2}
    Grants <- ReaderOnly
    InviteGrants <- ManagerOnly
    RequestKinds = {"config", "env", "join", "approve", "decline"}
    EditKinds = {"grant", "drop_member", "add_scope", "drop_scope"}
    EnvTargets = {"edited"}
    MaxRequests = 2
    MaxRevision = 2
SYMMETRY Symmetry
INVARIANTS
    TypeOK
    RevisionNamesSnapshot
    OneAnswerPerOperation
    EnforcedUnlessEdited
    KeysUnlessMissed
    VerifiedIsCurrent
PROPERTIES
    AcceptedByCurrentAuthority
    ImplementsRevisionLog
