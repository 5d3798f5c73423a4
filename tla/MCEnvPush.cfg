SPECIFICATION Spec
CONSTANTS
    alice = alice
    bob = bob
    carol = carol
    dev = dev
    prod = prod
    None = None
    Keys = {alice, bob}
    Admin = alice
    Scopes = {dev}
    InitialScopes = {dev}
    Vars = {x}
    OpIds = {op1, op2}
    Handlers = {h1, h2}
    Grants <- LeadOrBare
    InviteGrants <- NoInvites
    RequestKinds = {"config", "env"}
    EditKinds = {"grant"}
    EnvTargets = {"none", "edited"}
    MaxRequests = 3
    MaxRevision = 2
SYMMETRY Symmetry
INVARIANTS
    EnvPushStoredOnce
PROPERTIES
    NoBlindOverwrite
