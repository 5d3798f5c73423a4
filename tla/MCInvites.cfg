SPECIFICATION Spec
CONSTANTS
    alice = alice
    bob = bob
    carol = carol
    dev = dev
    prod = prod
    None = None
    Keys = {alice, bob}
    Admin = alice
    Scopes = {dev}
    InitialScopes = {dev}
    Vars = {}
    OpIds = {op1}
    InviteIds = {i1, i2}
    Handlers = {h1, h2}
    InviteGrants <- ReaderOnly
    JoinGrants <- ManagerOnly
SYMMETRY Symmetry
INVARIANTS
    InvitesTypeOK
    RedeemedAtMostOnce
    LockedByThirdGuess
    LetInMeansMember
PROPERTIES
    EndedInvitesStayEnded
