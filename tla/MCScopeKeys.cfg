CONSTANTS
    ann = ann
    bob = bob
    dev = dev
    prod = prod
    qa = qa
    c1 = c1
    c2 = c2
    None = None
    Members = {ann, bob}
    Admin = ann
    Scopes = {dev, prod, qa}
    Initial = {dev, prod}
    Vars = {v}
    Configs <- MCConfigs
    Offers <- MCOffers
    Commands = {c1, c2}
    Invites = {i1}
    MaxRevision = 4
    MaxKeys = 3
SPECIFICATION Spec
SYMMETRY Symmetry
INVARIANTS
    OneKeyUnlessDropped
PROPERTIES
    WrittenUnderHeldKey
