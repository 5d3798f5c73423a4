SPECIFICATION Spec
CONSTANTS
    env = env
    local = local
    x = x
    Clones = {c1}
    Files = {env, local}
    First = env
    Names = {x}
    Values = {v1, v2}
    Absent = Absent
    Twice = Twice
    Own <- OwnSecond
    Commands = {p1, p2}
    None = None
    Imported <- OneImported
    MaxRevision = 3
    MaxEdited = 1
SYMMETRY Symmetry
INVARIANTS
    EnvTypeOK
    LinesComeFromTheirRevision
    DeclaredUnlessSkipped
PROPERTIES
    PushesAsApproved
