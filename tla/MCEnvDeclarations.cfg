SPECIFICATION Spec
CONSTANTS
    env = env
    local = local
    x = x
    Clones = {c1}
    Files = {env, local}
    First = env
    Names = {x}
    Values = {v1, v2}
    Absent = Absent
    Twice = Twice
    Own <- OwnAll
    Commands = {p1}
    None = None
    Imported <- OneImported
    MaxRevision = 2
    MaxEdited = 2
SYMMETRY Symmetry
INVARIANTS
    DeclaredAsStored
CHECK_DEADLOCK FALSE
