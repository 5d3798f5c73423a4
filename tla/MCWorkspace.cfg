SPECIFICATION Spec
CONSTANTS
    w1 = w1
    w2 = w2
    a = a
    b = b
    None = None
    Clones = {w1, w2}
    Settings = {a, b}
    Own <- OwnSetting
    Commands = {c1, c2}
    MaxRevision = 3
    MaxLate = 1
SYMMETRY Symmetry
INVARIANTS
    FilesEditTheirRevision
    PushesChangeOnlyOwn
