CONSTANTS
    w1 = w1
    w2 = w2
    c1 = c1
    c2 = c2
    None = None
    NoFile = NoFile
    Clones = {w1, w2}
    Files = {dotenv}
    Contents = {text}
    Commands = {c1, c2}
    MaxKeys = 2
    MaxTeams = 2
SPECIFICATION Spec
SYMMETRY Symmetry
INVARIANTS
    HomeKeepsItsKeys
    FileDescribesItsTeam
PROPERTIES
    ReplacedUnseenOnly
