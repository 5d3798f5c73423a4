SPECIFICATION Spec
CONSTANTS
    dev = dev
    prod = prod
    env1 = env1
    env2 = env2
    a = a
    b = b
    ScopeNames = {dev, prod}
    Files = {env1, env2}
    Variables = {a, b}
    Place <- PlaceOfEach
    FileOf <- FileOfEach
    Short = {short}
    Long = {long}
    Absent = Absent
    Twice = Twice
    None = None
    Imported <- SixProjects
    MaxChanges = 2
    MaxCommands = 2
INVARIANTS
    EditsCanBeSaved
    DeclaredOnce
    SummaryTellsTheEdits
    InClearAsMarked
PROPERTIES
    UntouchedUnlessLaidOut
