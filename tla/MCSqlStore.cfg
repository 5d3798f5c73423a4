SPECIFICATION FairSpec
CONSTANTS
    Managers = {alice}
    Joiner = carol
    Operations = {op1, op2}
    Sessions = {s1, s2}
    None = None
    MaxRequests = 2
    MaxRevision = 3
CHECK_DEADLOCK FALSE
INVARIANTS
    SqlTypeOK
    PublishedUnlessEdited
    PublishersSeeEachOther
PROPERTIES
    ImplementsLog
    CommittedUnderAuthority
    AdmissionsStillPending
    HandlersEnd
