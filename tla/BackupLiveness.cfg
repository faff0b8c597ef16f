SPECIFICATION FullArchiveSpec
CONSTANTS
    f1 = f1
    f2 = f2
    a = a
    b = b
    ja = ja
    jb = jb
    Managers = {a, b}
    Files <- MCFiles
    Journals = {ja, jb}
    Contents = {c1}
    Paths = {p}
    Managed <- SharedManaged
    JournalOf <- RivalJournals
    GroupsOf <- NoGroups
    Rank <- MCRank
    Absent = Absent
    None = None
    MaxOps = 2
    MaxFaults = 1
    MaxManual = 0
CHECK_DEADLOCK FALSE
INVARIANTS
    RecoveryPossible
    ReturnMeansRestored
PROPERTIES
    OperationsEnd
    InterruptionsResolved
