SPECIFICATION Spec
CONSTANTS
    f1 = f1
    f2 = f2
    a = a
    b = b
    ja = ja
    jb = jb
    Managers = {a, b}
    Files <- MCFiles
    Journals = {ja, jb}
    Contents = {c1}
    Paths = {p}
    Managed <- OverlapManaged
    JournalOf <- OverlapJournals
    GroupsOf <- OverlapGroups
    Rank <- MCRank
    Absent = Absent
    None = None
    MaxOps = 3
    MaxFaults = 1
    MaxManual = 1
SYMMETRY ContentSymmetry
CHECK_DEADLOCK FALSE
INVARIANTS
    Exclusion
    PendingIsMarked
PROPERTIES
    WriteAhead
    ManualEditKept
    AtomicRestoreSpec
