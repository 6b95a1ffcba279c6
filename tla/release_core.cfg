SPECIFICATION Spec
CONSTANTS
    Article = {a1, a2}
    Site = {s1, s2, blank}
    PublishableSite = {s1, s2}
    NoSite = NoSite
    MaxRelease = 2
    MaxJob = 3
    MaxBuild = 2
    MaxTime = 1
    ReleaseId <- MCReleaseId
    JobId <- MCJobId
    BuildNumber <- MCBuildNumber
    Time <- MCTime
INVARIANTS
    TypeOK
    SingleActiveJob
    ReleaseMatchesJobs
    PointersMatchCurrent
    SnapshotIsFrozen
    FirstAttemptChangesOneThing
PROPERTIES
    OnlySuccessAdvances
    HistoryIsImmutable
    PublishingIsSerial
SYMMETRY Symmetry
