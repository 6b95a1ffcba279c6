SPECIFICATION FairSpec
CONSTANTS
    Article = {a1}
    Site = {s1}
    PublishableSite = {s1}
    NoSite = NoSite
    Session = {p1, p2}
    Faults = {"trigger", "deploy", "prune", "command"}
    Retained = 1
    FirstRelease = 10
    MaxRelease = 11
    MaxJob = 2
    MaxBuild = 2
    ReleaseId <- MCReleaseId
    JobId <- MCJobId
    BuildNumber <- MCBuildNumber
    Time <- MCTime
PROPERTIES
    LockIsReleased
