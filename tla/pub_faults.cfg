SPECIFICATION PSpec
CONSTANTS
    Article = {a1}
    Site = {s1}
    PublishableSite = {s1}
    NoSite = NoSite
    Session = {p1}
    Faults = {"trigger", "database", "crash", "network", "answer", "bundle", "build", "deploy", "prune", "abort", "rebuild", "rollback"}
    Retained = 1
    FirstRelease = 10
    MaxRelease = 11
    MaxJob = 2
    MaxBuild = 2
    ReleaseId <- MCReleaseId
    JobId <- MCJobId
    BuildNumber <- MCBuildNumber
    Time <- MCTime
INVARIANTS
    OnlyActiveBuildDeploys
    CurrentHasFiles
    LinkIsAccounted
CHECK_DEADLOCK FALSE
