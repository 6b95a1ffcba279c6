SPECIFICATION PSpec
CONSTANTS
    Article = {a1}
    Site = {s1}
    PublishableSite = {s1}
    NoSite = NoSite
    Session = {p1}
    Faults = {}
    Retained = 5
    FirstRelease = 1
    MaxRelease = 1
    MaxJob = 1
    MaxBuild = 1
    ReleaseId <- MCReleaseId
    JobId <- MCJobId
    BuildNumber <- MCBuildNumber
    Time <- MCTime
INVARIANTS
    CurrentIsServed
