SPECIFICATION Spec
CONSTANTS
    Article = {a1}
    Site = {s1}
    PublishableSite = {s1}
    NoSite = NoSite
    MaxRelease = 2
    MaxJob = 3
    MaxBuild = 2
    MaxTime = 1
    ReleaseId <- MCReleaseId
    JobId <- MCJobId
    BuildNumber <- MCBuildNumber
    Time <- MCTime
INVARIANTS
    PublishedIsActive
