SPECIFICATION ComponentsSpec
CONSTANTS
    Subject = {"hotlink", "tags", "media", "access", "callback", "autosave", "session", "bundle", "site", "builder", "editor", "page"}

    Reader = {r1, r2}
    NoFlight = noflight
    MaxPolicy = 2

    TagId = {1, 2}
    TagName = {n1, n2, n3}
    TagSlug = {s1, s2}
    TaggedArticle = {a1, a2}
    Nothing = nothing
    MaxSelection = 1
    MaxRenames = 1

    Uploader = {u1, u2}
    GfsFile = {f1, f2}
    PublicKey = {k1, k2}
    NoMedia = nomedia
    Offset = 1
    Step = 2
    Imported <- ImportedIds
    MaxInt = 7
    MaxHealingRetries = 3
    MaxPublicKeyRetries = 1
    MaxLosses = 1

    Initializer = {i1, i2}
    Login = {l1, l2}
    Token = {k3, k4}
    NoToken = notoken
    FailureLimit <- Limits

    Message = {"m1", "m2", "m3"}
    StatusOf <- MessageStatus
    SentAt <- MessageTime
    NonceOf <- MessageNonce
    Delivery = {d1, d2}
    NoMessage = nomessage
    ClockSkew = 1
    ReplayTTL = 1
    MaxClock = 3

    InvalidDocument = {2}
    OtherTab = TRUE
    NoDetail = nodetail
    Asked = asked
    MaxEdits = 4
    MaxLock = 4

    NoController = nocontroller
    MaxCalls = 5

    BundleArticle = {1, 2}
    BundleTag = {1, 2}
    TagSlugOf <- SlugsOfTags
    BundleTagName = {n1, n2}
    BundleTitle = {x}
    BundleSite = {b1}
    PublishTime = {1, 2}
    BundleRevision = {1, 2, 3}
    NoRow = norow
    Refused = refused
    MaxArticleTags = 2

    SiteContent = {"d", "a", "a "}
    DefaultContent = "d"
    NormalContent <- Normalized
    NoRequest = norequest
    Sent = sent
    MaxRows = 2

    BuilderSave = {v1, v2}
    Target = {j1, j2, off}
    EnabledTarget = {j1, j2}
    BuilderToken = {k5, k6}
    KeepToken = keeptoken
    NoConfig = noconfig

    Piece = {w1, w2}
    Picture = {p1, p2}
    NoPicture = nopicture
    NoPaste = nopaste
    SourceMode = sourcemode
    MaxEditors = 2
    MaxReports = 2

    ActiveStatuses = 1
    Poll = {q1, q2}
    NoView = noview
    Unserved = unserved
    MaxAttempts = 2
INVARIANTS
    AnswersAreFresh
    LoadsAreShared
    TagLinksAreStable
    MediaIsRegisteredOnce
    HealingSuffices
    FailuresAreBounded
    FailedLoginLeavesNoSession
    OneAdministrator
    AppliedOnce
    NonceHasOneOwner
    SavedMeansStored
    BundleVerifies
    RevisionsFixChecksum
    EverySaveSawWhatItReplaced
    TokenIsNewest
    BuildsRunWhereRecorded
    ViewShowsContent
PROPERTIES
    ReadsEnd
    DirtySettles
    SignOutIsFinal
    PollsGoForward
CHECK_DEADLOCK FALSE
