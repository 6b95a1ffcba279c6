------------------------------ MODULE Release ------------------------------
(***************************************************************************)
(* The publication state kept in MySQL by service/internal/release, and    *)
(* the transactions that change it.  Every transaction first locks the     *)
(* singleton site_state row (SELECT ... FOR UPDATE), so each one is a      *)
(* single action.  Nothing is assumed of the callers here: any callback,   *)
(* trigger failure or deployed artifact may be presented at any time, in   *)
(* any order and any number of times.  Publishing.tla restricts the        *)
(* callers to what the orchestrator, Jenkins and the operator really do.   *)
(*                                                                         *)
(* 0 stands for SQL NULL.  An id whose row has status "none" is not in its *)
(* table.  Article content is abstracted to the revision number that was   *)
(* frozen; the site settings are one value.                                *)
(*                                                                         *)
(* An operator whose comment begins with "Variant:" is a plausible mistake *)
(* in the definition after it.  Nothing uses it: substituted for that      *)
(* definition it must make a property fail (PROJECT.json, "mutants").      *)
(***************************************************************************)
EXTENDS Naturals

CONSTANTS
    Article,          \* articles.id
    Site,             \* values of the site_settings row
    NoSite,           \* the site snapshot of an id that is not in the table
    PublishableSite,  \* settings that pass ValidateReleaseSnapshot
    ReleaseId,        \* ids idgen hands out for releases
    JobId,            \* ids idgen hands out for publish_jobs
    BuildNumber,      \* Jenkins build numbers
    Time              \* timestamps a final event may carry

Null == 0

ASSUME ReleaseAssumption ==
    /\ PublishableSite \subseteq Site
    /\ NoSite \notin Site
    /\ ReleaseId \subseteq Nat \ {0}
    /\ JobId \subseteq Nat \ {0}
    /\ BuildNumber \subseteq Nat \ {0}
    /\ Time \subseteq Nat \ {0}

VARIABLES
    current,    \* site_state.current_release_id
    active,     \* site_state.active_publish_job_id
    release,    \* releases with their release_articles
    job,        \* publish_jobs
    published,  \* articles.published_revision_id
    draft,      \* revision_no of the row articles.draft_revision_id names
    state,      \* articles.state
    settings    \* site_settings

vars == <<current, active, release, job, published, draft, state, settings>>

ReleaseStatus == {"queued", "success", "failed"}
JobStatus     == {"pending", "queued", "building", "deploying", "success", "failed"}
Stage         == {"pending", "queue", "build", "deploy", "trigger"}
PublishMode   == {"publish_article", "unpublish_article", "publish_settings"}

NoArticles == [a \in Article |-> Null]
NoRelease  == [status |-> "none", site |-> NoSite, articles |-> NoArticles]
NoJob      == [release |-> Null, status |-> "none", stage |-> "pending",
               build |-> Null, finishedAt |-> Null]

(***************************************************************************)
(* A verified callback payload: the stage is a function of the status,     *)
(* except that a failure names the pipeline stage that failed.  The error  *)
(* summary is determined by the status and is left out.                    *)
(***************************************************************************)
CallbackKind ==
    {<<"queued", "queue">>, <<"building", "build">>, <<"deploying", "deploy">>,
     <<"success", "deploy">>}
    \cup ({"failed"} \X {"queue", "build", "deploy"})

CallbackEvent ==
    {[release |-> r, job |-> j, build |-> b, status |-> k[1], stage |-> k[2], at |-> t] :
        r \in ReleaseId, j \in JobId, b \in BuildNumber, k \in CallbackKind, t \in Time}

Artifact == [release : ReleaseId, build : BuildNumber, at : Time]

Init ==
    /\ current = Null /\ active = Null
    /\ release = [r \in ReleaseId |-> NoRelease]
    /\ job = [j \in JobId |-> NoJob]
    /\ published = NoArticles
    /\ draft = [a \in Article |-> 1]
    /\ state = [a \in Article |-> "active"]
    /\ settings \in Site

-----------------------------------------------------------------------------
(* Reading the tables.                                                     *)

FinalJobStatus(s) == s \in {"success", "failed"}

\* idgen: ids grow, and an id taken by a rolled back transaction is lost.
FreshRelease(r) == \A q \in ReleaseId : release[q].status # "none" => q < r
FreshJob(j)     == \A k \in JobId : job[k].status # "none" => k < j

JobsOf(r) == {j \in JobId : job[j].status # "none" /\ job[j].release = r}

LatestJob(r, j) == j \in JobsOf(r) /\ \A k \in JobsOf(r) : k <= j

-----------------------------------------------------------------------------
(* Release creation.                                                       *)

\* Variant: build on the newest release instead of the current one.
NewestSnapshot ==
    LET Newest == {r \in ReleaseId : release[r].status # "none"
                                    /\ \A q \in ReleaseId : release[q].status # "none" => q <= r}
    IN  IF Newest = {} THEN [site |-> NoSite, articles |-> NoArticles]
        ELSE LET r == CHOOSE r \in Newest : TRUE
             IN  [site |-> release[r].site, articles |-> release[r].articles]

BaseSnapshot ==
    IF current = Null THEN [site |-> NoSite, articles |-> NoArticles]
    ELSE [site |-> release[current].site, articles |-> release[current].articles]

(* Only the requested mode's target differs from the current release; the  *)
(* mutable settings are read for a settings release and for the first one. *)
PrepareSnapshot(mode, a) ==
    [site |-> IF current = Null \/ mode = "publish_settings"
              THEN settings ELSE BaseSnapshot.site,
     articles |-> CASE mode = "publish_settings"  -> BaseSnapshot.articles
                    [] mode = "unpublish_article" -> [BaseSnapshot.articles EXCEPT ![a] = Null]
                    [] mode = "publish_article"   -> [BaseSnapshot.articles EXCEPT ![a] = draft[a]]]

\* The errors of PrepareSnapshot: nothing to unpublish, no active article row.
SnapshotSource(mode, a) ==
    /\ mode = "unpublish_article" => BaseSnapshot.articles[a] # Null
    /\ mode = "publish_article" => state[a] = "active"

\* Variant: the site snapshot is not validated.
ValidateArticlesOnly(mode, a, base, prepared) ==
    mode = "publish_article" => prepared.articles[a] # Null

ValidatePreparedSnapshot(mode, a, base, prepared) ==
    /\ prepared.site \in PublishableSite
    /\ mode # "publish_settings" /\ current # Null => prepared.site = base.site
    /\ mode = "publish_settings" => prepared.articles = base.articles
    /\ mode = "unpublish_article" =>
          base.articles[a] # Null /\ prepared.articles = [base.articles EXCEPT ![a] = Null]
    /\ mode = "publish_article" =>
          /\ prepared.articles[a] # Null
          /\ \A b \in Article \ {a} : prepared.articles[b] = base.articles[b]

\* Variant: the frozen revision stays the editing draft.
FreezeInPlace(a) == UNCHANGED draft

\* The draft is frozen into the release and copied to the next editing draft.
FreezeArticle(a) == draft' = [draft EXCEPT ![a] = @ + 1]

InitialJob(r) == [NoJob EXCEPT !.release = r, !.status = "pending"]

InsertPublishJob(r) ==
    \E j \in JobId :
        /\ FreshJob(j)
        /\ job' = [job EXCEPT ![j] = InitialJob(r)]
        /\ active' = j

CreateLocked(mode, a) ==
    LET prepared == PrepareSnapshot(mode, a) IN
    /\ active = Null
    /\ SnapshotSource(mode, a)
    /\ ValidatePreparedSnapshot(mode, a, BaseSnapshot, prepared)
    /\ \E r \in ReleaseId :
          /\ FreshRelease(r)
          /\ release' = [release EXCEPT ![r] = [status |-> "queued", site |-> prepared.site,
                                                articles |-> prepared.articles]]
          /\ InsertPublishJob(r)
    /\ IF mode = "publish_article" THEN FreezeArticle(a) ELSE UNCHANGED draft
    /\ UNCHANGED <<current, published, state, settings>>

\* A retry reuses the stored snapshot; the release stays "failed" meanwhile.
CreateRetryLocked(r) ==
    /\ active = Null
    /\ release[r].status = "failed"
    /\ \E j \in JobId : LatestJob(r, j) /\ job[j].status = "failed"
    /\ InsertPublishJob(r)
    /\ UNCHANGED <<current, release, published, draft, state, settings>>

-----------------------------------------------------------------------------
(* Completion.                                                             *)

RecordJob(j, status, stage, build, at) ==
    job' = [job EXCEPT ![j] = [@ EXCEPT !.status = status, !.stage = stage,
                                        !.build = build, !.finishedAt = at]]

\* Variant: an inner join, which leaves removed articles published.
PublishListedArticles(r) ==
    published' = [a \in Article |-> IF release[r].articles[a] # Null
                                   THEN release[r].articles[a] ELSE published[a]]

\* Variant: the editing draft is published, not the frozen revision.
PublishDrafts(r) ==
    published' = [a \in Article |-> IF release[r].articles[a] # Null
                                   THEN draft[a] ELSE Null]

PublishArticlePointers(r) ==
    published' = [a \in Article |->
                    IF published[a] # Null \/ release[r].articles[a] # Null
                    THEN release[r].articles[a] ELSE published[a]]

\* Variant: only a queued release is completed, so a retried one is not.
CompleteQueued(r, status) ==
    release' = [release EXCEPT ![r].status = IF @ = "queued" THEN status ELSE @]

CompleteRelease(r, status) == release' = [release EXCEPT ![r].status = status]

Succeed(r) ==
    /\ CompleteRelease(r, "success")
    /\ PublishArticlePointers(r)
    /\ current' = r
    /\ active' = Null

\* Variant: a failed attempt keeps the lock.
FailKeepingLock(r) ==
    /\ CompleteRelease(r, "failed")
    /\ UNCHANGED <<current, active, published>>

Fail(r) ==
    /\ CompleteRelease(r, "failed")
    /\ active' = Null
    /\ UNCHANGED <<current, published>>

\* Variant: any unfinished attempt may report its end.
EndFromAnywhere(from, to) ==
    \/ to \in {"success", "failed"}
    \/ <<from, to>> \in {<<"pending", "queued">>, <<"queued", "building">>,
                         <<"building", "deploying">>}

AllowedTransition(from, to) ==
    \/ from = "pending"   /\ to \in {"queued", "failed"}
    \/ from = "queued"    /\ to = "building"
    \/ from = "building"  /\ to = "deploying"
    \/ from = "deploying" /\ to \in {"success", "failed"}

\* Variant: the last build number wins.
AnyBuildNumber(stored, supplied) == TRUE

\* The first positive build number sticks.
CallbackBuildNumber(stored, supplied) == stored \in {Null, supplied}

CallbackMatches(row, e) ==
    /\ row.status = e.status /\ row.stage = e.stage
    /\ FinalJobStatus(e.status) => row.finishedAt = e.at
    /\ row.build = e.build

CallbackAnswer(e) ==
    CASE e.job \notin JobsOf(e.release)     -> "not_found"
      [] e.job \in JobsOf(e.release) /\ CallbackMatches(job[e.job], e) -> "duplicate"
      [] OTHER -> IF /\ active = e.job
                     /\ AllowedTransition(job[e.job].status, e.status)
                     /\ CallbackBuildNumber(job[e.job].build, e.build)
                  THEN "applied" ELSE "conflict"

ApplyCallbackLocked(e) ==
    /\ CallbackAnswer(e) = "applied"
    /\ RecordJob(e.job, e.status, e.stage, e.build,
                 IF FinalJobStatus(e.status) THEN e.at ELSE Null)
    /\ \/ e.status = "success" /\ Succeed(e.release)
       \/ e.status = "failed" /\ Fail(e.release)
       \/ ~FinalJobStatus(e.status) /\ UNCHANGED <<current, active, release, published>>
    /\ UNCHANGED <<draft, state, settings>>

\* Variant: the attempt is failed however far it has come.
FailActiveLocked(j, at) ==
    /\ active = j
    /\ RecordJob(j, "failed", "trigger", job[j].build, at)
    /\ Fail(job[j].release)
    /\ UNCHANGED <<draft, state, settings>>

FailTriggerLocked(j, at) ==
    /\ active = j
    /\ job[j].status = "pending"
    /\ RecordJob(j, "failed", "trigger", job[j].build, at)
    /\ Fail(job[j].release)
    /\ UNCHANGED <<draft, state, settings>>

\* Variant: only a release that never failed is reconciled.
ReconcilableOnce(art) ==
    /\ active # Null
    /\ active \in JobsOf(art.release)
    /\ release[art.release].status = "queued"
    /\ job[active].status = "deploying"
    /\ job[active].build = art.build

\* The artifact shows a switched release whose final callback was lost.
Reconcilable(art) ==
    /\ active # Null
    /\ current # art.release
    /\ active \in JobsOf(art.release)
    /\ release[art.release].status \in {"queued", "failed"}
    /\ job[active].status = "deploying"
    /\ job[active].build = art.build

ContainsSuccessfulBuild(r, b) ==
    \E j \in JobsOf(r) : job[j].status = "success" /\ job[j].build = b

\* What ReconcileLocked answers; "required" is ErrReconciliationRequired.
ReconcileAnswer(art) ==
    IF current = art.release
    THEN IF /\ release[current].status = "success"
            /\ ContainsSuccessfulBuild(art.release, art.build)
         THEN "unchanged" ELSE "required"
    ELSE IF Reconcilable(art) THEN "reconciled" ELSE "required"

ReconcileLocked(art) ==
    /\ ReconcileAnswer(art) = "reconciled"
    /\ RecordJob(active, "success", job[active].stage, art.build, art.at)
    /\ Succeed(art.release)
    /\ UNCHANGED <<draft, state, settings>>

-----------------------------------------------------------------------------
(* Operations of the article and settings services on the same rows.       *)

Trash(a) ==
    /\ state[a] = "active" /\ published[a] = Null
    /\ state' = [state EXCEPT ![a] = "trashed"]
    /\ UNCHANGED <<current, active, release, job, published, draft, settings>>

Untrash(a) ==
    /\ state[a] = "trashed"
    /\ state' = [state EXCEPT ![a] = "active"]
    /\ UNCHANGED <<current, active, release, job, published, draft, settings>>

PutSite(s) ==
    /\ settings' = s
    /\ UNCHANGED <<current, active, release, job, published, draft, state>>

-----------------------------------------------------------------------------
ContentStep ==
    \/ \E a \in Article : Trash(a) \/ Untrash(a)
    \/ \E s \in Site : PutSite(s)

Next ==
    \/ \E mode \in PublishMode, a \in Article : CreateLocked(mode, a)
    \/ \E r \in ReleaseId : CreateRetryLocked(r)
    \/ \E e \in CallbackEvent : ApplyCallbackLocked(e)
    \/ \E j \in JobId, t \in Time : FailTriggerLocked(j, t)
    \/ \E art \in Artifact : ReconcileLocked(art)
    \/ ContentStep

Spec == Init /\ [][Next]_vars

-----------------------------------------------------------------------------
ReleaseRow == [status : ReleaseStatus, site : PublishableSite,
               articles : [Article -> Nat]]
JobRow     == [release : ReleaseId, status : JobStatus, stage : Stage,
               build : BuildNumber \cup {Null}, finishedAt : Time \cup {Null}]

(* Every row is well formed: current and active name stored rows, and only *)
(* publishable settings are ever frozen into a release.                    *)
TypeOK ==
    /\ current \in ReleaseId \cup {Null}
    /\ active \in JobId \cup {Null}
    /\ release \in [ReleaseId -> ReleaseRow \cup {NoRelease}]
    /\ job \in [JobId -> JobRow \cup {NoJob}]
    /\ published \in [Article -> Nat]
    /\ draft \in [Article -> Nat \ {0}]
    /\ state \in [Article -> {"active", "trashed"}]
    /\ settings \in Site

InFlight(j) == job[j].status \in JobStatus \ {"success", "failed"}

(* The active lock is exact: site_state names a job if and only if that    *)
(* job is unfinished, so no second attempt runs beside it and no finished  *)
(* attempt keeps the lock (setActiveJobSQL, completeSiteStateSQL,          *)
(* failSiteStateSQL and the order of the checks in ApplyCallbackLocked).   *)
SingleActiveJob == \A j \in JobId : InFlight(j) <=> active = j

(* A release and its attempts agree: it is queued exactly during its first *)
(* attempt, successful if and only if its last attempt succeeded, and      *)
(* otherwise every attempt but the running one failed (completeRelease is  *)
(* an unconditional UPDATE, so nothing but the job protocol ensures it).   *)
ReleaseMatchesJobs ==
    \A r \in ReleaseId :
        /\ release[r].status = "none" <=> JobsOf(r) = {}
        /\ release[r].status = "queued" => JobsOf(r) = {active}
        /\ release[r].status = "failed" =>
              \A j \in JobsOf(r) \ {active} : job[j].status = "failed"
        /\ release[r].status = "success" <=> \E j \in JobsOf(r) : job[j].status = "success"
        /\ \A j \in JobsOf(r) : job[j].status = "success" => LatestJob(r, j)

(* The article rows and the release rows tell the same story: an article's *)
(* published revision is the one the current, successful, release froze,   *)
(* however failures and retries interleaved (publishArticlePointersSQL).   *)
PointersMatchCurrent ==
    /\ current = Null => published = NoArticles
    /\ current # Null => /\ release[current].status = "success"
                         /\ published = release[current].articles

(* No stored release ever names the revision that is being edited: saving  *)
(* a draft cannot change a bundle or the live site (freezeArticle).        *)
SnapshotIsFrozen ==
    \A r \in ReleaseId, a \in Article : release[r].articles[a] < draft[a]

(* While a release is published for the first time it differs from what is *)
(* live in one article at most, or in the site settings alone: it was      *)
(* built on the release that is still current (CreateLocked under the      *)
(* active lock, PrepareSnapshot, validatePreparedSnapshot).                *)
FirstAttemptChangesOneThing ==
    \A r \in ReleaseId :
        JobsOf(r) = {active} =>
            LET changed == {a \in Article : release[r].articles[a] # published[a]} IN
            /\ \A a, b \in changed : a = b
            /\ current # Null /\ release[r].site # release[current].site => changed = {}

(* The live pointers move only when the active job passes from deploying   *)
(* to success, and then to that job's release: no failure, early callback  *)
(* or stale artifact touches them.                                         *)
OnlySuccessAdvances ==
    [][<<current, published>>' # <<current, published>> =>
        /\ active # Null
        /\ job[active].status = "deploying"
        /\ job'[active].status = "success"
        /\ current' = job[active].release]_vars

(* The audit trail is append-only: a finished attempt, a recorded build    *)
(* number, an attempt's release and a stored snapshot never change.        *)
HistoryIsImmutable ==
    [][/\ \A j \in JobId :
            /\ FinalJobStatus(job[j].status) => job'[j] = job[j]
            /\ job[j].build # Null => job'[j].build = job[j].build
            /\ job[j].release # Null => job'[j].release = job[j].release
       /\ \A r \in ReleaseId :
            release[r].status # "none" =>
                /\ release'[r].site = release[r].site
                /\ release'[r].articles = release[r].articles]_vars

SnapshotOf(r) == [site |-> release[r].site, articles |-> release[r].articles]

\* The refinement mapping: what readers see, and what is being published.
live    == [site |-> IF current = Null THEN NoSite ELSE release[current].site,
            articles |-> published]
pending == IF active = Null THEN NoRelease ELSE SnapshotOf(job[active].release)

Serial == INSTANCE SerialPublishing WITH
    Snapshot <- [site : Site, articles : [Article -> Nat]],
    Empty    <- [site |-> NoSite, articles |-> NoArticles],
    Idle     <- NoRelease,
    live     <- live,
    pending  <- pending

(* Publishing is serial and atomic: with the article pointers and the      *)
(* current site read as the live snapshot and the active job's release as  *)
(* the pending one, every transaction is a step of SerialPublishing.       *)
PublishingIsSerial == Serial!SSpec

-----------------------------------------------------------------------------
(* An article that is online is not in the recycle bin.                    *)
PublishedIsActive ==
    \A a \in Article : published[a] # Null => state[a] = "active"
=============================================================================
