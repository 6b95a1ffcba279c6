---------------------------- MODULE ReleaseProofs ----------------------------
(***************************************************************************)
(* Proofs about Release for every set of articles, settings, ids and       *)
(* build numbers.                                                          *)
(*                                                                         *)
(* Every transaction that touches an attempt is one of five kinds: it      *)
(* creates a release with its first attempt, adds an attempt to a failed   *)
(* release, records progress of the active attempt, or ends it in success  *)
(* or in failure.  NextIsAKind shows that; the other lemmas then take the  *)
(* kinds one at a time.                                                    *)
(***************************************************************************)
EXTENDS Release, TLAPS

\* An attempt belongs to a stored release.
AttemptsHaveReleases ==
    \A j \in JobId : job[j].status # "none" => release[job[j].release].status # "none"

\* No attempt was made after the active one.
ActiveIsLatest == active # Null => LatestJob(job[active].release, active)

IInv ==
    /\ TypeOK
    /\ AttemptsHaveReleases
    /\ SingleActiveJob
    /\ ActiveIsLatest
    /\ ReleaseMatchesJobs
    /\ PointersMatchCurrent
    /\ SnapshotIsFrozen
    /\ FirstAttemptChangesOneThing

InFlightStatus == JobStatus \ {"success", "failed"}

\* The active attempt j goes from its row to another one of the same release.
Attempt(j, row) ==
    /\ active = j /\ j \in JobId
    /\ job[j] \in JobRow /\ row \in JobRow
    /\ row.release = job[j].release
    /\ job[j].build # Null => row.build = job[j].build
    /\ job' = [job EXCEPT ![j] = row]
    /\ UNCHANGED <<draft, state, settings>>

Reported(j, row) ==
    /\ Attempt(j, row)
    /\ row.status \in InFlightStatus
    /\ UNCHANGED <<current, active, release, published>>

Succeeded(j, row) ==
    /\ Attempt(j, row)
    /\ job[j].status = "deploying" /\ row.status = "success"
    /\ Succeed(row.release)

Failed(j, row) ==
    /\ Attempt(j, row)
    /\ row.status = "failed"
    /\ Fail(row.release)

\* The snapshot a new release row holds.
NewRow(mode, a, row) ==
    /\ mode \in PublishMode /\ a \in Article
    /\ SnapshotSource(mode, a)
    /\ row = [status |-> "queued", site |-> PrepareSnapshot(mode, a).site,
              articles |-> PrepareSnapshot(mode, a).articles]
    /\ ValidatePreparedSnapshot(mode, a, BaseSnapshot, PrepareSnapshot(mode, a))
    /\ IF mode = "publish_article" THEN FreezeArticle(a) ELSE UNCHANGED draft

NewJob(r, j) ==
    /\ j \in JobId /\ FreshJob(j)
    /\ job' = [job EXCEPT ![j] = InitialJob(r)]
    /\ active' = j

Created(r, j) ==
    /\ active = Null
    /\ r \in ReleaseId /\ FreshRelease(r)
    /\ \E mode \in PublishMode, a \in Article, row \in ReleaseRow :
          NewRow(mode, a, row) /\ release' = [release EXCEPT ![r] = row]
    /\ NewJob(r, j)
    /\ UNCHANGED <<current, published, state, settings>>

Retried(r, j) ==
    /\ active = Null
    /\ r \in ReleaseId /\ release[r].status = "failed" /\ JobsOf(r) # {}
    /\ NewJob(r, j)
    /\ UNCHANGED <<current, release, published, draft, state, settings>>

Kind ==
    \/ \E r \in ReleaseId, j \in JobId : Created(r, j)
    \/ \E r \in ReleaseId, j \in JobId : Retried(r, j)
    \/ \E j \in JobId, row \in JobRow : Reported(j, row)
    \/ \E j \in JobId, row \in JobRow : Succeeded(j, row)
    \/ \E j \in JobId, row \in JobRow : Failed(j, row)
    \/ ContentStep

-----------------------------------------------------------------------------
(* Facts about well-formed rows.                                           *)

\* A row of publish_jobs that exists is well formed.
LEMMA StoredJob ==
    ASSUME TypeOK, NEW j \in JobId, job[j].status # "none"
    PROVE  job[j] \in JobRow
BY DEF TypeOK, NoJob

\* A row of releases that exists is well formed.
LEMMA StoredRelease ==
    ASSUME TypeOK, NEW r \in ReleaseId, release[r].status # "none"
    PROVE  release[r] \in ReleaseRow
BY DEF TypeOK, NoRelease

\* The snapshot of any release id assigns each article a revision or NULL.
LEMMA SnapshotArticles ==
    ASSUME TypeOK, NEW r \in ReleaseId
    PROVE  release[r].articles \in [Article -> Nat]
BY DEF TypeOK, NoRelease, ReleaseRow, NoArticles, Null

\* So does the snapshot a new release is built on.
LEMMA BaseArticles ==
    ASSUME TypeOK
    PROVE  BaseSnapshot.articles \in [Article -> Nat]
BY SnapshotArticles DEF TypeOK, BaseSnapshot, NoArticles, Null

\* So does the snapshot PrepareSnapshot builds from it.
LEMMA PreparedArticles ==
    ASSUME TypeOK, NEW mode \in PublishMode, NEW a \in Article
    PROVE  PrepareSnapshot(mode, a).articles \in [Article -> Nat]
BY BaseArticles DEF TypeOK, PrepareSnapshot, PublishMode, Null

-----------------------------------------------------------------------------
(* Every transition of the store is of one of the kinds.                   *)

\* A verified callback carries stored ids and values a job row can hold.
LEMMA CallbackEventTypes ==
    ASSUME NEW e \in CallbackEvent
    PROVE  /\ e.release \in ReleaseId /\ e.job \in JobId /\ e.build \in BuildNumber
           /\ e.at \in Time
           /\ e.status \in JobStatus \ {"pending"} /\ e.stage \in Stage
<1>1. PICK r \in ReleaseId, j \in JobId, b \in BuildNumber, k \in CallbackKind, t \in Time :
          e = [release |-> r, job |-> j, build |-> b, status |-> k[1], stage |-> k[2], at |-> t]
  BY DEF CallbackEvent
<1>2. k[1] \in JobStatus \ {"pending"} /\ k[2] \in Stage
  BY DEF CallbackKind, JobStatus, Stage
<1> QED
  BY <1>1, <1>2

\* An applied callback passed every check of ApplyCallbackLocked.
LEMMA AppliedCallback ==
    ASSUME NEW e, CallbackAnswer(e) = "applied"
    PROVE  /\ e.job \in JobsOf(e.release)
           /\ active = e.job
           /\ AllowedTransition(job[e.job].status, e.status)
           /\ CallbackBuildNumber(job[e.job].build, e.build)
<1>1. e.job \in JobsOf(e.release)
  BY DEF CallbackAnswer
<1>2. ~CallbackMatches(job[e.job], e)
  BY <1>1 DEF CallbackAnswer
<1> QED
  BY <1>1, <1>2 DEF CallbackAnswer

\* RecordJob moves the active attempt to another row of the same release.
LEMMA RecordedJob ==
    ASSUME TypeOK, NEW j \in JobId, job[j].status # "none", active = j,
           NEW status \in JobStatus, NEW stage \in Stage,
           NEW b \in BuildNumber \cup {Null}, NEW t \in Time \cup {Null},
           job[j].build # Null => b = job[j].build,
           RecordJob(j, status, stage, b, t), UNCHANGED <<draft, state, settings>>
    PROVE  \E row \in JobRow : row.status = status /\ Attempt(j, row)
<1> DEFINE row == [job[j] EXCEPT !.status = status, !.stage = stage,
                                 !.build = b, !.finishedAt = t]
<1>1. job[j] \in JobRow
  BY StoredJob
<1>2. row \in JobRow /\ row.release = job[j].release /\ row.status = status
      /\ row.build = b
  BY <1>1 DEF JobRow
<1>3. job' = [job EXCEPT ![j] = row]
  BY DEF RecordJob, TypeOK
<1> QED
  BY <1>1, <1>2, <1>3 DEF Attempt

\* CreateLocked stores a release with its first attempt.
LEMMA CreateIsAKind ==
    ASSUME IInv, NEW mode \in PublishMode, NEW a \in Article, CreateLocked(mode, a)
    PROVE  \E r \in ReleaseId, j \in JobId : Created(r, j)
<1> DEFINE row == [status |-> "queued", site |-> PrepareSnapshot(mode, a).site,
                   articles |-> PrepareSnapshot(mode, a).articles]
<1>1. ValidatePreparedSnapshot(mode, a, BaseSnapshot, PrepareSnapshot(mode, a))
  BY DEF CreateLocked
<1>2. row \in ReleaseRow
  BY <1>1, PreparedArticles DEF IInv, ReleaseRow, ReleaseStatus, ValidatePreparedSnapshot
<1>3. NewRow(mode, a, row)
  BY <1>1 DEF CreateLocked, NewRow
<1>4. PICK r \in ReleaseId : FreshRelease(r) /\ release' = [release EXCEPT ![r] = row]
                             /\ InsertPublishJob(r)
  BY DEF CreateLocked
<1>5. PICK j \in JobId : NewJob(r, j)
  BY <1>4 DEF InsertPublishJob, NewJob
<1> QED
  BY <1>2, <1>3, <1>4, <1>5 DEF Created, CreateLocked

\* CreateRetryLocked adds an attempt to a failed release.
LEMMA RetryIsAKind ==
    ASSUME IInv, NEW r \in ReleaseId, CreateRetryLocked(r)
    PROVE  \E j \in JobId : Retried(r, j)
BY DEF CreateRetryLocked, InsertPublishJob, Retried, NewJob, LatestJob

\* An applied callback reports progress or ends the active attempt.
LEMMA CallbackIsAKind ==
    ASSUME IInv, NEW e \in CallbackEvent, ApplyCallbackLocked(e)
    PROVE  \E j \in JobId, row \in JobRow :
              Reported(j, row) \/ Succeeded(j, row) \/ Failed(j, row)
<1> DEFINE at == IF FinalJobStatus(e.status) THEN e.at ELSE Null
<1>1. /\ e.job \in JobId /\ job[e.job].status # "none" /\ job[e.job].release = e.release
      /\ active = e.job
      /\ AllowedTransition(job[e.job].status, e.status)
  BY AppliedCallback DEF ApplyCallbackLocked, JobsOf
<1>2. /\ e.status \in JobStatus \ {"pending"} /\ e.stage \in Stage
      /\ e.build \in BuildNumber /\ at \in Time \cup {Null}
  BY CallbackEventTypes
<1>3. RecordJob(e.job, e.status, e.stage, e.build, at)
  BY DEF ApplyCallbackLocked
<1>4. PICK row \in JobRow : row.status = e.status /\ Attempt(e.job, row)
  <2>1. TypeOK /\ UNCHANGED <<draft, state, settings>>
        /\ (job[e.job].build # Null => e.build = job[e.job].build)
    BY AppliedCallback DEF IInv, ApplyCallbackLocked, CallbackBuildNumber
  <2> QED
    BY <1>1, <1>2, <1>3, <2>1, RecordedJob
<1>5. row.release = e.release
  BY <1>1, <1>4 DEF Attempt
<1>6. CASE e.status = "success"
  <2>1. job[e.job].status = "deploying"
    BY <1>1, <1>6 DEF AllowedTransition
  <2>2. Succeed(row.release)
    BY <1>5, <1>6 DEF ApplyCallbackLocked, FinalJobStatus
  <2> QED
    BY <1>1, <1>4, <1>6, <2>1, <2>2 DEF Succeeded
<1>7. CASE e.status = "failed"
  <2>1. Fail(row.release)
    BY <1>5, <1>7 DEF ApplyCallbackLocked, FinalJobStatus
  <2> QED
    BY <1>1, <1>4, <1>7, <2>1 DEF Failed
<1>8. CASE ~FinalJobStatus(e.status)
  <2>1. UNCHANGED <<current, active, release, published>>
    BY <1>8 DEF ApplyCallbackLocked, FinalJobStatus
  <2>2. row.status \in InFlightStatus
    BY <1>2, <1>4, <1>8 DEF FinalJobStatus, InFlightStatus
  <2> QED
    BY <1>1, <1>4, <2>1, <2>2 DEF Reported
<1> QED
  BY <1>6, <1>7, <1>8 DEF FinalJobStatus

\* FailTriggerLocked ends the active attempt in failure.
LEMMA FailTriggerIsAKind ==
    ASSUME IInv, NEW j \in JobId, NEW t \in Time, FailTriggerLocked(j, t)
    PROVE  \E row \in JobRow : Failed(j, row)
<1>1. TypeOK /\ active = j /\ job[j].status = "pending" /\ Fail(job[j].release)
      /\ UNCHANGED <<draft, state, settings>>
  BY DEF IInv, FailTriggerLocked
<1>2. job[j] \in JobRow
  BY <1>1, StoredJob
<1>3. RecordJob(j, "failed", "trigger", job[j].build, t)
  BY DEF FailTriggerLocked
<1>4. PICK row \in JobRow : row.status = "failed" /\ Attempt(j, row)
  <2>1. job[j].build \in BuildNumber \cup {Null} /\ t \in Time \cup {Null}
        /\ "failed" \in JobStatus /\ "trigger" \in Stage /\ job[j].status # "none"
    BY <1>1, <1>2 DEF JobRow, JobStatus, Stage
  <2> QED
    BY <1>1, <1>3, <2>1, RecordedJob
<1> QED
  BY <1>1, <1>4 DEF Failed, Attempt

\* ReconcileLocked ends the active attempt in success.
LEMMA ReconcileIsAKind ==
    ASSUME IInv, NEW art \in Artifact, ReconcileLocked(art)
    PROVE  \E j \in JobId, row \in JobRow : Succeeded(j, row)
<1>1. Reconcilable(art)
  BY DEF ReconcileLocked, ReconcileAnswer
<1>2. /\ active \in JobId /\ job[active].status = "deploying"
      /\ job[active].release = art.release
  BY <1>1 DEF Reconcilable, JobsOf
<1>3. job[active] \in JobRow
  BY <1>2, StoredJob DEF IInv
<1>4. PICK row \in JobRow : row.status = "success" /\ Attempt(active, row)
  <2>1. /\ art.build \in BuildNumber \cup {Null} /\ art.at \in Time \cup {Null}
        /\ "success" \in JobStatus /\ job[active].stage \in Stage
        /\ job[active].status # "none" /\ job[active].build = art.build
    BY <1>1, <1>2, <1>3 DEF Artifact, JobRow, JobStatus, Reconcilable
  <2>2. RecordJob(active, "success", job[active].stage, art.build, art.at)
        /\ TypeOK /\ UNCHANGED <<draft, state, settings>>
    BY DEF ReconcileLocked, IInv
  <2> QED
    BY <1>2, <2>1, <2>2, RecordedJob
<1>5. Succeed(row.release)
  BY <1>2, <1>4 DEF ReconcileLocked, Attempt
<1> QED
  BY <1>2, <1>4, <1>5 DEF Succeeded

\* Every transaction is of one of the kinds.
LEMMA NextIsAKind ==
    ASSUME IInv, Next
    PROVE  Kind
BY CreateIsAKind, RetryIsAKind, CallbackIsAKind, FailTriggerIsAKind, ReconcileIsAKind
   DEF Next, Kind

-----------------------------------------------------------------------------
(* What the invariant says of the active attempt and its release.          *)

\* The active attempt is a stored, unfinished attempt of a stored release.
LEMMA ActiveAttempt ==
    ASSUME IInv, NEW j \in JobId, active = j, NEW r, r = job[j].release
    PROVE  /\ active # Null
           /\ InFlight(j) /\ job[j] \in JobRow
           /\ r \in ReleaseId /\ j \in JobsOf(r) /\ LatestJob(r, j)
           /\ release[r] \in ReleaseRow /\ release[r].status \in {"queued", "failed"}
           /\ \A k \in JobsOf(r) \ {j} : job[k].status = "failed"
           /\ r # current
<1>1. InFlight(j) /\ active # Null
  BY ReleaseAssumption DEF IInv, SingleActiveJob, Null
<1>2. job[j].status # "none" /\ job[j].status \notin {"success", "failed"}
  BY <1>1 DEF InFlight, JobStatus
<1>3. job[j] \in JobRow /\ r \in ReleaseId
  BY <1>2, StoredJob DEF IInv, JobRow
<1>4. j \in JobsOf(r) /\ LatestJob(r, j)
  BY <1>1, <1>2, <1>3 DEF IInv, ActiveIsLatest, JobsOf
<1>5. release[r] \in ReleaseRow
  BY <1>2, <1>3, StoredRelease DEF IInv, AttemptsHaveReleases
<1>6. release[r].status # "success"
  <2>1. SUFFICES ASSUME release[r].status = "success" PROVE FALSE
    OBVIOUS
  <2>2. PICK k \in JobsOf(r) : job[k].status = "success"
    BY <1>3, <2>1 DEF IInv, ReleaseMatchesJobs
  <2>3. k \in JobId /\ LatestJob(r, k)
    BY <1>3, <2>2 DEF IInv, ReleaseMatchesJobs, JobsOf
  <2>4. k = j
    BY <1>4, <2>2, <2>3, ReleaseAssumption DEF LatestJob
  <2> QED
    BY <1>2, <2>2, <2>4
<1>7. release[r].status \in {"queued", "failed"}
  BY <1>5, <1>6 DEF ReleaseRow, ReleaseStatus
<1>8. \A k \in JobsOf(r) \ {j} : job[k].status = "failed"
  BY <1>3, <1>7 DEF IInv, ReleaseMatchesJobs
<1>9. r # current
  BY <1>3, <1>6, ReleaseAssumption DEF IInv, PointersMatchCurrent, Null
<1> QED
  BY <1>1, <1>3, <1>4, <1>5, <1>7, <1>8, <1>9

\* Recording progress or an end moves no attempt to another release.
LEMMA AttemptKeepsJobs ==
    ASSUME IInv, NEW j \in JobId, NEW row \in JobRow, Attempt(j, row)
    PROVE  /\ job' \in [JobId -> JobRow \cup {NoJob}]
           /\ job'[j] = row
           /\ \A k \in JobId \ {j} : job'[k] = job[k]
           /\ \A r : JobsOf(r)' = JobsOf(r)
           /\ \A r : \A k : LatestJob(r, k)' = LatestJob(r, k)
<1>1. job \in [JobId -> JobRow \cup {NoJob}]
  BY DEF IInv, TypeOK
<1>2. /\ job' \in [JobId -> JobRow \cup {NoJob}]
      /\ job'[j] = row
      /\ \A k \in JobId \ {j} : job'[k] = job[k]
  BY <1>1 DEF Attempt
<1>3. row.status # "none" /\ job[j].status # "none"
  BY DEF Attempt, JobRow, JobStatus
<1>4. \A r : JobsOf(r)' = JobsOf(r)
  BY <1>2, <1>3 DEF JobsOf, Attempt
<1> QED
  BY <1>2, <1>4 DEF LatestJob

\* A new attempt is the newest of its release and changes no other set.
LEMMA NewJobFacts ==
    ASSUME IInv, NEW r \in ReleaseId, NEW j \in JobId, NewJob(r, j)
    PROVE  /\ job' \in [JobId -> JobRow \cup {NoJob}]
           /\ job[j].status = "none"
           /\ job'[j].status = "pending" /\ job'[j].release = r
           /\ \A k \in JobId \ {j} : job'[k] = job[k]
           /\ JobsOf(r)' = JobsOf(r) \cup {j}
           /\ \A q \in ReleaseId \ {r} : JobsOf(q)' = JobsOf(q)
           /\ LatestJob(r, j)'
           /\ active' = j /\ active' # Null
<1>1. job \in [JobId -> JobRow \cup {NoJob}]
  BY DEF IInv, TypeOK
<1>2. InitialJob(r) \in JobRow /\ InitialJob(r).status = "pending"
      /\ InitialJob(r).release = r
  BY DEF InitialJob, NoJob, JobRow, JobStatus, Stage, Null
<1>3. /\ job' \in [JobId -> JobRow \cup {NoJob}]
      /\ job'[j] = InitialJob(r)
      /\ \A k \in JobId \ {j} : job'[k] = job[k]
  BY <1>1, <1>2 DEF NewJob
<1>4. job[j].status = "none"
  BY ReleaseAssumption DEF NewJob, FreshJob
<1>5. JobsOf(r)' = JobsOf(r) \cup {j}
  BY <1>2, <1>3 DEF JobsOf
<1>6. \A q \in ReleaseId \ {r} : JobsOf(q)' = JobsOf(q)
  BY <1>2, <1>3, <1>4 DEF JobsOf
<1>7. LatestJob(r, j)'
  <2>1. \A k \in JobsOf(r) : k < j
    BY DEF NewJob, FreshJob, JobsOf
  <2>2. JobsOf(r) \subseteq Nat /\ j \in Nat
    BY ReleaseAssumption DEF JobsOf
  <2> QED
    BY <1>5, <2>1, <2>2 DEF LatestJob
<1>8. active' = j /\ active' # Null
  BY ReleaseAssumption DEF NewJob, Null
<1> QED
  BY <1>2, <1>3, <1>4, <1>5, <1>6, <1>7, <1>8

-----------------------------------------------------------------------------
(* The kinds preserve the invariant.                                       *)

\* Progress of the active attempt preserves the invariant.
LEMMA ReportedKeepsInv ==
    ASSUME IInv, NEW j \in JobId, NEW row \in JobRow, Reported(j, row)
    PROVE  IInv'
<1> DEFINE r == job[j].release
<1>1. /\ Attempt(j, row) /\ active = j /\ row.status \in InFlightStatus
      /\ row.release = r
      /\ UNCHANGED <<current, active, release, published, draft, state, settings>>
  BY DEF Reported, Attempt
<1>2. /\ job' \in [JobId -> JobRow \cup {NoJob}] /\ job'[j] = row
      /\ \A k \in JobId \ {j} : job'[k] = job[k]
      /\ \A q : JobsOf(q)' = JobsOf(q)
      /\ \A q : \A k : LatestJob(q, k)' = LatestJob(q, k)
  BY <1>1, AttemptKeepsJobs
<1>3. /\ active # Null /\ InFlight(j) /\ r \in ReleaseId /\ j \in JobsOf(r)
      /\ LatestJob(r, j) /\ release[r].status \in {"queued", "failed"}
      /\ release[r] \in ReleaseRow
      /\ \A k \in JobsOf(r) \ {j} : job[k].status = "failed"
  BY <1>1, ActiveAttempt
<1>4. row.status \notin {"none", "success", "failed"} /\ row.status \in JobStatus
  BY <1>1 DEF InFlightStatus, JobStatus
<1>5. TypeOK'
  BY <1>1, <1>2 DEF IInv, TypeOK
<1>6. AttemptsHaveReleases'
  BY <1>1, <1>2, <1>3 DEF IInv, AttemptsHaveReleases
<1>7. SingleActiveJob'
  BY <1>1, <1>2, <1>3, <1>4 DEF IInv, SingleActiveJob, InFlight
<1>8. ActiveIsLatest'
  BY <1>1, <1>2, <1>3 DEF ActiveIsLatest
<1>9. ReleaseMatchesJobs'
  <2> SUFFICES ASSUME NEW q \in ReleaseId
               PROVE  /\ release[q].status = "none" <=> JobsOf(q) = {}
                      /\ release[q].status = "queued" => JobsOf(q) = {active}
                      /\ release[q].status = "failed" =>
                            \A k \in JobsOf(q) \ {active} : job'[k].status = "failed"
                      /\ release[q].status = "success" <=>
                            \E k \in JobsOf(q) : job'[k].status = "success"
                      /\ \A k \in JobsOf(q) : job'[k].status = "success" => LatestJob(q, k)
    BY <1>1, <1>2 DEF ReleaseMatchesJobs
  <2>1. \A k \in JobsOf(q) : k \in JobId /\ (job'[k].status = "success" <=> job[k].status = "success")
    BY <1>2, <1>3, <1>4 DEF JobsOf, InFlight
  <2>2. \A k \in JobsOf(q) \ {active} : job'[k] = job[k]
    BY <1>1, <1>2 DEF JobsOf
  <2> QED
    BY <2>1, <2>2 DEF IInv, ReleaseMatchesJobs
<1>10. PointersMatchCurrent' /\ SnapshotIsFrozen'
  BY <1>1 DEF IInv, PointersMatchCurrent, SnapshotIsFrozen
<1>11. FirstAttemptChangesOneThing'
  BY <1>1, <1>2 DEF IInv, FirstAttemptChangesOneThing
<1> QED
  BY <1>5, <1>6, <1>7, <1>8, <1>9, <1>10, <1>11 DEF IInv

\* Success of the active attempt preserves the invariant.
LEMMA SucceededKeepsInv ==
    ASSUME IInv, NEW j \in JobId, NEW row \in JobRow, Succeeded(j, row)
    PROVE  IInv'
<1> DEFINE r == job[j].release
<1>1. /\ Attempt(j, row) /\ active = j /\ row.release = r
      /\ row.status = "success" /\ job[j].status = "deploying"
      /\ UNCHANGED <<draft, state, settings>>
      /\ release' = [release EXCEPT ![r].status = "success"]
      /\ PublishArticlePointers(r) /\ current' = r /\ active' = Null
  BY DEF Succeeded, Succeed, CompleteRelease, Attempt
<1>2. /\ job' \in [JobId -> JobRow \cup {NoJob}] /\ job'[j] = row
      /\ \A k \in JobId \ {j} : job'[k] = job[k]
      /\ \A q : JobsOf(q)' = JobsOf(q)
      /\ \A q : \A k : LatestJob(q, k)' = LatestJob(q, k)
  BY <1>1, AttemptKeepsJobs
<1>3. /\ active # Null /\ InFlight(j) /\ r \in ReleaseId /\ j \in JobsOf(r)
      /\ LatestJob(r, j) /\ release[r].status \in {"queued", "failed"}
      /\ release[r] \in ReleaseRow
      /\ \A k \in JobsOf(r) \ {j} : job[k].status = "failed"
  BY <1>1, ActiveAttempt
<1>4. /\ release' \in [ReleaseId -> ReleaseRow \cup {NoRelease}]
      /\ release'[r] \in ReleaseRow
      /\ release'[r].status = "success" /\ release'[r].articles = release[r].articles
      /\ \A q \in ReleaseId \ {r} : release'[q] = release[q]
  BY <1>1, <1>3 DEF IInv, TypeOK, ReleaseRow, ReleaseStatus
<1>5. published' = release[r].articles /\ published' \in [Article -> Nat]
  <2>1. release[r].articles \in [Article -> Nat] /\ published \in [Article -> Nat]
    BY <1>3 DEF ReleaseRow, IInv, TypeOK
  <2>2. published' = [a \in Article |-> release[r].articles[a]]
    BY <1>1, <2>1 DEF PublishArticlePointers, Null
  <2> QED
    BY <2>1, <2>2
<1>6. TypeOK'
  BY <1>1, <1>2, <1>3, <1>4, <1>5 DEF IInv, TypeOK
<1>7. AttemptsHaveReleases'
  BY <1>1, <1>2, <1>3, <1>4 DEF IInv, AttemptsHaveReleases, TypeOK, JobRow
<1>8. SingleActiveJob'
  BY <1>1, <1>2, <1>3, ReleaseAssumption DEF IInv, SingleActiveJob, InFlight, Null
<1>9. ActiveIsLatest'
  BY <1>1 DEF ActiveIsLatest
<1>10. ReleaseMatchesJobs'
  <2> SUFFICES ASSUME NEW q \in ReleaseId
               PROVE  /\ release'[q].status = "none" <=> JobsOf(q) = {}
                      /\ release'[q].status = "queued" => JobsOf(q) = {active'}
                      /\ release'[q].status = "failed" =>
                            \A k \in JobsOf(q) \ {active'} : job'[k].status = "failed"
                      /\ release'[q].status = "success" <=>
                            \E k \in JobsOf(q) : job'[k].status = "success"
                      /\ \A k \in JobsOf(q) : job'[k].status = "success" => LatestJob(q, k)
    BY <1>2 DEF ReleaseMatchesJobs
  <2>1. CASE q = r
    <3>1. \A k \in JobsOf(q) : job'[k].status = "success" <=> k = j
      BY <1>1, <1>2, <1>3, <2>1 DEF JobsOf
    <3> QED
      BY <1>3, <1>4, <2>1, <3>1
  <2>2. CASE q # r
    <3>1. \A k \in JobsOf(q) : k # j /\ job'[k] = job[k]
      BY <1>2, <1>3, <2>2 DEF JobsOf
    <3>2. release'[q] = release[q] /\ release[q].status # "queued"
      BY <1>1, <1>3, <1>4, <2>2, <3>1 DEF IInv, ReleaseMatchesJobs
    <3>3. /\ release[q].status = "none" <=> JobsOf(q) = {}
          /\ release[q].status = "failed" =>
                \A k \in JobsOf(q) \ {active} : job[k].status = "failed"
          /\ release[q].status = "success" <=>
                \E k \in JobsOf(q) : job[k].status = "success"
          /\ \A k \in JobsOf(q) : job[k].status = "success" => LatestJob(q, k)
      BY DEF IInv, ReleaseMatchesJobs
    <3> QED
      BY <1>1, <3>1, <3>2, <3>3
  <2> QED
    BY <2>1, <2>2
<1>11. PointersMatchCurrent'
  BY <1>1, <1>3, <1>4, <1>5, ReleaseAssumption DEF PointersMatchCurrent, Null
<1>12. SnapshotIsFrozen'
  BY <1>1, <1>4 DEF IInv, SnapshotIsFrozen
<1>13. FirstAttemptChangesOneThing'
  BY <1>1, ReleaseAssumption DEF FirstAttemptChangesOneThing, JobsOf, Null
<1> QED
  BY <1>6, <1>7, <1>8, <1>9, <1>10, <1>11, <1>12, <1>13 DEF IInv

\* Failure of the active attempt preserves the invariant.
LEMMA FailedKeepsInv ==
    ASSUME IInv, NEW j \in JobId, NEW row \in JobRow, Failed(j, row)
    PROVE  IInv'
<1> DEFINE r == job[j].release
<1>1. /\ Attempt(j, row) /\ active = j /\ row.release = r
      /\ row.status = "failed"
      /\ UNCHANGED <<current, published, draft, state, settings>>
      /\ release' = [release EXCEPT ![r].status = "failed"]
      /\ active' = Null
  BY DEF Failed, Fail, CompleteRelease, Attempt
<1>2. /\ job' \in [JobId -> JobRow \cup {NoJob}] /\ job'[j] = row
      /\ \A k \in JobId \ {j} : job'[k] = job[k]
      /\ \A q : JobsOf(q)' = JobsOf(q)
      /\ \A q : \A k : LatestJob(q, k)' = LatestJob(q, k)
  BY <1>1, AttemptKeepsJobs
<1>3. /\ active # Null /\ InFlight(j) /\ r \in ReleaseId /\ j \in JobsOf(r)
      /\ release[r].status \in {"queued", "failed"} /\ r # current
      /\ release[r] \in ReleaseRow
      /\ \A k \in JobsOf(r) \ {j} : job[k].status = "failed"
  BY <1>1, ActiveAttempt
<1>4. /\ release' \in [ReleaseId -> ReleaseRow \cup {NoRelease}]
      /\ release'[r] \in ReleaseRow
      /\ release'[r].status = "failed" /\ release'[r].articles = release[r].articles
      /\ \A q \in ReleaseId \ {r} : release'[q] = release[q]
  BY <1>1, <1>3 DEF IInv, TypeOK, ReleaseRow, ReleaseStatus
<1>5. TypeOK'
  BY <1>1, <1>2, <1>4 DEF IInv, TypeOK
<1>6. AttemptsHaveReleases'
  BY <1>1, <1>2, <1>3, <1>4 DEF IInv, AttemptsHaveReleases, TypeOK, JobRow
<1>7. SingleActiveJob'
  BY <1>1, <1>2, <1>3, ReleaseAssumption DEF IInv, SingleActiveJob, InFlight, Null
<1>8. ActiveIsLatest'
  BY <1>1 DEF ActiveIsLatest
<1>9. ReleaseMatchesJobs'
  <2> SUFFICES ASSUME NEW q \in ReleaseId
               PROVE  /\ release'[q].status = "none" <=> JobsOf(q) = {}
                      /\ release'[q].status = "queued" => JobsOf(q) = {active'}
                      /\ release'[q].status = "failed" =>
                            \A k \in JobsOf(q) \ {active'} : job'[k].status = "failed"
                      /\ release'[q].status = "success" <=>
                            \E k \in JobsOf(q) : job'[k].status = "success"
                      /\ \A k \in JobsOf(q) : job'[k].status = "success" => LatestJob(q, k)
    BY <1>2 DEF ReleaseMatchesJobs
  <2>1. CASE q = r
    <3>1. \A k \in JobsOf(q) : job'[k].status = "failed"
      BY <1>1, <1>2, <1>3, <2>1 DEF JobsOf
    <3> QED
      BY <1>3, <1>4, <2>1, <3>1
  <2>2. CASE q # r
    <3>1. \A k \in JobsOf(q) : k # j /\ job'[k] = job[k]
      BY <1>2, <1>3, <2>2 DEF JobsOf
    <3>2. release'[q] = release[q] /\ release[q].status # "queued"
      BY <1>1, <1>3, <1>4, <2>2, <3>1 DEF IInv, ReleaseMatchesJobs
    <3>3. /\ release[q].status = "none" <=> JobsOf(q) = {}
          /\ release[q].status = "failed" =>
                \A k \in JobsOf(q) \ {active} : job[k].status = "failed"
          /\ release[q].status = "success" <=>
                \E k \in JobsOf(q) : job[k].status = "success"
          /\ \A k \in JobsOf(q) : job[k].status = "success" => LatestJob(q, k)
      BY DEF IInv, ReleaseMatchesJobs
    <3> QED
      BY <1>1, <3>1, <3>2, <3>3
  <2> QED
    BY <2>1, <2>2
<1>10. PointersMatchCurrent'
  BY <1>1, <1>3, <1>4 DEF IInv, TypeOK, PointersMatchCurrent, Null
<1>11. SnapshotIsFrozen'
  BY <1>1, <1>4 DEF IInv, SnapshotIsFrozen
<1>12. FirstAttemptChangesOneThing'
  BY <1>1, ReleaseAssumption DEF FirstAttemptChangesOneThing, JobsOf, Null
<1> QED
  BY <1>5, <1>6, <1>7, <1>8, <1>9, <1>10, <1>11, <1>12 DEF IInv

\* The base of a new release is what is published now.
LEMMA BaseIsPublished ==
    ASSUME IInv
    PROVE  /\ BaseSnapshot.articles = published
           /\ published \in [Article -> Nat]
           /\ \A a \in Article : published[a] < draft[a]
           /\ current # Null => BaseSnapshot.site = release[current].site
<1>1. CASE current = Null
  BY <1>1 DEF IInv, TypeOK, PointersMatchCurrent, BaseSnapshot, NoArticles, Null
<1>2. CASE current # Null
  BY <1>2 DEF IInv, TypeOK, PointersMatchCurrent, BaseSnapshot, SnapshotIsFrozen
<1> QED
  BY <1>1, <1>2

\* A new release row changes one article of the base or the settings alone.
LEMMA NewRowFacts ==
    ASSUME IInv, NEW mode, NEW a, NEW row, NewRow(mode, a, row)
    PROVE  /\ row.status = "queued"
           /\ draft' \in [Article -> Nat \ {0}]
           /\ \A b \in Article : draft[b] <= draft'[b] /\ row.articles[b] < draft'[b]
           /\ \A b \in Article : row.articles[b] # published[b] =>
                                    b = a /\ mode # "publish_settings"
           /\ mode # "publish_settings" /\ current # Null =>
                 row.site = release[current].site
<1> DEFINE prepared == PrepareSnapshot(mode, a)
<1>1. /\ mode \in PublishMode /\ a \in Article
      /\ row.status = "queued" /\ row.site = prepared.site
      /\ row.articles = prepared.articles
      /\ ValidatePreparedSnapshot(mode, a, BaseSnapshot, prepared)
      /\ IF mode = "publish_article" THEN FreezeArticle(a) ELSE UNCHANGED draft
  BY DEF NewRow
<1>2. /\ BaseSnapshot.articles = published /\ published \in [Article -> Nat]
      /\ \A b \in Article : published[b] < draft[b]
      /\ current # Null => BaseSnapshot.site = release[current].site
  BY BaseIsPublished
<1>3. draft \in [Article -> Nat \ {0}]
  BY DEF IInv, TypeOK
<1>4. mode # "publish_settings" /\ current # Null => row.site = release[current].site
  BY <1>1, <1>2 DEF ValidatePreparedSnapshot
<1>5. CASE mode = "publish_settings"
  <2>1. row.articles = published /\ draft' = draft
    BY <1>1, <1>2, <1>5 DEF ValidatePreparedSnapshot
  <2> QED
    BY <1>1, <1>2, <1>3, <1>4, <1>5, <2>1
<1>6. CASE mode = "unpublish_article"
  <2>1. row.articles = [published EXCEPT ![a] = Null] /\ draft' = draft
    BY <1>1, <1>2, <1>6 DEF ValidatePreparedSnapshot
  <2>2. \A b \in Article : row.articles[b] = IF b = a THEN 0 ELSE published[b]
    BY <1>2, <2>1 DEF Null
  <2>3. \A b \in Article : draft[b] <= draft'[b] /\ row.articles[b] < draft'[b]
    BY <1>2, <1>3, <2>1, <2>2
  <2>4. \A b \in Article : row.articles[b] # published[b] => b = a /\ mode # "publish_settings"
    BY <1>6, <2>2
  <2> QED
    BY <1>1, <1>3, <1>4, <2>1, <2>3, <2>4
<1>7. CASE mode = "publish_article"
  <2>1. row.articles = [published EXCEPT ![a] = draft[a]]
    BY <1>1, <1>2, <1>7 DEF PrepareSnapshot
  <2>2. draft' = [draft EXCEPT ![a] = draft[a] + 1]
    BY <1>1, <1>7 DEF FreezeArticle
  <2>3. \A b \in Article : row.articles[b] = IF b = a THEN draft[b] ELSE published[b]
    BY <1>2, <2>1
  <2>4. \A b \in Article : draft'[b] = IF b = a THEN draft[b] + 1 ELSE draft[b]
    BY <1>3, <2>2
  <2>5. draft' \in [Article -> Nat \ {0}]
    <3>1. draft[a] + 1 \in Nat \ {0}
      BY <1>1, <1>3
    <3> QED
      BY <1>3, <2>2, <3>1
  <2>6. \A b \in Article : draft[b] <= draft'[b] /\ row.articles[b] < draft'[b]
    BY <1>2, <1>3, <2>3, <2>4
  <2>7. \A b \in Article : row.articles[b] # published[b] => b = a /\ mode # "publish_settings"
    BY <1>7, <2>3
  <2> QED
    BY <1>1, <1>4, <2>5, <2>6, <2>7
<1> QED
  BY <1>1, <1>5, <1>6, <1>7 DEF PublishMode

\* No attempt is in flight while no job is active.
LEMMA IdleRelease ==
    ASSUME IInv, active = Null, NEW q \in ReleaseId
    PROVE  /\ release[q].status = "none" <=> JobsOf(q) = {}
           /\ release[q].status # "queued"
           /\ release[q].status = "failed" =>
                 \A k \in JobsOf(q) : job[k].status = "failed"
           /\ release[q].status = "success" <=>
                 \E k \in JobsOf(q) : job[k].status = "success"
           /\ \A k \in JobsOf(q) : job[k].status = "success" => LatestJob(q, k)
<1>1. active \notin JobsOf(q)
  BY ReleaseAssumption DEF JobsOf, Null
<1>2. /\ release[q].status = "none" <=> JobsOf(q) = {}
      /\ release[q].status = "queued" => JobsOf(q) = {active}
      /\ release[q].status = "failed" =>
            \A k \in JobsOf(q) \ {active} : job[k].status = "failed"
      /\ release[q].status = "success" <=>
            \E k \in JobsOf(q) : job[k].status = "success"
      /\ \A k \in JobsOf(q) : job[k].status = "success" => LatestJob(q, k)
  BY DEF IInv, ReleaseMatchesJobs
<1> QED
  BY <1>1, <1>2

\* Creating a release preserves the invariant.
LEMMA CreatedKeepsInv ==
    ASSUME IInv, NEW r \in ReleaseId, NEW j \in JobId, Created(r, j)
    PROVE  IInv'
<1>1. PICK mode \in PublishMode, a \in Article, row \in ReleaseRow :
          NewRow(mode, a, row) /\ release' = [release EXCEPT ![r] = row]
  BY DEF Created
<1>2. /\ active = Null /\ FreshRelease(r) /\ NewJob(r, j)
      /\ UNCHANGED <<current, published, state, settings>>
  BY DEF Created
<1>3. /\ job' \in [JobId -> JobRow \cup {NoJob}]
      /\ job[j].status = "none"
      /\ job'[j].status = "pending" /\ job'[j].release = r
      /\ \A k \in JobId \ {j} : job'[k] = job[k]
      /\ JobsOf(r)' = JobsOf(r) \cup {j}
      /\ \A q \in ReleaseId \ {r} : JobsOf(q)' = JobsOf(q)
      /\ LatestJob(r, j)'
      /\ active' = j /\ active' # Null
  BY <1>2, NewJobFacts
<1>4. /\ row.status = "queued"
      /\ draft' \in [Article -> Nat \ {0}]
      /\ \A b \in Article : draft[b] <= draft'[b] /\ row.articles[b] < draft'[b]
      /\ \A b \in Article : row.articles[b] # published[b] =>
                               b = a /\ mode # "publish_settings"
      /\ mode # "publish_settings" /\ current # Null => row.site = release[current].site
  BY <1>1, NewRowFacts
<1>5. release[r].status = "none" /\ JobsOf(r) = {} /\ r # current
  BY <1>2, ReleaseAssumption
     DEF FreshRelease, IInv, ReleaseMatchesJobs, PointersMatchCurrent, Null
<1>6. /\ release' \in [ReleaseId -> ReleaseRow \cup {NoRelease}]
      /\ release'[r] = row
      /\ \A q \in ReleaseId \ {r} : release'[q] = release[q]
  BY <1>1 DEF IInv, TypeOK
<1>7. TypeOK'
  BY <1>2, <1>3, <1>4, <1>6 DEF IInv, TypeOK
<1>8. AttemptsHaveReleases'
  <2> SUFFICES ASSUME NEW k \in JobId, job'[k].status # "none"
               PROVE  release'[job'[k].release].status # "none"
    BY DEF AttemptsHaveReleases
  <2>1. CASE k = j
    BY <1>3, <1>4, <1>6, <2>1
  <2>2. CASE k # j
    <3>1. job[k] \in JobRow /\ job'[k] = job[k]
      BY <1>3, <2>2, StoredJob DEF IInv
    <3>2. job[k].release \in ReleaseId /\ release[job[k].release].status # "none"
      BY <3>1 DEF IInv, AttemptsHaveReleases, JobRow
    <3> QED
      BY <1>4, <1>6, <3>1, <3>2
  <2> QED
    BY <2>1, <2>2
<1>9. SingleActiveJob'
  BY <1>2, <1>3, ReleaseAssumption DEF IInv, SingleActiveJob, InFlight, JobStatus, Null
<1>10. ActiveIsLatest'
  BY <1>3 DEF ActiveIsLatest
<1>11. ReleaseMatchesJobs'
  <2> SUFFICES ASSUME NEW q \in ReleaseId
               PROVE  /\ release'[q].status = "none" <=> JobsOf(q)' = {}
                      /\ release'[q].status = "queued" => JobsOf(q)' = {active'}
                      /\ release'[q].status = "failed" =>
                            \A k \in JobsOf(q)' \ {active'} : job'[k].status = "failed"
                      /\ release'[q].status = "success" <=>
                            \E k \in JobsOf(q)' : job'[k].status = "success"
                      /\ \A k \in JobsOf(q)' : job'[k].status = "success" => LatestJob(q, k)'
    BY DEF ReleaseMatchesJobs
  <2>1. CASE q = r
    BY <1>3, <1>4, <1>5, <1>6, <2>1
  <2>2. CASE q # r
    <3>1. JobsOf(q)' = JobsOf(q) /\ release'[q] = release[q]
      BY <1>3, <1>6, <2>2
    <3>2. \A k \in JobsOf(q) : k # j /\ job'[k] = job[k]
      BY <1>3 DEF JobsOf
    <3>3. \A k : LatestJob(q, k)' = LatestJob(q, k)
      BY <3>1 DEF LatestJob
    <3>4. /\ release[q].status = "none" <=> JobsOf(q) = {}
          /\ release[q].status # "queued"
          /\ release[q].status = "failed" =>
                \A k \in JobsOf(q) : job[k].status = "failed"
          /\ release[q].status = "success" <=>
                \E k \in JobsOf(q) : job[k].status = "success"
          /\ \A k \in JobsOf(q) : job[k].status = "success" => LatestJob(q, k)
      BY <1>2, IdleRelease
    <3>5. \A k \in JobsOf(q)' :
             /\ job'[k] = job[k]
             /\ LatestJob(q, k)' <=> LatestJob(q, k)
      BY <3>1, <3>2, <3>3
    <3>6. release'[q].status = "success" <=>
             \E k \in JobsOf(q)' : job'[k].status = "success"
      BY <3>1, <3>4, <3>5
    <3> QED
      BY <3>1, <3>4, <3>5, <3>6
  <2> QED
    BY <2>1, <2>2
<1>12. PointersMatchCurrent'
  BY <1>2, <1>5, <1>6 DEF IInv, TypeOK, PointersMatchCurrent, Null
<1>13. SnapshotIsFrozen'
  <2> SUFFICES ASSUME NEW q \in ReleaseId, NEW b \in Article
               PROVE  release'[q].articles[b] < draft'[b]
    BY DEF SnapshotIsFrozen
  <2>1. CASE q = r
    BY <1>4, <1>6, <2>1
  <2>2. CASE q # r
    <3>1. release[q].articles[b] \in Nat /\ draft[b] \in Nat /\ draft'[b] \in Nat
      BY <1>4, SnapshotArticles DEF IInv, TypeOK
    <3>2. release[q].articles[b] < draft[b] /\ draft[b] <= draft'[b]
      BY <1>4 DEF IInv, SnapshotIsFrozen
    <3> QED
      BY <1>6, <2>2, <3>1, <3>2
  <2> QED
    BY <2>1, <2>2
<1>14. FirstAttemptChangesOneThing'
  <2> SUFFICES ASSUME NEW q \in ReleaseId, JobsOf(q)' = {active'}
               PROVE  LET changed == {b \in Article : release'[q].articles[b] # published[b]} IN
                      /\ \A b, c \in changed : b = c
                      /\ current # Null /\ release'[q].site # release'[current].site
                            => changed = {}
    BY <1>2 DEF FirstAttemptChangesOneThing
  <2>1. q = r
    BY <1>3 DEF JobsOf
  <2>2. current # Null => release'[current] = release[current]
    BY <1>5, <1>6 DEF IInv, TypeOK
  <2> QED
    BY <1>4, <1>6, <2>1, <2>2
<1> QED
  BY <1>7, <1>8, <1>9, <1>10, <1>11, <1>12, <1>13, <1>14 DEF IInv

\* Adding an attempt to a failed release preserves the invariant.
LEMMA RetriedKeepsInv ==
    ASSUME IInv, NEW r \in ReleaseId, NEW j \in JobId, Retried(r, j)
    PROVE  IInv'
<1>1. /\ active = Null /\ release[r].status = "failed" /\ JobsOf(r) # {} /\ NewJob(r, j)
      /\ UNCHANGED <<current, release, published, draft, state, settings>>
  BY DEF Retried
<1>2. /\ job' \in [JobId -> JobRow \cup {NoJob}]
      /\ job[j].status = "none"
      /\ job'[j].status = "pending" /\ job'[j].release = r
      /\ \A k \in JobId \ {j} : job'[k] = job[k]
      /\ JobsOf(r)' = JobsOf(r) \cup {j}
      /\ \A q \in ReleaseId \ {r} : JobsOf(q)' = JobsOf(q)
      /\ LatestJob(r, j)'
      /\ active' = j /\ active' # Null
  BY <1>1, NewJobFacts
<1>3. TypeOK'
  BY <1>1, <1>2 DEF IInv, TypeOK
<1>4. AttemptsHaveReleases'
  BY <1>1, <1>2 DEF IInv, AttemptsHaveReleases
<1>5. SingleActiveJob'
  BY <1>1, <1>2, ReleaseAssumption DEF IInv, SingleActiveJob, InFlight, JobStatus, Null
<1>6. ActiveIsLatest'
  BY <1>2 DEF ActiveIsLatest
<1>7. \A q \in ReleaseId : \A k \in JobsOf(q) : k # j /\ job'[k] = job[k]
  BY <1>2 DEF JobsOf
<1>8. ReleaseMatchesJobs'
  <2> SUFFICES ASSUME NEW q \in ReleaseId
               PROVE  /\ release[q].status = "none" <=> JobsOf(q)' = {}
                      /\ release[q].status = "queued" => JobsOf(q)' = {active'}
                      /\ release[q].status = "failed" =>
                            \A k \in JobsOf(q)' \ {active'} : job'[k].status = "failed"
                      /\ release[q].status = "success" <=>
                            \E k \in JobsOf(q)' : job'[k].status = "success"
                      /\ \A k \in JobsOf(q)' : job'[k].status = "success" => LatestJob(q, k)'
    BY <1>1 DEF ReleaseMatchesJobs
  <2>1. /\ release[q].status = "none" <=> JobsOf(q) = {}
        /\ release[q].status # "queued"
        /\ release[q].status = "failed" =>
              \A k \in JobsOf(q) : job[k].status = "failed"
        /\ release[q].status = "success" <=>
              \E k \in JobsOf(q) : job[k].status = "success"
        /\ \A k \in JobsOf(q) : job[k].status = "success" => LatestJob(q, k)
    BY <1>1, IdleRelease
  <2>2. CASE q = r
    BY <1>1, <1>2, <1>7, <2>1, <2>2
  <2>3. CASE q # r
    <3>1. JobsOf(q)' = JobsOf(q)
      BY <1>2, <2>3
    <3>2. \A k : LatestJob(q, k)' = LatestJob(q, k)
      BY <3>1 DEF LatestJob
    <3> QED
      BY <1>7, <2>1, <3>1, <3>2
  <2> QED
    BY <2>2, <2>3
<1>9. PointersMatchCurrent' /\ SnapshotIsFrozen'
  BY <1>1 DEF IInv, PointersMatchCurrent, SnapshotIsFrozen
<1>10. FirstAttemptChangesOneThing'
  <2>1. ASSUME NEW q \in ReleaseId PROVE JobsOf(q)' # {active'}
    <3>1. CASE q = r
      BY <1>1, <1>2, <1>7, <3>1
    <3>2. CASE q # r
      BY <1>2, <1>7, <3>2
    <3> QED
      BY <3>1, <3>2
  <2> QED
    BY <2>1 DEF FirstAttemptChangesOneThing
<1> QED
  BY <1>3, <1>4, <1>5, <1>6, <1>8, <1>9, <1>10 DEF IInv

\* Trash, Untrash and PutSite preserve the invariant.
LEMMA ContentKeepsInv ==
    ASSUME IInv, ContentStep
    PROVE  IInv'
<1>1. /\ UNCHANGED <<current, active, release, job, published, draft>>
      /\ state' \in [Article -> {"active", "trashed"}] /\ settings' \in Site
  BY DEF ContentStep, Trash, Untrash, PutSite, IInv, TypeOK
<1> QED
  BY <1>1 DEF IInv, TypeOK, AttemptsHaveReleases, SingleActiveJob, InFlight, ActiveIsLatest,
              LatestJob, JobsOf, ReleaseMatchesJobs, PointersMatchCurrent, SnapshotIsFrozen,
              FirstAttemptChangesOneThing

\* The empty database satisfies the invariant.
LEMMA InitInv ==
    Init => IInv
<1> SUFFICES ASSUME Init PROVE IInv
  OBVIOUS
<1>1. TypeOK
  BY DEF Init, TypeOK, NoRelease, NoJob, NoArticles, Null
<1>2. \A r : JobsOf(r) = {}
  BY DEF Init, JobsOf, NoJob
<1>3. AttemptsHaveReleases
  BY DEF Init, AttemptsHaveReleases, NoJob
<1>4. SingleActiveJob /\ ActiveIsLatest
  BY ReleaseAssumption
     DEF Init, SingleActiveJob, ActiveIsLatest, InFlight, NoJob, JobStatus, Null
<1>5. ReleaseMatchesJobs
  BY <1>2 DEF Init, ReleaseMatchesJobs, NoRelease
<1>6. PointersMatchCurrent
  BY DEF Init, PointersMatchCurrent
<1>7. SnapshotIsFrozen
  <2> SUFFICES ASSUME NEW r \in ReleaseId, NEW a \in Article
               PROVE  release[r].articles[a] < draft[a]
    BY DEF SnapshotIsFrozen
  <2>1. release[r].articles = NoArticles /\ NoArticles[a] = 0 /\ draft[a] = 1
    BY DEF Init, NoRelease, NoArticles, Null
  <2> QED
    BY <2>1
<1>8. FirstAttemptChangesOneThing
  BY <1>2 DEF FirstAttemptChangesOneThing
<1> QED
  BY <1>1, <1>3, <1>4, <1>5, <1>6, <1>7, <1>8 DEF IInv

\* Every step preserves the invariant.
LEMMA StepInv ==
    IInv /\ [Next]_vars => IInv'
<1> SUFFICES ASSUME IInv, [Next]_vars PROVE IInv'
  OBVIOUS
<1>1. CASE Next
  BY <1>1, NextIsAKind, CreatedKeepsInv, RetriedKeepsInv, ReportedKeepsInv,
     SucceededKeepsInv, FailedKeepsInv, ContentKeepsInv DEF Kind
<1>2. CASE UNCHANGED vars
  BY <1>2 DEF vars, IInv, TypeOK, AttemptsHaveReleases, SingleActiveJob, InFlight,
              ActiveIsLatest, LatestJob, JobsOf, ReleaseMatchesJobs, PointersMatchCurrent,
              SnapshotIsFrozen, FirstAttemptChangesOneThing
<1> QED
  BY <1>1, <1>2

\* The conjunction of the invariants holds in every reachable state of the
\* store, for arbitrary callers.
THEOREM Invariance == Spec => []IInv
BY InitInv, StepInv, PTL DEF Spec

-----------------------------------------------------------------------------
(* The theorems.                                                           *)

(* Every reachable state is well typed; in particular only publishable     *)
(* settings are ever frozen into a release row.                            *)
THEOREM TypeCorrect == Spec => []TypeOK
<1>1. IInv => TypeOK
  BY DEF IInv
<1> QED
  BY <1>1, Invariance, PTL

(* The lock in site_state names a job exactly while that job is in flight, *)
(* whatever callbacks, trigger failures and artifacts are presented.       *)
THEOREM LockIsExact == Spec => []SingleActiveJob
<1>1. IInv => SingleActiveJob
  BY DEF IInv
<1> QED
  BY <1>1, Invariance, PTL

(* The status of a release always agrees with those of its attempts.       *)
THEOREM ReleasesAgreeWithJobs == Spec => []ReleaseMatchesJobs
<1>1. IInv => ReleaseMatchesJobs
  BY DEF IInv
<1> QED
  BY <1>1, Invariance, PTL

(* The article pointers are those of the current successful release.       *)
THEOREM PointersAgreeWithCurrent == Spec => []PointersMatchCurrent
<1>1. IInv => PointersMatchCurrent
  BY DEF IInv
<1> QED
  BY <1>1, Invariance, PTL

(* No stored release names a revision that can still be edited.            *)
THEOREM SnapshotsAreFrozen == Spec => []SnapshotIsFrozen
<1>1. IInv => SnapshotIsFrozen
  BY DEF IInv
<1> QED
  BY <1>1, Invariance, PTL

(* A first attempt changes one article or the settings, nothing else.      *)
THEOREM FirstAttemptIsMinimal == Spec => []FirstAttemptChangesOneThing
<1>1. IInv => FirstAttemptChangesOneThing
  BY DEF IInv
<1> QED
  BY <1>1, Invariance, PTL

-----------------------------------------------------------------------------
(* What a step may never do.                                               *)

\* Of all kinds only success moves the live pointers.
LEMMA KindAdvances ==
    ASSUME IInv, Kind, <<current, published>>' # <<current, published>>
    PROVE  /\ active # Null
           /\ job[active].status = "deploying"
           /\ job'[active].status = "success"
           /\ current' = job[active].release
<1>1. PICK j \in JobId, row \in JobRow : Succeeded(j, row)
  BY DEF Kind, Created, Retried, Reported, Failed, Fail, ContentStep, Trash, Untrash, PutSite
<1>2. /\ Attempt(j, row) /\ active = j /\ row.release = job[j].release
      /\ job[j].status = "deploying" /\ row.status = "success"
      /\ current' = row.release
  BY <1>1 DEF Succeeded, Succeed, Attempt
<1>3. active # Null
  BY <1>2, ReleaseAssumption DEF Null
<1>4. job'[j] = row
  BY <1>2, AttemptKeepsJobs
<1> QED
  BY <1>2, <1>3, <1>4

(* The live pointers move only when the deploying active job succeeds.     *)
THEOREM AdvanceOnlyBySuccess == Spec => OnlySuccessAdvances
<1> DEFINE Advance == <<current, published>>' # <<current, published>> =>
                         /\ active # Null
                         /\ job[active].status = "deploying"
                         /\ job'[active].status = "success"
                         /\ current' = job[active].release
<1>1. IInv /\ [Next]_vars => [Advance]_vars
  BY NextIsAKind, KindAdvances
<1>2. OnlySuccessAdvances <=> [][Advance]_vars
  BY DEF OnlySuccessAdvances
<1> QED
  BY <1>1, <1>2, Invariance, PTL DEF Spec

\* The immutable part of an attempt and of a release.
HistoryKept ==
    /\ \A j \in JobId :
         /\ FinalJobStatus(job[j].status) => job'[j] = job[j]
         /\ job[j].build # Null => job'[j].build = job[j].build
         /\ job[j].release # Null => job'[j].release = job[j].release
    /\ \A r \in ReleaseId :
         release[r].status # "none" =>
             /\ release'[r].site = release[r].site
             /\ release'[r].articles = release[r].articles

\* A step of the active attempt leaves every finished attempt as it was.
LEMMA AttemptKeepsHistory ==
    ASSUME IInv, NEW j \in JobId, NEW row \in JobRow, Attempt(j, row)
    PROVE  \A k \in JobId :
             /\ FinalJobStatus(job[k].status) => job'[k] = job[k]
             /\ job[k].build # Null => job'[k].build = job[k].build
             /\ job'[k].release = job[k].release
<1>1. job'[j] = row /\ \A k \in JobId \ {j} : job'[k] = job[k]
  BY AttemptKeepsJobs
<1>2. /\ row.release = job[j].release
      /\ job[j].build # Null => row.build = job[j].build
      /\ active = j
  BY DEF Attempt
<1>3. ~FinalJobStatus(job[j].status)
  BY <1>2, ActiveAttempt DEF InFlight, FinalJobStatus
<1> QED
  BY <1>1, <1>2, <1>3

\* A new attempt leaves every stored attempt as it was.
LEMMA NewJobKeepsHistory ==
    ASSUME IInv, NEW r \in ReleaseId, NEW j \in JobId, NewJob(r, j)
    PROVE  \A k \in JobId :
             /\ FinalJobStatus(job[k].status) => job'[k] = job[k]
             /\ job[k].build # Null => job'[k].build = job[k].build
             /\ job[k].release # Null => job'[k].release = job[k].release
<1>1. job[j].status = "none" /\ \A k \in JobId \ {j} : job'[k] = job[k]
  BY NewJobFacts
<1>2. job[j] = NoJob
  BY <1>1 DEF IInv, TypeOK, JobRow, JobStatus
<1> QED
  BY <1>1, <1>2 DEF NoJob, FinalJobStatus, Null

\* Of all kinds none changes what is already recorded.
LEMMA KindKeepsHistory ==
    ASSUME IInv, Kind
    PROVE  HistoryKept
<1>1. ASSUME NEW r \in ReleaseId, NEW j \in JobId, Created(r, j)
      PROVE  HistoryKept
  <2>1. release[r].status = "none" /\ NewJob(r, j)
    BY <1>1, ReleaseAssumption DEF Created, FreshRelease
  <2>2. \A q \in ReleaseId \ {r} : release'[q] = release[q]
    BY <1>1 DEF Created, IInv, TypeOK
  <2> QED
    BY <2>1, <2>2, NewJobKeepsHistory DEF HistoryKept
<1>2. ASSUME NEW r \in ReleaseId, NEW j \in JobId, Retried(r, j)
      PROVE  HistoryKept
  BY <1>2, NewJobKeepsHistory DEF HistoryKept, Retried
<1>3. ASSUME NEW j \in JobId, NEW row \in JobRow, Reported(j, row)
      PROVE  HistoryKept
  BY <1>3, AttemptKeepsHistory DEF HistoryKept, Reported
<1>4. ASSUME NEW j \in JobId, NEW row \in JobRow, Succeeded(j, row) \/ Failed(j, row)
      PROVE  HistoryKept
  <2>1. Attempt(j, row)
    BY <1>4 DEF Succeeded, Failed
  <2>2. PICK status \in {"success", "failed"} :
            release' = [release EXCEPT ![row.release].status = status]
    BY <1>4 DEF Succeeded, Succeed, Failed, Fail, CompleteRelease
  <2>3. row.release \in ReleaseId /\ release[row.release] \in ReleaseRow
    BY <2>1, ActiveAttempt DEF Attempt
  <2>4. \A q \in ReleaseId : /\ release'[q].site = release[q].site
                             /\ release'[q].articles = release[q].articles
    BY <2>2, <2>3 DEF IInv, TypeOK, ReleaseRow
  <2> QED
    BY <2>1, <2>4, AttemptKeepsHistory DEF HistoryKept
<1>5. CASE ContentStep
  BY <1>5 DEF HistoryKept, ContentStep, Trash, Untrash, PutSite
<1> QED
  BY <1>1, <1>2, <1>3, <1>4, <1>5 DEF Kind

(* Finished attempts, recorded build numbers and snapshots never change.   *)
THEOREM HistoryNeverChanges == Spec => HistoryIsImmutable
<1>1. IInv /\ [Next]_vars => [HistoryKept]_vars
  BY NextIsAKind, KindKeepsHistory
<1>2. HistoryIsImmutable <=> [][HistoryKept]_vars
  BY DEF HistoryIsImmutable, HistoryKept
<1> QED
  BY <1>1, <1>2, Invariance, PTL DEF Spec

-----------------------------------------------------------------------------
(* The store implements SerialPublishing.                                  *)

\* A stored snapshot is one of the abstract specification's, and not its Idle.
LEMMA StoredSnapshot ==
    ASSUME NEW row \in ReleaseRow
    PROVE  LET snapshot == [site |-> row.site, articles |-> row.articles] IN
           /\ snapshot \in [site : Site, articles : [Article -> Nat]]
           /\ snapshot # NoRelease
<1> DEFINE snapshot == [site |-> row.site, articles |-> row.articles]
<1>1. row.site \in Site /\ row.articles \in [Article -> Nat]
  BY ReleaseAssumption DEF ReleaseRow
<1>2. snapshot.site # NoRelease.site
  BY <1>1, ReleaseAssumption DEF NoRelease
<1> QED
  BY <1>1, <1>2

\* Every kind is a step of SerialPublishing or changes nothing it sees.
LEMMA KindIsSerial ==
    ASSUME IInv, Kind
    PROVE  Serial!SNext \/ UNCHANGED <<live, pending>>
<1> USE DEF live, pending
<1>1. ASSUME NEW r \in ReleaseId, NEW j \in JobId, Created(r, j)
      PROVE  Serial!Start
  <2>1. PICK row \in ReleaseRow : release' = [release EXCEPT ![r] = row]
    BY <1>1 DEF Created
  <2>2. active = Null /\ FreshRelease(r) /\ NewJob(r, j) /\ UNCHANGED <<current, published>>
    BY <1>1 DEF Created
  <2>3. job'[j].release = r /\ active' = j /\ active' # Null
    BY <2>2, NewJobFacts
  <2>4. r # current
    BY <2>2, ReleaseAssumption DEF FreshRelease, IInv, PointersMatchCurrent, Null
  <2>5. release'[r] = row /\ \A q \in ReleaseId \ {r} : release'[q] = release[q]
    BY <2>1 DEF IInv, TypeOK
  <2>6. live' = live
    BY <2>2, <2>4, <2>5 DEF IInv, TypeOK
  <2>7. pending' = [site |-> row.site, articles |-> row.articles]
    BY <2>3, <2>5 DEF SnapshotOf
  <2> QED
    BY <2>2, <2>6, <2>7, StoredSnapshot DEF Serial!Start
<1>2. ASSUME NEW r \in ReleaseId, NEW j \in JobId, Retried(r, j)
      PROVE  Serial!Start
  <2>1. /\ active = Null /\ release[r].status = "failed" /\ NewJob(r, j)
        /\ UNCHANGED <<current, release, published>>
    BY <1>2 DEF Retried
  <2>2. job'[j].release = r /\ active' = j /\ active' # Null
    BY <2>1, NewJobFacts
  <2>3. release[r] \in ReleaseRow
    BY <2>1, StoredRelease DEF IInv
  <2>4. live' = live
    BY <2>1
  <2>5. pending' = [site |-> release[r].site, articles |-> release[r].articles]
    BY <2>1, <2>2 DEF SnapshotOf
  <2> QED
    BY <2>1, <2>3, <2>4, <2>5, StoredSnapshot DEF Serial!Start
<1>3. ASSUME NEW j \in JobId, NEW row \in JobRow, Reported(j, row)
      PROVE  UNCHANGED <<live, pending>>
  <2>1. /\ active = j /\ row.release = job[j].release
        /\ Attempt(j, row) /\ UNCHANGED <<current, active, release, published>>
    BY <1>3 DEF Reported, Attempt
  <2>2. job'[active].release = job[active].release
    BY <2>1, AttemptKeepsJobs
  <2> QED
    BY <2>1, <2>2 DEF SnapshotOf
<1>4. ASSUME NEW j \in JobId, NEW row \in JobRow, Succeeded(j, row)
      PROVE  Serial!Publish
  <2> DEFINE r == job[j].release
  <2>1. /\ Attempt(j, row) /\ active = j
        /\ release' = [release EXCEPT ![r].status = "success"]
        /\ PublishArticlePointers(r) /\ current' = r /\ active' = Null
    BY <1>4 DEF Succeeded, Succeed, CompleteRelease, Attempt
  <2>2. active # Null /\ r \in ReleaseId /\ release[r] \in ReleaseRow
    BY <2>1, ActiveAttempt
  <2>3. pending = [site |-> release[r].site, articles |-> release[r].articles]
    BY <2>1, <2>2 DEF SnapshotOf
  <2>4. release'[r].site = release[r].site
    BY <2>1, <2>2 DEF IInv, TypeOK, ReleaseRow
  <2>5. published' = release[r].articles
    <3>1. release[r].articles \in [Article -> Nat]
      BY <2>2 DEF ReleaseRow
    <3>2. published' = [a \in Article |-> release[r].articles[a]]
      BY <2>1, <3>1 DEF PublishArticlePointers, Null, IInv, TypeOK
    <3> QED
      BY <3>1, <3>2
  <2>6. current' # Null
    BY <2>1, <2>2, ReleaseAssumption DEF Null
  <2>7. live' = pending /\ pending' = NoRelease
    BY <2>1, <2>3, <2>4, <2>5, <2>6
  <2> QED
    BY <2>2, <2>3, <2>7, StoredSnapshot DEF Serial!Publish
<1>5. ASSUME NEW j \in JobId, NEW row \in JobRow, Failed(j, row)
      PROVE  Serial!Abandon
  <2> DEFINE r == job[j].release
  <2>1. /\ Attempt(j, row) /\ active = j
        /\ release' = [release EXCEPT ![r].status = "failed"]
        /\ active' = Null /\ UNCHANGED <<current, published>>
    BY <1>5 DEF Failed, Fail, CompleteRelease, Attempt
  <2>2. active # Null /\ r \in ReleaseId /\ release[r] \in ReleaseRow /\ r # current
    BY <2>1, ActiveAttempt
  <2>3. pending = [site |-> release[r].site, articles |-> release[r].articles]
    BY <2>1, <2>2 DEF SnapshotOf
  <2>4. live' = live
    BY <2>1, <2>2 DEF IInv, TypeOK
  <2> QED
    BY <2>1, <2>2, <2>3, <2>4, StoredSnapshot DEF Serial!Abandon
<1>6. CASE ContentStep
  BY <1>6 DEF ContentStep, Trash, Untrash, PutSite, SnapshotOf
<1> QED
  BY <1>1, <1>2, <1>3, <1>4, <1>5, <1>6 DEF Kind, Serial!SNext

(* Publishing is serial and atomic for any callers: the store implements   *)
(* SerialPublishing.                                                       *)
THEOREM StoreIsSerial == Spec => PublishingIsSerial
<1>1. Init => Serial!SInit
  BY DEF Init, Serial!SInit, NoArticles, live, pending
<1>2. IInv /\ [Next]_vars => [Serial!SNext]_(Serial!svars)
  <2> SUFFICES ASSUME IInv, [Next]_vars PROVE [Serial!SNext]_(Serial!svars)
    OBVIOUS
  <2>1. CASE Next
    BY <2>1, NextIsAKind, KindIsSerial DEF Serial!svars, live, pending
  <2>2. CASE UNCHANGED vars
    BY <2>2 DEF vars, Serial!svars, SnapshotOf, live, pending
  <2> QED
    BY <2>1, <2>2
<1> QED
  BY <1>1, <1>2, Invariance, PTL DEF Spec, PublishingIsSerial, Serial!SSpec

=============================================================================
