-------------------------- MODULE PublishingProofs --------------------------
(***************************************************************************)
(* Proofs about Publishing for every set of sessions, ids, build numbers   *)
(* and faults.                                                             *)
(*                                                                         *)
(* What the orchestrator, the pipeline and the operator do to the store    *)
(* are transactions of Release (EveryStepIsATransaction), so the theorems  *)
(* about the store hold here.  The rest relates the store to the web       *)
(* server.  A build is shown when it has passed the switch of the link and *)
(* may still be reported as deployed, or was; the heart is what is known   *)
(* of such a build (ShownWasDeployed), and that a run becomes one only by  *)
(* passing the switch (ShownBefore).                                       *)
(*                                                                         *)
(* Every step is described in parts, each of which is proved of PNext once *)
(* and used by the invariants it can disturb: what it does to the attempt  *)
(* (JobsMove), the runs (BuildsMove), the files (FilesMove), the callbacks *)
(* (MessagesMove) and the requests (RequestsMove).                         *)
(***************************************************************************)
EXTENDS Publishing, ReleaseProofs, FiniteSetTheorems, WellFoundedInduction

Started(b) == build[b].step # "none"
Stored(j)  == j \in JobId /\ job[j].status # "none"

\* Where a run is that has switched the link.
Past == {"prune", "succeed", "failing", "postfail", "done"}

\* Somebody may take build b for one that is deployed.
Shown(b) ==
    \/ build[b].step \in {"prune", "succeed"}
    \/ \E e \in sent : e.build = b /\ e.status = "success"
    \/ \E p \in Session : op[p].pc = "reconcile" /\ op[p].art.build = b
    \/ artifact.build = b
    \/ \E j \in JobId : job[j].status = "success" /\ job[j].build = b

Step == {"none", "validate", "bundle", "compile", "build", "deploy", "move", "link",
         "prune", "succeed", "failing", "postfail", "done"}

PTypeOK ==
    /\ op \in [Session -> [pc : {"idle", "reconcile", "create", "trigger", "compensate"},
                           art : Artifact \cup {NoFile}, job : JobId \cup {Null}]]
    /\ queue \subseteq JobId
    /\ build \in [BuildNumber -> [job : JobId \cup {Null}, step : Step,
                                  stage : {"queue", "build", "deploy"}]]
    /\ sent \subseteq CallbackEvent
    /\ dir \in [ReleaseId -> BuildNumber \cup {Null}]
    /\ touched \in [ReleaseId -> BuildNumber \cup {Null}]
    /\ link \in ReleaseId \cup {Null}
    /\ artifact \in Artifact \cup {NoFile}

\* Requests, the queue and the runs name stored attempts.
RequestsAreKnown ==
    /\ \A p \in Session :
          /\ op[p].pc \in {"trigger", "compensate"} => Stored(op[p].job)
          /\ op[p].pc = "reconcile" => op[p].art \in Artifact
    /\ \A j \in queue : Stored(j)
    /\ \A b \in BuildNumber : Started(b) => Stored(build[b].job)

\* The number an attempt has recorded is that of a run for it.
BuildsAreRecorded ==
    \A j \in JobId :
        /\ job[j].build # Null => Started(job[j].build) /\ build[job[j].build].job = j
        /\ job[j].status = "success" => job[j].build # Null

\* A callback on its way was sent by a run that is behind it.
SentIsReported ==
    \A e \in sent :
        /\ Started(e.build) /\ e.job = build[e.build].job /\ e.release = ReleaseOf(e.build)
        /\ e.status = "failed" => build[e.build].step \in {"postfail", "done"}
        /\ e.status = "success" => build[e.build].step = "done"

\* Jenkins runs the builds one after another, in the order of their numbers.
RunsInTurn ==
    \A b, c \in BuildNumber : c < b /\ Started(b) => build[c].step = "done"

\* The directories on the web server.
Kept == {r \in ReleaseId : touched[r] # Null}

\* Build b is that of an attempt which has been told to deploy.
WasDeploying(b) ==
    /\ Started(b)
    /\ job[build[b].job].build = b
    /\ job[build[b].job].status \in {"deploying", "success", "failed"}

DirectoriesAreMoved ==
    /\ IsFiniteSet(Kept)
    /\ "command" \notin Faults =>
          \A b \in BuildNumber : build[b].step = "link" => touched[ReleaseOf(b)] = b
    /\ \A r \in Kept : Started(touched[r])
    /\ \A r \in ReleaseId :
          /\ dir[r] = Null <=> touched[r] = Null
          /\ dir[r] # Null => WasDeploying(dir[r]) /\ ReleaseOf(dir[r]) = r

\* The directory that build b has moved is there, or was old enough to be removed.
InPlace(b) ==
    \/ "command" \in Faults
    \/ touched[ReleaseOf(b)] >= b
    \/ Overtaken(b)

\* What is known of a build that is shown.
ShownFacts(b) == WasDeploying(b) /\ build[b].step \in Past /\ InPlace(b)

ShownWasDeployed == \A b \in BuildNumber : Shown(b) => ShownFacts(b)

\* Every run that passes the switch leaves the link at its release, and nobody else
\* moves it.
Undisturbed == "rollback" \notin Faults /\ "command" \notin Faults

ActiveDeploys == active # Null /\ job[active].status = "deploying"

\* Then the link names the release of an attempt which is shown and not yet recorded.
ShownIsLinked ==
    Undisturbed /\ ActiveDeploys =>
        \A b \in BuildNumber :
            job[active].build = b /\ Shown(b) => link = job[active].release

\* The failure of build b has been reported, or is going to be.
FailureIsReported(b) ==
    \/ build[b].step \in {"failing", "postfail"}
    \/ \E e \in sent : e.build = b /\ e.status = "failed"

\* An attempt that has switched the link does not fail when nothing fails behind it.
SwitchedHasNotFailed ==
    Undisturbed /\ "prune" \notin Faults /\ ActiveDeploys /\ link = job[active].release =>
        \E b \in BuildNumber :
            /\ job[active].build = b
            /\ build[b].step \in {"prune", "succeed", "done"}
            /\ ~FailureIsReported(b)

PInv ==
    /\ IInv
    /\ PTypeOK
    /\ RequestsAreKnown
    /\ BuildsAreRecorded
    /\ SentIsReported
    /\ OnlyActiveBuildDeploys
    /\ RunsInTurn
    /\ DirectoriesAreMoved
    /\ ShownWasDeployed
    /\ ShownIsLinked
    /\ SwitchedHasNotFailed
    /\ LinkIsAccounted

-----------------------------------------------------------------------------
(* Ids, rows and callbacks.                                                *)

LEMMA NullIsNoId ==
    /\ Null \notin ReleaseId /\ Null \notin JobId /\ Null \notin BuildNumber
    /\ 1 \in Time /\ 2 \in Time /\ 3 \in Time
BY ReleaseAssumption, PublishingAssumption DEF Null

\* A stored attempt is a row of its release.
LEMMA StoredRow ==
    ASSUME TypeOK, NEW j, Stored(j)
    PROVE  /\ job[j].release \in ReleaseId /\ job[j].release # Null
           /\ job[j].status \in JobStatus
           /\ j \in JobsOf(job[j].release)
BY StoredJob, NullIsNoId DEF Stored, JobRow, JobsOf

\* An id that names no row names no release and no build.
LEMMA UnstoredRow ==
    ASSUME TypeOK, NEW j \in JobId, job[j].status = "none" \/ job[j].release = Null
    PROVE  job[j] = NoJob /\ job[j].build = Null
<1>1. job[j] \in JobRow \cup {NoJob}
  BY DEF TypeOK
<1>2. job[j] \notin JobRow
  BY NullIsNoId DEF JobRow, JobStatus
<1> QED BY <1>1, <1>2 DEF NoJob

\* A run that has been started is one for a stored attempt.
LEMMA StartedRun ==
    ASSUME PInv, NEW b \in BuildNumber, Started(b)
    PROVE  /\ Stored(build[b].job) /\ build[b].job \in JobId
           /\ ReleaseOf(b) \in ReleaseId
           /\ build[b].job \in JobsOf(ReleaseOf(b))
BY StoredRow DEF PInv, IInv, RequestsAreKnown, ReleaseOf, Stored

\* What the pipeline reports is a callback the service knows.
LEMMA ReportIsAnEvent ==
    ASSUME PInv, NEW b \in BuildNumber, build[b].step \in Reporting
    PROVE  /\ Report(b) \in CallbackEvent
           /\ Report(b).build = b /\ Report(b).job = build[b].job
           /\ Report(b).release = ReleaseOf(b)
           /\ Report(b).status = "failed" => build[b].step \in {"failing", "postfail"}
           /\ Report(b).status = "success" => build[b].step = "succeed"
           /\ Report(b).status = "deploying" <=> build[b].step = "deploy"
           /\ Started(b)
<1> DEFINE status == CASE build[b].step = "validate" -> "queued"
                       [] build[b].step = "compile"  -> "building"
                       [] build[b].step = "deploy"   -> "deploying"
                       [] build[b].step = "succeed"  -> "success"
                       [] OTHER                      -> "failed"
           stage  == CASE build[b].step \in {"validate", "postfail"} -> "queue"
                       [] build[b].step = "compile"                  -> "build"
                       [] build[b].step \in {"deploy", "succeed"}    -> "deploy"
                       [] OTHER                                      -> build[b].stage
           at     == IF build[b].step = "failing" THEN 2 ELSE 3
<1>1. Report(b) = [release |-> ReleaseOf(b), job |-> build[b].job, build |-> b,
                   status |-> status, stage |-> stage, at |-> at]
  BY DEF Report
<1>2. Started(b)
  BY DEF Started, Reporting
<1>3. build[b].stage \in {"queue", "build", "deploy"}
  BY DEF PInv, PTypeOK
<1>4. <<status, stage>> \in CallbackKind
  BY <1>3 DEF CallbackKind, Reporting
<1>5. at \in Time
  BY NullIsNoId
<1>6. ReleaseOf(b) \in ReleaseId /\ build[b].job \in JobId
  BY <1>2, StartedRun
<1>7. Report(b) \in CallbackEvent
  <2>1. <<status, stage>>[1] = status /\ <<status, stage>>[2] = stage
    OBVIOUS
  <2> HIDE DEF status, stage, at
  <2> QED BY <1>1, <1>4, <1>5, <1>6, <2>1 DEF CallbackEvent
<1>8. /\ status = "failed" => build[b].step \in {"failing", "postfail"}
      /\ status = "success" => build[b].step = "succeed"
      /\ status = "deploying" <=> build[b].step = "deploy"
  BY DEF Reporting
<1> HIDE DEF status, stage, at
<1> QED BY <1>1, <1>2, <1>7, <1>8

\* A callback that may reach the service now.
Presented(e) ==
    \/ e \in sent
    \/ \E b \in BuildNumber : build[b].step \in Reporting /\ e = Report(b)

LEMMA PresentedCallback ==
    ASSUME PInv, NEW e, Presented(e)
    PROVE  /\ e \in CallbackEvent /\ e.build \in BuildNumber
           /\ Started(e.build) /\ e.job = build[e.build].job /\ e.release = ReleaseOf(e.build)
           /\ e.status = "success" => Shown(e.build)
           /\ e.status = "failed" =>
                 /\ build[e.build].step \in {"failing", "postfail", "done"}
                 /\ FailureIsReported(e.build)
<1>1. CASE e \in sent
  <2>1. e \in CallbackEvent
    BY <1>1 DEF PInv, PTypeOK
  <2>2. e.build \in BuildNumber
    BY <2>1, CallbackEventTypes
  <2>3. /\ Started(e.build) /\ e.job = build[e.build].job /\ e.release = ReleaseOf(e.build)
        /\ e.status = "failed" => build[e.build].step \in {"postfail", "done"}
    BY <1>1 DEF PInv, SentIsReported
  <2>4. e.status = "success" => Shown(e.build)
    BY <1>1 DEF Shown
  <2>5. e.status = "failed" => FailureIsReported(e.build)
    BY <1>1 DEF FailureIsReported
  <2> QED BY <2>1, <2>2, <2>3, <2>4, <2>5
<1>2. ASSUME NEW b \in BuildNumber, build[b].step \in Reporting, e = Report(b)
      PROVE  /\ e \in CallbackEvent /\ e.build = b
             /\ Started(b) /\ e.job = build[b].job /\ e.release = ReleaseOf(b)
             /\ e.status = "success" => Shown(b)
             /\ e.status = "failed" => /\ build[b].step \in {"failing", "postfail", "done"}
                                       /\ FailureIsReported(b)
  <2>1. /\ e \in CallbackEvent /\ e.build = b
        /\ Started(b) /\ e.job = build[b].job /\ e.release = ReleaseOf(b)
        /\ e.status = "failed" => build[b].step \in {"failing", "postfail"}
        /\ e.status = "success" => build[b].step = "succeed"
    BY <1>2, ReportIsAnEvent
  <2>2. e.status = "success" => Shown(b)
    BY <2>1 DEF Shown
  <2>3. e.status = "failed" => FailureIsReported(b)
    BY <2>1 DEF FailureIsReported
  <2> QED BY <2>1, <2>2, <2>3
<1>3. CASE \E b \in BuildNumber : build[b].step \in Reporting /\ e = Report(b)
  <2>1. PICK b \in BuildNumber : build[b].step \in Reporting /\ e = Report(b)
    BY <1>3
  <2>2. /\ e \in CallbackEvent /\ e.build = b
        /\ Started(b) /\ e.job = build[b].job /\ e.release = ReleaseOf(b)
        /\ e.status = "success" => Shown(b)
        /\ e.status = "failed" => /\ build[b].step \in {"failing", "postfail", "done"}
                                  /\ FailureIsReported(b)
    BY <1>2, <2>1
  <2> QED BY <2>1, <2>2
<1> QED BY <1>1, <1>3 DEF Presented

\* The artifact that the service reads is that of a shown build.
LEMMA ArtifactIsShown ==
    ASSUME PInv, artifact # NoFile
    PROVE  /\ artifact \in Artifact /\ artifact.release \in ReleaseId
           /\ artifact.build \in BuildNumber /\ Shown(artifact.build)
<1>1. artifact \in Artifact
  BY DEF PInv, PTypeOK
<1>2. Shown(artifact.build)
  BY DEF Shown
<1> QED BY <1>1, <1>2 DEF Artifact

\* So is what a request has read.
LEMMA ReadArtifactIsShown ==
    ASSUME PInv, NEW p \in Session, op[p].pc = "reconcile"
    PROVE  /\ op[p].art \in Artifact /\ op[p].art.release \in ReleaseId
           /\ op[p].art.build \in BuildNumber /\ Shown(op[p].art.build)
<1>1. op[p].art \in Artifact
  BY DEF PInv, RequestsAreKnown
<1>2. Shown(op[p].art.build)
  BY DEF Shown
<1> QED BY <1>1, <1>2 DEF Artifact

-----------------------------------------------------------------------------
(* What a step does to the attempts.                                       *)

\* Attempt j gets this status and build number.
JobChanges(j, status, b) ==
    /\ j \in JobId
    /\ job'[j].status = status /\ job'[j].build = b
    /\ \A k \in JobId \ {j} : job'[k] = job[k]

StoreRests == UNCHANGED <<current, active, job>>

AttemptBegins(j) ==
    /\ active = Null /\ job[j].status = "none"
    /\ JobChanges(j, "pending", Null)
    /\ active' = j /\ current' = current

TriggerFails(j) ==
    /\ active = j /\ job[j].status = "pending"
    /\ JobChanges(j, "failed", job[j].build)
    /\ active' = Null /\ current' = current

\* Run b holds the lock, and the attempt has its number or none.
Holds(b) ==
    /\ b \in BuildNumber /\ Started(b) /\ active = build[b].job
    /\ job[active].build \in {Null, b}

AttemptGoesOn(b, status) ==
    /\ Holds(b) /\ job[active].status \in {"pending", "queued", "building"}
    /\ status \in {"queued", "building", "deploying"}
    /\ JobChanges(active, status, b)
    /\ UNCHANGED <<current, active>>

AttemptSucceeds(b) ==
    /\ Holds(b) /\ job[active].status = "deploying" /\ Shown(b)
    /\ JobChanges(active, "success", b)
    /\ active' = Null /\ current' = job[active].release

AttemptFails(b) ==
    /\ Holds(b) /\ job[active].status \in {"pending", "deploying"}
    /\ build[b].step \in {"failing", "postfail", "done"} /\ FailureIsReported(b)
    /\ JobChanges(active, "failed", b)
    /\ active' = Null /\ current' = current

JobsMove ==
    \/ StoreRests
    \/ \E j \in JobId : AttemptBegins(j) \/ TriggerFails(j)
    \/ \E b \in BuildNumber, status \in JobStatus : AttemptGoesOn(b, status)
    \/ \E b \in BuildNumber : AttemptSucceeds(b) \/ AttemptFails(b)

\* RecordJob changes one row.
LEMMA RecordedRow ==
    ASSUME TypeOK, NEW j, Stored(j), NEW status, NEW stage, NEW b, NEW at,
           RecordJob(j, status, stage, b, at)
    PROVE  JobChanges(j, status, b)
<1>1. job[j] \in JobRow /\ j \in JobId /\ job \in [JobId -> JobRow \cup {NoJob}]
  BY StoredJob DEF Stored, TypeOK
<1> QED BY <1>1 DEF RecordJob, JobChanges, JobRow

\* A transaction of a callback moves its attempt by what it reports.
LEMMA CallbackMovesJob ==
    ASSUME PInv, NEW e, Presented(e), ApplyCallbackLocked(e)
    PROVE  /\ JobsMove
           /\ JobChanges(e.job, e.status, e.build)
           /\ e.status = "deploying" => active' = e.job
<1> DEFINE b == e.build
<1>1. /\ e \in CallbackEvent /\ b \in BuildNumber
      /\ Started(b) /\ e.job = build[b].job /\ e.release = ReleaseOf(b)
      /\ e.status = "success" => Shown(b)
      /\ e.status = "failed" => /\ build[b].step \in {"failing", "postfail", "done"}
                                /\ FailureIsReported(b)
  BY PresentedCallback
<1>2. /\ active = e.job /\ e.job \in JobsOf(e.release)
      /\ AllowedTransition(job[active].status, e.status)
      /\ job[active].build \in {Null, b}
  BY AppliedCallback DEF ApplyCallbackLocked, CallbackBuildNumber
<1>3. Stored(active) /\ Holds(b) /\ job[active].release = e.release
  BY <1>1, <1>2 DEF Stored, JobsOf, Holds
<1>4. JobChanges(active, e.status, b)
  BY <1>2, <1>3, RecordedRow DEF ApplyCallbackLocked, PInv, IInv
<1>5. e.status \in JobStatus
  BY <1>1, CallbackEventTypes
<1>6. CASE e.status = "success"
  <2>1. job[active].status = "deploying"
    BY <1>2, <1>6 DEF AllowedTransition
  <2>2. active' = Null /\ current' = job[active].release
    BY <1>3, <1>6 DEF ApplyCallbackLocked, Succeed, FinalJobStatus
  <2> QED BY <1>1, <1>2, <1>3, <1>4, <1>6, <2>1, <2>2 DEF AttemptSucceeds, JobsMove
<1>7. CASE e.status = "failed"
  <2>1. job[active].status \in {"pending", "deploying"}
    BY <1>2, <1>7 DEF AllowedTransition
  <2>2. active' = Null /\ current' = current
    BY <1>3, <1>7 DEF ApplyCallbackLocked, Fail, FinalJobStatus
  <2>3. AttemptFails(b)
    BY <1>1, <1>3, <1>4, <1>7, <2>1, <2>2 DEF AttemptFails
  <2> QED BY <1>1, <1>2, <1>4, <1>7, <2>3 DEF JobsMove
<1>8. CASE ~FinalJobStatus(e.status)
  <2>1. /\ job[active].status \in {"pending", "queued", "building"}
        /\ e.status \in {"queued", "building", "deploying"}
    BY <1>2, <1>8 DEF AllowedTransition, FinalJobStatus
  <2>2. UNCHANGED <<current, active>>
    BY <1>8 DEF ApplyCallbackLocked, FinalJobStatus
  <2>3. AttemptGoesOn(b, e.status)
    BY <1>3, <1>4, <2>1, <2>2 DEF AttemptGoesOn
  <2> QED BY <1>1, <1>2, <1>4, <1>5, <2>2, <2>3 DEF JobsMove
<1> QED BY <1>6, <1>7, <1>8 DEF FinalJobStatus

\* A reconciliation with the artifact of a shown build ends the attempt that has its number.
LEMMA ReconciliationMovesJob ==
    ASSUME PInv, NEW art \in Artifact, Shown(art.build), ReconcileLocked(art)
    PROVE  JobsMove
<1>1. Reconcilable(art)
  BY DEF ReconcileLocked, ReconcileAnswer
<1>2. /\ active # Null /\ active \in JobsOf(art.release) /\ job[active].status = "deploying"
      /\ job[active].build = art.build /\ art.build \in BuildNumber
  BY <1>1 DEF Reconcilable, Artifact
<1>3. Stored(active) /\ job[active].release = art.release
  BY <1>2 DEF Stored, JobsOf
<1>4. Holds(art.build)
  BY <1>2, <1>3, NullIsNoId DEF PInv, BuildsAreRecorded, Holds, Stored
<1>5. JobChanges(active, "success", art.build)
  BY <1>3, RecordedRow DEF ReconcileLocked, PInv, IInv
<1>6. active' = Null /\ current' = job[active].release
  BY <1>3 DEF ReconcileLocked, Succeed
<1> QED BY <1>2, <1>4, <1>5, <1>6 DEF AttemptSucceeds, JobsMove

LEMMA CompensationMovesJob ==
    ASSUME PInv, NEW j, Stored(j), FailTriggerLocked(j, 1)
    PROVE  JobsMove
<1>1. JobChanges(j, "failed", job[j].build)
  BY RecordedRow DEF FailTriggerLocked, PInv, IInv
<1>2. active = j /\ job[j].status = "pending" /\ active' = Null /\ current' = current
  BY DEF FailTriggerLocked, Fail
<1> QED BY <1>1, <1>2 DEF TriggerFails, JobsMove, JobChanges

LEMMA CreationMovesJob ==
    ASSUME PInv,
           \/ \E mode \in PublishMode, a \in Article : CreateLocked(mode, a)
           \/ \E r \in ReleaseId : CreateRetryLocked(r)
    PROVE  JobsMove /\ Stored(active)'
<1>1. PICK r \in ReleaseId : InsertPublishJob(r) /\ active = Null /\ current' = current
  BY DEF CreateLocked, CreateRetryLocked
<1>2. PICK j \in JobId : FreshJob(j) /\ job' = [job EXCEPT ![j] = InitialJob(r)] /\ active' = j
  BY <1>1 DEF InsertPublishJob
<1>3. job[j].status = "none"
  BY <1>2, ReleaseAssumption DEF FreshJob
<1>4. JobChanges(j, "pending", Null)
  BY <1>2 DEF JobChanges, InitialJob, NoJob, PInv, IInv, TypeOK
<1>5. AttemptBegins(j)
  BY <1>1, <1>2, <1>3, <1>4 DEF AttemptBegins
<1>6. active' \in JobId /\ job'[active'].status = "pending"
  BY <1>2, <1>4 DEF JobChanges
<1> QED BY <1>5, <1>6 DEF JobsMove, Stored

\* The steps of the service leave the pipeline and the web server alone.
ServiceStep ==
    \/ \E p \in Session : SessionStep(p)
    \/ \E b \in BuildNumber : Unheard(b)
    \/ \E e \in sent : LateDelivery(e)
    \/ Crash \/ Restart
    \/ up /\ ContentStep /\ UNCHANGED env
    \/ UNCHANGED pvars

\* The steps of Jenkins and of the operator leave the requests alone, and all but
\* Answered leave the store alone.
PipelineStep ==
    \/ \E b \in BuildNumber : \/ StartBuild(b) \/ GivenUp(b) \/ DownloadBundle(b) \/ BuildSite(b)
                             \/ MoveDirectory(b) \/ SwitchLink(b) \/ Prune(b)
                             \/ Abort(b) \/ Rebuild(b) \/ CopyArtifact(b)
    \/ \E r \in ReleaseId : Rollback(r)

LEMMA StepSplits ==
    ASSUME [PNext]_pvars
    PROVE  ServiceStep \/ PipelineStep \/ \E b \in BuildNumber : Answered(b)
BY DEF PNext, BuildStep, ServiceStep, PipelineStep

LEMMA ServiceLeavesPipeline ==
    ASSUME ServiceStep
    PROVE  UNCHANGED <<build, sent, dir, touched, link, artifact>>
BY DEF ServiceStep, SessionStep, ReadArtifact, Reconcile, Refuse, Commit, Trigger, Compensate,
       Unheard, LateDelivery, Crash, Restart, env, web, pvars

LEMMA PipelineLeavesService ==
    ASSUME PipelineStep
    PROVE  UNCHANGED store /\ UNCHANGED <<up, op>> /\ StoreRests
<1>1. UNCHANGED store /\ UNCHANGED <<up, op>>
  BY DEF PipelineStep, StartBuild, GivenUp, DownloadBundle, BuildSite, MoveDirectory,
         SwitchLink, Prune, Abort, Rebuild, CopyArtifact, Rollback
<1> QED BY <1>1 DEF store, vars, StoreRests

\* Whatever the service does is a transaction of the store or none, and moves attempts as said.
LEMMA ServiceMovesJobs ==
    ASSUME PInv, ServiceStep
    PROVE  [Next]_vars /\ JobsMove
<1>1. ASSUME UNCHANGED store PROVE [Next]_vars /\ JobsMove
  BY <1>1 DEF store, vars, JobsMove, StoreRests
<1>2. ASSUME NEW e, Presented(e), ApplyCallbackLocked(e) PROVE [Next]_vars /\ JobsMove
  BY <1>2, PresentedCallback, CallbackMovesJob DEF Next
<1>3. ASSUME NEW art \in Artifact, Shown(art.build), ReconcileLocked(art) PROVE [Next]_vars /\ JobsMove
  BY <1>3, ReconciliationMovesJob DEF Next
<1>4. ASSUME NEW p \in Session, ReadArtifact(p) \/ Refuse(p) \/ Trigger(p) PROVE UNCHANGED store
  BY <1>4 DEF ReadArtifact, Refuse, Trigger
<1>5. ASSUME NEW p \in Session, Reconcile(p) PROVE [Next]_vars /\ JobsMove
  BY <1>1, <1>3, <1>5, ReadArtifactIsShown DEF Reconcile
<1>6. ASSUME NEW p \in Session, Commit(p) PROVE [Next]_vars /\ JobsMove
  BY <1>6, CreationMovesJob DEF Commit, Next
<1>7. ASSUME NEW p \in Session, Compensate(p) PROVE [Next]_vars /\ JobsMove
  <2>1. Stored(op[p].job)
    BY <1>7 DEF PInv, RequestsAreKnown, Compensate
  <2>2. CASE FailTriggerLocked(op[p].job, 1)
    BY <2>1, <2>2, CompensationMovesJob, NullIsNoId DEF Next, Stored
  <2> QED BY <1>1, <1>7, <2>2 DEF Compensate
<1>8. ASSUME NEW b \in BuildNumber, Unheard(b) PROVE [Next]_vars /\ JobsMove
  BY <1>2, <1>8 DEF Unheard, Presented
<1>9. ASSUME NEW e \in sent, LateDelivery(e) PROVE [Next]_vars /\ JobsMove
  BY <1>2, <1>9 DEF LateDelivery, Presented
<1>10. CASE Restart
  BY <1>1, <1>3, <1>10, ArtifactIsShown DEF Restart
<1>11. CASE ContentStep
  BY <1>11 DEF Next, ContentStep, Trash, Untrash, PutSite, JobsMove, StoreRests
<1>12. CASE Crash \/ UNCHANGED pvars
  BY <1>1, <1>12 DEF Crash, pvars
<1> QED BY <1>1, <1>4, <1>5, <1>6, <1>7, <1>8, <1>9, <1>10, <1>11, <1>12 DEF ServiceStep, SessionStep

\* So does the answer of a callback.
LEMMA AnswerMovesJobs ==
    ASSUME PInv, NEW b \in BuildNumber, Answered(b)
    PROVE  [Next]_vars /\ JobsMove
<1>1. Presented(Report(b))
  BY DEF Answered, Presented
<1>2. CASE ApplyCallbackLocked(Report(b))
  BY <1>1, <1>2, PresentedCallback, CallbackMovesJob DEF Next
<1>3. CASE UNCHANGED store
  BY <1>3 DEF store, vars, JobsMove, StoreRests
<1> QED BY <1>2, <1>3 DEF Answered

\* Every step of the whole system is a transaction of the store, or none.
LEMMA EveryStepIsATransaction ==
    ASSUME PInv, [PNext]_pvars
    PROVE  [Next]_vars /\ JobsMove /\ IInv'
<1>1. [Next]_vars /\ JobsMove
  BY StepSplits, ServiceMovesJobs, AnswerMovesJobs, PipelineLeavesService
     DEF store, JobsMove
<1> QED BY <1>1, StepInv DEF PInv

-----------------------------------------------------------------------------
(* What a step does to the runs.                                           *)

Follows(from, to) ==
    \/ from = "validate" /\ to \in {"bundle", "postfail"}
    \/ from = "bundle"   /\ to \in {"compile", "failing"}
    \/ from = "compile"  /\ to \in {"build", "failing"}
    \/ from = "build"    /\ to \in {"deploy", "failing"}
    \/ from = "deploy"   /\ to \in {"move", "failing"}
    \/ from = "move"     /\ to \in {"link", "failing"}
    \/ from = "link"     /\ to \in {"prune", "failing"}
    \/ from = "prune"    /\ (to = "succeed" \/ (to = "failing" /\ "prune" \in Faults))
    \/ from = "failing"  /\ to = "postfail"
    \/ from # "none"     /\ to = "done"

RunMoves(b) ==
    \/ build'[b] = build[b]
    \/ /\ ~Started(b) /\ build'[b].step = "validate" /\ build'[b].job \in queue
       /\ \A c \in BuildNumber : c < b => build[c].step = "done"
    \/ build'[b].job = build[b].job /\ Follows(build[b].step, build'[b].step)

\* Files are moved for the attempt that holds the lock and has been told so.
MoveIsAnnounced(b) ==
    build[b].step # "move" /\ build'[b].step = "move" =>
        /\ active' = build[b].job
        /\ job'[active'].status = "deploying" /\ job'[active'].build = b

BuildsMove ==
    /\ build' \in [BuildNumber -> [job : JobId \cup {Null}, step : Step,
                                   stage : {"queue", "build", "deploy"}]]
    /\ \A b \in BuildNumber : RunMoves(b) /\ MoveIsAnnounced(b)

\* A run that reports goes where the answer sends it.
LEMMA ReportsFollow ==
    ASSUME NEW b \in BuildNumber, Answered(b) \/ GivenUp(b)
    PROVE  \E to :
              /\ build[b].step \in Reporting /\ MoveTo(b, to) /\ Follows(build[b].step, to)
              /\ to \notin {"link", "prune"}
              /\ to = "move" => /\ build[b].step = "deploy" /\ Answered(b)
                               /\ CallbackAnswer(Report(b)) \in {"applied", "duplicate"}
              /\ GivenUp(b) => to = AfterReport(build[b].step, FALSE)
<1>1. build[b].step \in Reporting
  BY DEF Answered, GivenUp
<1>2. CASE GivenUp(b)
  <2> DEFINE to == AfterReport(build[b].step, FALSE)
  <2>1. MoveTo(b, to)
    BY <1>2 DEF GivenUp
  <2>2. Follows(build[b].step, to) /\ to \notin {"move", "link", "prune"}
    BY <1>1 DEF AfterReport, Follows, Reporting
  <2> HIDE DEF to
  <2> QED BY <1>1, <2>1, <2>2 DEF to
<1>3. CASE Answered(b) /\ ~GivenUp(b)
  <2> DEFINE accepted == CallbackAnswer(Report(b)) \in {"applied", "duplicate"}
             to == AfterReport(build[b].step, accepted)
  <2>1. MoveTo(b, to)
    BY <1>3 DEF Answered
  <2>2. /\ Follows(build[b].step, to) /\ to \notin {"link", "prune"}
        /\ to = "move" => build[b].step = "deploy" /\ accepted
    BY <1>1 DEF AfterReport, Follows, Reporting
  <2>3. to = "move" => CallbackAnswer(Report(b)) \in {"applied", "duplicate"}
    BY <2>2
  <2> HIDE DEF to, accepted
  <2> QED BY <1>1, <1>3, <2>1, <2>2, <2>3
<1> QED BY <1>2, <1>3

\* One run moves on, the others stay where they are.
LEMMA MovedRun ==
    ASSUME PTypeOK, NEW b \in BuildNumber, NEW to, Follows(build[b].step, to), MoveTo(b, to)
    PROVE  /\ build' \in [BuildNumber -> [job : JobId \cup {Null}, step : Step,
                                          stage : {"queue", "build", "deploy"}]]
           /\ build'[b].step = to /\ build'[b].job = build[b].job
           /\ \A c \in BuildNumber \ {b} : build'[c] = build[c]
           /\ \A c \in BuildNumber : RunMoves(c)
<1>1. /\ build[b] \in [job : JobId \cup {Null}, step : Step, stage : {"queue", "build", "deploy"}]
      /\ to \in Step
  BY DEF PTypeOK, Follows, Step
<1>2. StageOf(build[b].step) \in {"queue", "build", "deploy"}
  BY DEF StageOf
<1>3. /\ build'[b] \in [job : JobId \cup {Null}, step : Step, stage : {"queue", "build", "deploy"}]
      /\ build'[b].step = to /\ build'[b].job = build[b].job
      /\ \A c \in BuildNumber \ {b} : build'[c] = build[c]
      /\ build' = [c \in BuildNumber |-> build'[c]]
  BY <1>1, <1>2 DEF MoveTo, PTypeOK
<1>4. \A c \in BuildNumber : RunMoves(c)
  BY <1>3 DEF RunMoves
<1> QED BY <1>3, <1>4 DEF PTypeOK

\* The steps of a run that report nothing.
LocalStep(b) == \/ DownloadBundle(b) \/ BuildSite(b) \/ MoveDirectory(b)
                \/ SwitchLink(b) \/ Prune(b) \/ Abort(b)

LEMMA LocalStepsFollow ==
    ASSUME PTypeOK, NEW b \in BuildNumber, LocalStep(b)
    PROVE  \E to : /\ MoveTo(b, to) /\ Follows(build[b].step, to) /\ to # "move"
                   /\ to = "link" => MoveDirectory(b)
                   /\ to = "prune" => SwitchLink(b)
<1>1. ASSUME NEW to, MoveTo(b, to), Follows(build[b].step, to), to \notin {"move", "link", "prune"}
      PROVE  \E t : /\ MoveTo(b, t) /\ Follows(build[b].step, t) /\ t # "move"
                    /\ t = "link" => MoveDirectory(b)
                    /\ t = "prune" => SwitchLink(b)
  BY <1>1
<1>2. CASE DownloadBundle(b)
  <2>1. build[b].step = "bundle" /\ (MoveTo(b, "compile") \/ MoveTo(b, "failing"))
    BY <1>2 DEF DownloadBundle
  <2> QED BY <1>1, <2>1 DEF Follows
<1>3. CASE BuildSite(b)
  <2>1. build[b].step = "build" /\ (MoveTo(b, "deploy") \/ MoveTo(b, "failing"))
    BY <1>3 DEF BuildSite
  <2> QED BY <1>1, <2>1 DEF Follows
<1>4. CASE MoveDirectory(b)
  <2>1. build[b].step = "move" /\ (MoveTo(b, "link") \/ MoveTo(b, "failing"))
    BY <1>4 DEF MoveDirectory
  <2>2. CASE MoveTo(b, "link")
    BY <1>4, <2>1, <2>2 DEF Follows
  <2> QED BY <1>1, <2>1, <2>2 DEF Follows
<1>5. CASE SwitchLink(b)
  <2>1. build[b].step = "link" /\ (MoveTo(b, "prune") \/ MoveTo(b, "failing"))
    BY <1>5 DEF SwitchLink
  <2>2. CASE MoveTo(b, "prune")
    BY <1>5, <2>1, <2>2 DEF Follows
  <2> QED BY <1>1, <2>1, <2>2 DEF Follows
<1>6. CASE Prune(b)
  <2>1. build[b].step = "prune" /\ (MoveTo(b, "succeed") \/ ("prune" \in Faults /\ MoveTo(b, "failing")))
    BY <1>6 DEF Prune
  <2> QED BY <1>1, <2>1 DEF Follows
<1>7. CASE Abort(b)
  <2>1. build[b].step # "none" /\ MoveTo(b, "done")
    BY <1>7 DEF Abort, Running
  <2> QED BY <1>1, <2>1 DEF Follows
<1> QED BY <1>2, <1>3, <1>4, <1>5, <1>6, <1>7 DEF LocalStep

\* The steps of a run that ask the service nothing, or get no answer.
LEMMA PipelineMovesRuns ==
    ASSUME PInv, PipelineStep, \A b \in BuildNumber : ~Answered(b)
    PROVE  BuildsMove
<1>1. PTypeOK
  BY DEF PInv
<1>2. ASSUME NEW b \in BuildNumber, NEW to, MoveTo(b, to), Follows(build[b].step, to),
             to = "move" => build[b].step = "move"
      PROVE  BuildsMove
  BY <1>1, <1>2, MovedRun DEF BuildsMove, MoveIsAnnounced
<1>3. ASSUME NEW b \in BuildNumber, GivenUp(b), ~Answered(b) PROVE BuildsMove
  <2>1. PICK to : MoveTo(b, to) /\ Follows(build[b].step, to) /\ to # "move"
    BY <1>3, ReportsFollow
  <2> QED BY <1>2, <2>1
<1>4. ASSUME NEW b \in BuildNumber, LocalStep(b) PROVE BuildsMove
  <2>1. PICK to : MoveTo(b, to) /\ Follows(build[b].step, to) /\ to # "move"
    BY <1>1, <1>4, LocalStepsFollow
  <2> QED BY <1>2, <2>1
<1>5. ASSUME NEW b \in BuildNumber, StartBuild(b) PROVE BuildsMove
  <2>1. PICK j \in queue : build' = [build EXCEPT ![b] = [NoBuild EXCEPT !.job = j, !.step = "validate"]]
    BY <1>5 DEF StartBuild
  <2>2. /\ [NoBuild EXCEPT !.job = j, !.step = "validate"]
                \in [job : JobId \cup {Null}, step : Step, stage : {"queue", "build", "deploy"}]
        /\ [NoBuild EXCEPT !.job = j, !.step = "validate"].job = j
        /\ [NoBuild EXCEPT !.job = j, !.step = "validate"].step = "validate"
    BY <1>1 DEF NoBuild, PTypeOK, Step
  <2>3. ~Started(b) /\ \A c \in BuildNumber : c < b => build[c].step = "done"
    BY <1>5 DEF StartBuild, Started
  <2>4. /\ build' \in [BuildNumber -> [job : JobId \cup {Null}, step : Step,
                                       stage : {"queue", "build", "deploy"}]]
        /\ build'[b].job = j /\ build'[b].step = "validate"
        /\ \A c \in BuildNumber \ {b} : build'[c] = build[c]
    BY <1>1, <2>1, <2>2 DEF PTypeOK
  <2> QED BY <2>3, <2>4 DEF BuildsMove, RunMoves, MoveIsAnnounced
<1>6. ASSUME UNCHANGED build PROVE BuildsMove
  BY <1>1, <1>6 DEF BuildsMove, RunMoves, MoveIsAnnounced, PTypeOK
<1>7. ASSUME NEW b \in BuildNumber, Rebuild(b) \/ CopyArtifact(b) PROVE BuildsMove
  BY <1>6, <1>7 DEF Rebuild, CopyArtifact
<1>8. ASSUME NEW r \in ReleaseId, Rollback(r) PROVE BuildsMove
  BY <1>6, <1>8 DEF Rollback
<1> QED BY <1>3, <1>4, <1>5, <1>7, <1>8 DEF PipelineStep, LocalStep

\* A callback that is answered "duplicate" is recorded already.
LEMMA DuplicateCallback ==
    ASSUME NEW e, CallbackAnswer(e) = "duplicate"
    PROVE  e.job \in JobsOf(e.release) /\ CallbackMatches(job[e.job], e)
BY DEF CallbackAnswer

\* An answered run moves files when the attempt is deploying, under its number.
LEMMA AnswerMovesRuns ==
    ASSUME PInv, NEW b \in BuildNumber, Answered(b)
    PROVE  BuildsMove
<1> DEFINE e == Report(b)
<1>1. PICK to :
         /\ build[b].step \in Reporting /\ MoveTo(b, to) /\ Follows(build[b].step, to)
         /\ to = "move" => /\ build[b].step = "deploy"
                          /\ CallbackAnswer(e) \in {"applied", "duplicate"}
  BY ReportsFollow
<1>2. /\ e.build = b /\ e.job = build[b].job
      /\ e.status = "deploying" <=> build[b].step = "deploy"
  BY <1>1, ReportIsAnEvent
<1>3. ASSUME to = "move"
      PROVE  /\ active' = build[b].job
             /\ job'[active'].status = "deploying" /\ job'[active'].build = b
  <2>1. CASE ApplyCallbackLocked(e)
    BY <1>1, <1>2, <1>3, <2>1, CallbackMovesJob DEF Presented, JobChanges
  <2>2. CASE CallbackAnswer(e) # "applied" /\ UNCHANGED store
    <3>1. e.job \in JobsOf(e.release) /\ CallbackMatches(job[e.job], e)
      BY <1>1, <1>3, <2>2, DuplicateCallback
    <3>2. e.job \in JobId /\ job[e.job].status = "deploying" /\ job[e.job].build = b
      BY <1>1, <1>2, <1>3, <3>1 DEF CallbackMatches, JobsOf
    <3>3. active = e.job
      BY <3>2 DEF PInv, IInv, SingleActiveJob, InFlight, JobStatus
    <3> QED BY <1>2, <2>2, <3>2, <3>3 DEF store, vars
  <2> QED BY <2>1, <2>2 DEF Answered
<1> HIDE DEF e
<1>4. /\ build' \in [BuildNumber -> [job : JobId \cup {Null}, step : Step,
                                     stage : {"queue", "build", "deploy"}]]
      /\ build'[b].step = to /\ build'[b].job = build[b].job
      /\ \A c \in BuildNumber \ {b} : build'[c] = build[c]
      /\ \A c \in BuildNumber : RunMoves(c)
  BY <1>1, MovedRun DEF PInv
<1> QED BY <1>3, <1>4 DEF BuildsMove, MoveIsAnnounced

LEMMA EveryStepMovesRuns ==
    ASSUME PInv, [PNext]_pvars
    PROVE  BuildsMove
<1>1. CASE ServiceStep
  BY <1>1, ServiceLeavesPipeline DEF PInv, PTypeOK, BuildsMove, RunMoves, MoveIsAnnounced
<1> QED BY <1>1, StepSplits, PipelineMovesRuns, AnswerMovesRuns

-----------------------------------------------------------------------------
(* What a step does to the files, the callbacks on their way and the       *)
(* requests.                                                               *)

\* A run passes the switch, which may fail unnoticed.
PassesSwitch(b) ==
    /\ build[b].step = "link" /\ build'[b].step = "prune"
    /\ StoreRests /\ UNCHANGED <<op, sent, dir, touched, artifact>>
    /\ link' = ReleaseOf(b) \/ "command" \in Faults

LinkSwitches(b) == build[b].step = "link" /\ PassesSwitch(b) /\ link' = ReleaseOf(b)

DirectoryMoves(b) ==
    /\ build[b].step = "move" /\ build'[b].step = "link" /\ ReleaseOf(b) \in ReleaseId
    /\ dir' = [dir EXCEPT ![ReleaseOf(b)] = IF @ = Null THEN b ELSE @]
    /\ touched' = [touched EXCEPT ![ReleaseOf(b)] = b]
    /\ StoreRests

DirectoriesGo(b) ==
    /\ build[b].step = "prune"
    /\ \E removed \in SUBSET Surplus : Remove(removed)

LinkRollsBack ==
    /\ "rollback" \in Faults /\ link' \in ReleaseId /\ dir[link'] # Null
    /\ UNCHANGED <<dir, touched>>

FilesMove ==
    /\ link' \in ReleaseId \cup {Null}
    /\ \/ UNCHANGED <<dir, touched>>
       \/ \E b \in BuildNumber : DirectoryMoves(b) \/ DirectoriesGo(b)
    /\ \A b \in BuildNumber :
          /\ build[b].step # "link" /\ build'[b].step = "link" =>
                DirectoryMoves(b) \/ "command" \in Faults
          /\ build[b].step # "prune" /\ build'[b].step = "prune" => PassesSwitch(b)
    /\ \/ link' = link
       \/ \E b \in BuildNumber : LinkSwitches(b)
       \/ LinkRollsBack
    /\ link' # link => StoreRests

\* The artifact is replaced by that of a run behind the switch.
ArtifactMoves ==
    \/ artifact' = artifact
    \/ \E b \in BuildNumber :
          /\ build[b].step = "succeed" /\ ReleaseOf(b) \in ReleaseId
          /\ artifact' = [release |-> ReleaseOf(b), build |-> b, at |-> DeployTime]

\* Only the two steps of deploy-static.sh put a run behind them.
LEMMA FilesRest ==
    ASSUME PInv, BuildsMove, UNCHANGED <<dir, touched, link>>,
           \A b \in BuildNumber : build'[b].step \in {"link", "prune"} => build[b].step = build'[b].step
    PROVE  FilesMove
BY DEF FilesMove, PInv, PTypeOK

LEMMA MovedDirectory ==
    ASSUME PInv, BuildsMove, NEW b \in BuildNumber, MoveDirectory(b), MoveTo(b, "link")
    PROVE  FilesMove
<1>1. /\ build[b].step = "move" /\ link' = link /\ StoreRests
  BY DEF MoveDirectory, store, vars, StoreRests
<1>2. /\ build'[b].step = "link" /\ \A c \in BuildNumber \ {b} : build'[c] = build[c]
      /\ link' \in ReleaseId \cup {Null}
  BY <1>1, MovedRun DEF Follows, PInv, PTypeOK
<1>3. ReleaseOf(b) \in ReleaseId
  BY <1>1, StartedRun DEF Started
<1>4. CASE "command" \in Faults /\ UNCHANGED <<dir, touched>>
  BY <1>1, <1>2, <1>4 DEF FilesMove
<1>5. CASE /\ dir' = [dir EXCEPT ![ReleaseOf(b)] = IF @ = Null THEN b ELSE @]
           /\ touched' = [touched EXCEPT ![ReleaseOf(b)] = b]
  <2>1. DirectoryMoves(b)
    BY <1>1, <1>2, <1>3, <1>5 DEF DirectoryMoves
  <2> QED BY <1>1, <1>2, <2>1 DEF FilesMove
<1>6. ~MoveTo(b, "failing")
  <2>1. MoveTo(b, "failing") => build'[b].step = "failing"
    BY <1>1, MovedRun DEF Follows, PInv
  <2> QED BY <1>2, <2>1
<1> QED BY <1>4, <1>5, <1>6 DEF MoveDirectory

LEMMA SwitchedLink ==
    ASSUME PInv, BuildsMove, NEW b \in BuildNumber, SwitchLink(b), MoveTo(b, "prune")
    PROVE  FilesMove
<1>1. /\ build[b].step = "link" /\ StoreRests /\ UNCHANGED <<op, sent, dir, touched, artifact>>
  BY DEF SwitchLink, store, vars, StoreRests
<1>2. /\ build'[b].step = "prune" /\ \A c \in BuildNumber \ {b} : build'[c] = build[c]
      /\ link \in ReleaseId \cup {Null}
  BY <1>1, MovedRun DEF Follows, PInv, PTypeOK
<1>3. ReleaseOf(b) \in ReleaseId
  BY <1>1, StartedRun DEF Started
<1>4. ~MoveTo(b, "failing")
  <2>1. MoveTo(b, "failing") => build'[b].step = "failing"
    BY <1>1, MovedRun DEF Follows, PInv
  <2> QED BY <1>2, <2>1
<1>5. link' = ReleaseOf(b) \/ ("command" \in Faults /\ link' = link)
  BY <1>4 DEF SwitchLink
<1>6. PassesSwitch(b)
  BY <1>1, <1>2, <1>5 DEF PassesSwitch
<1>7. link' = link \/ LinkSwitches(b)
  BY <1>1, <1>5, <1>6 DEF LinkSwitches
<1> QED BY <1>1, <1>2, <1>3, <1>5, <1>6, <1>7 DEF FilesMove

LEMMA EveryStepMovesFiles ==
    ASSUME PInv, [PNext]_pvars
    PROVE  FilesMove
<1>1. BuildsMove /\ PTypeOK
  BY EveryStepMovesRuns DEF PInv
<1>2. ASSUME UNCHANGED <<build, dir, touched, link>> PROVE FilesMove
  BY <1>1, <1>2, FilesRest
<1>3. CASE ServiceStep
  BY <1>2, <1>3, ServiceLeavesPipeline
<1>4. ASSUME NEW b \in BuildNumber, NEW to, MoveTo(b, to), Follows(build[b].step, to),
             to \notin {"link", "prune"}, UNCHANGED <<dir, touched, link>>
      PROVE  FilesMove
  <2>1. build'[b].step = to /\ \A c \in BuildNumber \ {b} : build'[c] = build[c]
    BY <1>1, <1>4, MovedRun
  <2> QED BY <1>1, <1>4, <2>1, FilesRest
<1>5. ASSUME NEW b \in BuildNumber, Answered(b) \/ GivenUp(b) PROVE FilesMove
  <2>1. PICK to : MoveTo(b, to) /\ Follows(build[b].step, to) /\ to \notin {"link", "prune"}
    BY <1>5, ReportsFollow
  <2>2. UNCHANGED <<dir, touched, link>>
    BY <1>5 DEF Answered, GivenUp, web
  <2> QED BY <1>4, <2>1, <2>2
<1>6. ASSUME NEW b \in BuildNumber, LocalStep(b), ~MoveDirectory(b), ~SwitchLink(b), ~Prune(b)
      PROVE  FilesMove
  <2>1. PICK to : MoveTo(b, to) /\ Follows(build[b].step, to) /\ to \notin {"link", "prune"}
    BY <1>1, <1>6, LocalStepsFollow
  <2>2. UNCHANGED <<dir, touched, link>>
    BY <1>6 DEF LocalStep, DownloadBundle, BuildSite, Abort, web
  <2> QED BY <1>4, <2>1, <2>2
<1>7. ASSUME NEW b \in BuildNumber, MoveDirectory(b), ~MoveTo(b, "link") PROVE FilesMove
  <2>1. /\ build[b].step = "move" /\ MoveTo(b, "failing") /\ UNCHANGED <<dir, touched, link>>
    BY <1>7 DEF MoveDirectory
  <2>2. Follows(build[b].step, "failing")
    BY <2>1 DEF Follows
  <2> QED BY <1>4, <2>1, <2>2
<1>8. ASSUME NEW b \in BuildNumber, SwitchLink(b), ~MoveTo(b, "prune") PROVE FilesMove
  <2>1. /\ build[b].step = "link" /\ MoveTo(b, "failing") /\ UNCHANGED <<dir, touched, link>>
    BY <1>8 DEF SwitchLink
  <2>2. Follows(build[b].step, "failing")
    BY <2>1 DEF Follows
  <2> QED BY <1>4, <2>1, <2>2
<1>9. ASSUME NEW b \in BuildNumber, StartBuild(b) PROVE FilesMove
  <2>1. UNCHANGED <<dir, touched, link>>
    BY <1>9 DEF StartBuild, web
  <2>2. \A c \in BuildNumber : build'[c].step \in {"link", "prune"} => build[c].step = build'[c].step
    BY <1>1, <1>9 DEF StartBuild, NoBuild, PTypeOK
  <2> QED BY <1>1, <2>1, <2>2, FilesRest
<1>10. ASSUME NEW b \in BuildNumber, Rebuild(b) \/ CopyArtifact(b) PROVE FilesMove
  BY <1>2, <1>10 DEF Rebuild, CopyArtifact, web
<1>11. ASSUME NEW r \in ReleaseId, Rollback(r) PROVE FilesMove
  <2>1. LinkRollsBack /\ UNCHANGED <<build, dir, touched>> /\ link' \in ReleaseId /\ StoreRests
    BY <1>11 DEF Rollback, LinkRollsBack, store, vars, StoreRests
  <2> QED BY <2>1 DEF FilesMove
<1>12. ASSUME NEW b \in BuildNumber, Prune(b) PROVE FilesMove
  <2>1. PICK removed \in SUBSET Surplus : Remove(removed)
    BY <1>12 DEF Prune
  <2>2. PICK to \in {"succeed", "failing"} : MoveTo(b, to) /\ Follows(build[b].step, to)
    BY <1>12 DEF Prune, Follows
  <2>3. build'[b].step = to /\ \A c \in BuildNumber \ {b} : build'[c] = build[c]
    BY <1>1, <2>2, MovedRun
  <2>4. build[b].step = "prune" /\ link' = link /\ link' \in ReleaseId \cup {Null}
    BY <1>1, <1>12 DEF Prune, PTypeOK
  <2>5. DirectoriesGo(b)
    BY <2>1, <2>4 DEF DirectoriesGo
  <2> QED BY <2>2, <2>3, <2>4, <2>5 DEF FilesMove
<1> QED BY <1>1, <1>3, <1>5, <1>6, <1>7, <1>8, <1>9, <1>10, <1>11, <1>12, StepSplits,
           MovedDirectory, SwitchedLink DEF PipelineStep, LocalStep

LEMMA EveryStepMovesArtifact ==
    ASSUME PInv, [PNext]_pvars
    PROVE  ArtifactMoves
<1>1. CASE ServiceStep
  BY <1>1, ServiceLeavesPipeline DEF ArtifactMoves
<1>2. ASSUME NEW b \in BuildNumber,
             \/ Answered(b) \/ GivenUp(b) \/ LocalStep(b)
             \/ StartBuild(b) \/ Rebuild(b)
      PROVE  artifact' = artifact
  BY <1>2 DEF Answered, GivenUp, LocalStep, DownloadBundle, BuildSite, MoveDirectory, SwitchLink,
              Prune, Abort, StartBuild, Rebuild
<1>3. ASSUME NEW r \in ReleaseId, Rollback(r) PROVE artifact' = artifact
  BY <1>3 DEF Rollback
<1>4. ASSUME NEW b \in BuildNumber, CopyArtifact(b) PROVE ArtifactMoves
  BY <1>4, StartedRun DEF CopyArtifact, ArtifactMoves, Started
<1> QED BY <1>1, <1>2, <1>3, <1>4, StepSplits DEF PipelineStep, LocalStep, ArtifactMoves

\* A callback that run b sends while nobody answers it.
NewMessage(e, b) ==
    /\ b \in BuildNumber /\ Started(b)
    /\ e.job = build[b].job /\ e.release = ReleaseOf(b)
    /\ e.status = "failed" => /\ build[b].step \in {"failing", "postfail"}
                             /\ build'[b].step \in {"postfail", "done"}
    /\ e.status = "success" => build[b].step = "succeed" /\ build'[b].step = "done"

MessagesMove ==
    /\ sent' \subseteq CallbackEvent
    /\ \A e \in sent' : e \in sent \/ NewMessage(e, e.build)

LEMMA EveryStepMovesMessages ==
    ASSUME PInv, [PNext]_pvars
    PROVE  MessagesMove
<1>1. PTypeOK
  BY DEF PInv
<1>2. ASSUME UNCHANGED sent PROVE MessagesMove
  BY <1>1, <1>2 DEF MessagesMove, PTypeOK
<1>3. ASSUME NEW b \in BuildNumber, GivenUp(b), ~Answered(b) PROVE MessagesMove
  <2>1. /\ build[b].step \in Reporting
        /\ sent' \in {sent, sent \cup {Report(b)}}
        /\ MoveTo(b, AfterReport(build[b].step, FALSE))
    BY <1>3 DEF GivenUp
  <2>2. /\ Follows(build[b].step, AfterReport(build[b].step, FALSE))
        /\ build[b].step = "succeed" => AfterReport(build[b].step, FALSE) = "done"
        /\ build[b].step = "failing" => AfterReport(build[b].step, FALSE) = "postfail"
        /\ build[b].step = "postfail" => AfterReport(build[b].step, FALSE) = "done"
    BY <2>1 DEF Follows, AfterReport, Reporting
  <2>3. build'[b].step = AfterReport(build[b].step, FALSE)
    BY <1>1, <2>1, <2>2, MovedRun
  <2>4. /\ Report(b) \in CallbackEvent /\ Report(b).build = b
        /\ Started(b) /\ Report(b).job = build[b].job /\ Report(b).release = ReleaseOf(b)
        /\ Report(b).status = "failed" => build[b].step \in {"failing", "postfail"}
        /\ Report(b).status = "success" => build[b].step = "succeed"
    BY <2>1, ReportIsAnEvent
  <2>5. NewMessage(Report(b), b)
    BY <2>2, <2>3, <2>4 DEF NewMessage
  <2> QED BY <1>1, <2>1, <2>4, <2>5 DEF MessagesMove, PTypeOK
<1>4. CASE ServiceStep
  BY <1>2, <1>4, ServiceLeavesPipeline
<1>5. ASSUME NEW b \in BuildNumber,
             \/ Answered(b) \/ LocalStep(b) \/ StartBuild(b)
             \/ Rebuild(b) \/ CopyArtifact(b)
      PROVE  UNCHANGED sent
  BY <1>5 DEF Answered, LocalStep, DownloadBundle, BuildSite, MoveDirectory, SwitchLink, Prune,
              Abort, StartBuild, Rebuild, CopyArtifact
<1>6. ASSUME NEW r \in ReleaseId, Rollback(r) PROVE UNCHANGED sent
  BY <1>6 DEF Rollback
<1> QED BY <1>2, <1>3, <1>4, <1>5, <1>6, StepSplits DEF PipelineStep, LocalStep

\* What a row and a run are named by is never changed again.
LEMMA NamesKept ==
    ASSUME PInv, [PNext]_pvars
    PROVE  /\ \A j \in JobId :
                job[j].status # "none" =>
                    /\ job'[j].status # "none" /\ job'[j].release = job[j].release
                    /\ job[j].build # Null => job'[j].build = job[j].build
           /\ \A b \in BuildNumber :
                Started(b) => /\ build'[b].step # "none" /\ build'[b].job = build[b].job
                              /\ job'[build'[b].job].release = ReleaseOf(b)
<1>1. IInv /\ TypeOK /\ [Next]_vars /\ JobsMove /\ BuildsMove
  BY EveryStepIsATransaction, EveryStepMovesRuns DEF PInv, IInv
<1>2. Next => HistoryKept
  BY <1>1, NextIsAKind, KindKeepsHistory
<1>3. ASSUME NEW j \in JobId, job[j].status # "none"
      PROVE  /\ job'[j].status # "none" /\ job'[j].release = job[j].release
             /\ job[j].build # Null => job'[j].build = job[j].build
  <2>1. job'[j].release = job[j].release /\ (job[j].build # Null => job'[j].build = job[j].build)
    BY <1>1, <1>2, <1>3, StoredRow DEF HistoryKept, vars, Stored
  <2>2. job'[j].status # "none"
    BY <1>1, <1>3 DEF JobsMove, StoreRests, AttemptBegins, TriggerFails, AttemptGoesOn,
                      AttemptSucceeds, AttemptFails, JobChanges
  <2> QED BY <2>1, <2>2
<1>4. ASSUME NEW b \in BuildNumber, Started(b)
      PROVE  /\ build'[b].step # "none" /\ build'[b].job = build[b].job
             /\ job'[build'[b].job].release = ReleaseOf(b)
  <2>1. build'[b].step # "none" /\ build'[b].job = build[b].job
    BY <1>1, <1>4 DEF BuildsMove, RunMoves, Follows, Started
  <2>2. Stored(build[b].job)
    BY <1>4, StartedRun
  <2> QED BY <1>3, <2>1, <2>2 DEF Stored, ReleaseOf
<1> QED BY <1>3, <1>4

\* A request in this state is one of those the invariant knows, after the step.
RequestMoves(request) ==
    /\ request \in [pc : {"idle", "reconcile", "create", "trigger", "compensate"},
                    art : Artifact \cup {NoFile}, job : JobId \cup {Null}]
    /\ \/ request.pc \in {"idle", "create"}
       \/ request.pc = "reconcile" /\ artifact # NoFile /\ request.art = artifact
       \/ /\ request.pc \in {"trigger", "compensate"}
          /\ request.job \in JobId /\ job'[request.job].status # "none"

RequestsMove ==
    /\ op' = [p \in Session |-> op'[p]]
    /\ \A p \in Session : op'[p] = op[p] \/ RequestMoves(op'[p])
    /\ \A j \in queue' : j \in queue \/ Stored(j)

LEMMA EveryStepMovesRequests ==
    ASSUME PInv, [PNext]_pvars
    PROVE  RequestsMove
<1> DEFINE Request == [pc : {"idle", "reconcile", "create", "trigger", "compensate"},
                       art : Artifact \cup {NoFile}, job : JobId \cup {Null}]
<1>1. op \in [Session -> Request]
  BY DEF PInv, PTypeOK
<1>2. ASSUME NEW p \in Session, NEW request, RequestMoves(request), op' = [op EXCEPT ![p] = request],
             \A j \in queue' : j \in queue \/ Stored(j)
      PROVE  RequestsMove
  BY <1>1, <1>2 DEF RequestsMove
<1>3. ASSUME UNCHANGED op, \A j \in queue' : j \in queue \/ Stored(j) PROVE RequestsMove
  BY <1>1, <1>3 DEF RequestsMove
<1>4. RequestMoves(NoOp) /\ RequestMoves([NoOp EXCEPT !.pc = "create"])
  BY DEF RequestMoves, NoOp
<1>5. ASSUME NEW p \in Session, ReadArtifact(p) PROVE RequestsMove
  <2>1. queue' = queue
    BY <1>5 DEF ReadArtifact
  <2>2. CASE op' = [op EXCEPT ![p].pc = "create"]
    <3> DEFINE request == [op[p] EXCEPT !.pc = "create"]
    <3>1. request \in Request /\ request.pc = "create" /\ op' = [op EXCEPT ![p] = request]
      BY <1>1, <2>2
    <3>2. RequestMoves(request)
      BY <3>1 DEF RequestMoves
    <3> HIDE DEF request
    <3> QED BY <1>2, <2>1, <3>1, <3>2
  <2>3. CASE /\ artifact # NoFile
             /\ op' = [op EXCEPT ![p].pc = "reconcile", ![p].art = artifact]
    <3> DEFINE request == [op[p] EXCEPT !.pc = "reconcile", !.art = artifact]
    <3>1. artifact \in Artifact
      BY <2>3, ArtifactIsShown
    <3>2. /\ request \in Request /\ request.pc = "reconcile" /\ request.art = artifact
          /\ op' = [op EXCEPT ![p] = request]
      BY <1>1, <2>3, <3>1
    <3>3. RequestMoves(request)
      BY <2>3, <3>2 DEF RequestMoves
    <3> HIDE DEF request
    <3> QED BY <1>2, <2>1, <3>2, <3>3
  <2> QED BY <1>5, <2>2, <2>3 DEF ReadArtifact
<1>6. ASSUME NEW p \in Session, Reconcile(p) \/ Refuse(p) PROVE RequestsMove
  <2>1. /\ queue' = queue
        /\ \/ op' = [op EXCEPT ![p] = NoOp]
           \/ op' = [op EXCEPT ![p] = [NoOp EXCEPT !.pc = "create"]]
    BY <1>6 DEF Reconcile, Refuse
  <2> QED BY <1>2, <1>4, <2>1
<1>7. ASSUME NEW p \in Session, Commit(p) PROVE RequestsMove
  <2>1. queue' = queue
    BY <1>7 DEF Commit
  <2>2. active' \in JobId /\ job'[active'].status # "none"
    BY <1>7, CreationMovesJob DEF Commit, Stored
  <2> DEFINE request == [NoOp EXCEPT !.pc = "trigger", !.job = active']
  <2>3. RequestMoves(request)
    BY <2>2 DEF RequestMoves, NoOp
  <2>4. op' = [op EXCEPT ![p] = NoOp] \/ op' = [op EXCEPT ![p] = request]
    BY <1>7 DEF Commit
  <2> HIDE DEF request
  <2> QED BY <1>2, <1>4, <2>1, <2>3, <2>4
<1>8. ASSUME NEW p \in Session, Trigger(p) PROVE RequestsMove
  <2>1. Stored(op[p].job) /\ op[p].pc = "trigger"
    BY <1>8 DEF Trigger, PInv, RequestsAreKnown
  <2>2. UNCHANGED job /\ queue' \in {queue, queue \cup {op[p].job}}
    BY <1>8 DEF Trigger, store, vars
  <2>3. \A j \in queue' : j \in queue \/ Stored(j)
    BY <2>1, <2>2
  <2>4. CASE op' = [op EXCEPT ![p] = NoOp]
    BY <1>2, <1>4, <2>3, <2>4
  <2>5. CASE op' = [op EXCEPT ![p].pc = "compensate"]
    <3> DEFINE request == [op[p] EXCEPT !.pc = "compensate"]
    <3>1. /\ request \in Request /\ request.pc = "compensate" /\ request.job = op[p].job
          /\ op' = [op EXCEPT ![p] = request]
      BY <1>1, <2>5
    <3>2. RequestMoves(request)
      BY <2>1, <2>2, <3>1 DEF RequestMoves, Stored
    <3> HIDE DEF request
    <3> QED BY <1>2, <2>3, <3>1, <3>2
  <2> QED BY <1>8, <2>4, <2>5 DEF Trigger
<1>9. ASSUME NEW p \in Session, Compensate(p) PROVE RequestsMove
  BY <1>2, <1>4, <1>9 DEF Compensate
<1>10. CASE Crash
  BY <1>4, <1>10 DEF Crash, RequestsMove
<1>11. ASSUME NEW b \in BuildNumber, Rebuild(b) PROVE RequestsMove
  <2>1. Stored(build[b].job)
    BY <1>11, StartedRun DEF Rebuild, Started
  <2> QED BY <1>3, <1>11, <2>1 DEF Rebuild
<1>12. ASSUME NEW b \in BuildNumber, StartBuild(b) PROVE RequestsMove
  BY <1>3, <1>12 DEF StartBuild
<1>13. ASSUME UNCHANGED <<op, queue>> PROVE RequestsMove
  BY <1>3, <1>13
<1>14. ASSUME NEW b \in BuildNumber,
              \/ Unheard(b) \/ Answered(b) \/ GivenUp(b) \/ LocalStep(b) \/ CopyArtifact(b)
       PROVE  UNCHANGED <<op, queue>>
  BY <1>14 DEF Unheard, env, Answered, GivenUp, LocalStep, DownloadBundle, BuildSite,
               MoveDirectory, SwitchLink, Prune, Abort, CopyArtifact
<1>15. ASSUME NEW e \in sent, LateDelivery(e) PROVE UNCHANGED <<op, queue>>
  BY <1>15 DEF LateDelivery, env
<1>16. ASSUME NEW r \in ReleaseId, Rollback(r) PROVE UNCHANGED <<op, queue>>
  BY <1>16 DEF Rollback
<1>17. CASE Restart \/ UNCHANGED pvars \/ UNCHANGED env
  BY <1>13, <1>17 DEF Restart, pvars, env
<1>18. CASE PipelineStep
  BY <1>11, <1>12, <1>13, <1>14, <1>16, <1>18 DEF PipelineStep, LocalStep
<1>19. CASE ServiceStep
  BY <1>5, <1>6, <1>7, <1>8, <1>9, <1>10, <1>13, <1>14, <1>15, <1>17, <1>19
     DEF ServiceStep, SessionStep
<1> QED BY <1>13, <1>14, <1>18, <1>19, StepSplits

-----------------------------------------------------------------------------
(* A step keeps the invariant.                                             *)

LEMMA StepParts ==
    ASSUME PInv, [PNext]_pvars
    PROVE  /\ JobsMove /\ BuildsMove /\ FilesMove /\ ArtifactMoves /\ MessagesMove /\ RequestsMove
           /\ IInv' /\ PTypeOK
BY EveryStepIsATransaction, EveryStepMovesRuns, EveryStepMovesFiles, EveryStepMovesArtifact,
   EveryStepMovesMessages, EveryStepMovesRequests DEF PInv

LEMMA TypesKept ==
    ASSUME PInv, [PNext]_pvars
    PROVE  PTypeOK'
<1>1. op' \in [Session -> [pc : {"idle", "reconcile", "create", "trigger", "compensate"},
                           art : Artifact \cup {NoFile}, job : JobId \cup {Null}]]
  BY StepParts DEF RequestsMove, RequestMoves, PTypeOK
<1>2. queue' \subseteq JobId
  BY StepParts DEF RequestsMove, Stored, PTypeOK
<1>3. /\ dir' \in [ReleaseId -> BuildNumber \cup {Null}]
      /\ touched' \in [ReleaseId -> BuildNumber \cup {Null}]
  BY StepParts DEF FilesMove, DirectoryMoves, DirectoriesGo, Remove, PTypeOK
<1>4. link' \in ReleaseId \cup {Null}
  BY StepParts DEF FilesMove
<1>5. artifact' \in Artifact \cup {NoFile}
  BY StepParts, NullIsNoId DEF ArtifactMoves, PTypeOK, Artifact, DeployTime
<1> QED BY <1>1, <1>2, <1>3, <1>4, <1>5, StepParts DEF PTypeOK, BuildsMove, MessagesMove

\* The names a started run carries, after the step.
LEMMA StartedKept ==
    ASSUME PInv, [PNext]_pvars, NEW b \in BuildNumber, Started(b)
    PROVE  /\ build'[b].step # "none" /\ build'[b].job = build[b].job
           /\ job'[build'[b].job].release = ReleaseOf(b)
           /\ Started(b)' /\ ReleaseOf(b)' = ReleaseOf(b)
BY NamesKept DEF Started, ReleaseOf

LEMMA RequestsKept ==
    ASSUME PInv, [PNext]_pvars
    PROVE  RequestsAreKnown'
<1>1. RequestsMove /\ BuildsMove /\ PTypeOK /\ RequestsAreKnown
  BY StepParts DEF PInv
<1>2. \A j \in JobId : job[j].status # "none" => job'[j].status # "none"
  BY NamesKept
<1>3. ASSUME NEW p \in Session
      PROVE  /\ op'[p].pc \in {"trigger", "compensate"} =>
                    op'[p].job \in JobId /\ job'[op'[p].job].status # "none"
             /\ op'[p].pc = "reconcile" => op'[p].art \in Artifact
  <2>1. CASE op'[p] = op[p]
    BY <1>1, <1>2, <2>1 DEF RequestsAreKnown, Stored
  <2>2. CASE RequestMoves(op'[p])
    BY <2>2, ArtifactIsShown DEF RequestMoves
  <2> QED BY <1>1, <2>1, <2>2 DEF RequestsMove
<1>4. ASSUME NEW j \in queue' PROVE j \in JobId /\ job'[j].status # "none"
  BY <1>1, <1>2, <1>4 DEF RequestsMove, RequestsAreKnown, Stored
<1>5. ASSUME NEW b \in BuildNumber, build'[b].step # "none"
      PROVE  build'[b].job \in JobId /\ job'[build'[b].job].status # "none"
  <2>1. CASE Started(b)
    BY <1>2, <2>1, StartedKept, StartedRun DEF Stored
  <2>2. CASE ~Started(b)
    <3>1. build'[b].job \in queue
      BY <1>1, <1>5, <2>2 DEF BuildsMove, RunMoves, Started, Follows
    <3> QED BY <1>1, <1>2, <3>1 DEF RequestsAreKnown, Stored
  <2> QED BY <2>1, <2>2
<1> QED BY <1>3, <1>4, <1>5 DEF RequestsAreKnown, Stored, Started

\* How one row of publish_jobs may change.
LEMMA RowChange ==
    ASSUME PInv, [PNext]_pvars, NEW j \in JobId
    PROVE  \/ job'[j] = job[j]
           \/ job[j].status = "none" /\ job'[j].status = "pending" /\ job'[j].build = Null
           \/ /\ job[j].status = "pending" /\ job'[j].status = "failed"
              /\ job'[j].build = job[j].build
           \/ \E b \in BuildNumber :
                 /\ Holds(b) /\ active = j /\ job'[j].build = b
                 /\ \/ job[j].status # "deploying" /\ job'[j].status # "success"
                    \/ AttemptSucceeds(b) /\ job'[j].status = "success"
                    \/ AttemptFails(b) /\ job'[j].status = "failed"
<1>1. JobsMove
  BY StepParts
<1>2. CASE StoreRests
  BY <1>2 DEF StoreRests
<1>3. ASSUME NEW k \in JobId, AttemptBegins(k) \/ TriggerFails(k)
      PROVE  \/ job'[j] = job[j]
             \/ job[j].status = "none" /\ job'[j].status = "pending" /\ job'[j].build = Null
             \/ /\ job[j].status = "pending" /\ job'[j].status = "failed"
                /\ job'[j].build = job[j].build
  BY <1>3 DEF AttemptBegins, TriggerFails, JobChanges
<1>4. ASSUME NEW b \in BuildNumber, NEW status \in JobStatus, AttemptGoesOn(b, status)
      PROVE  \/ job'[j] = job[j]
             \/ /\ Holds(b) /\ active = j /\ job'[j].build = b
                /\ job[j].status # "deploying" /\ job'[j].status # "success"
  BY <1>4 DEF AttemptGoesOn, JobChanges
<1>5. ASSUME NEW b \in BuildNumber, AttemptSucceeds(b)
      PROVE  \/ job'[j] = job[j]
             \/ Holds(b) /\ active = j /\ job'[j].build = b /\ job'[j].status = "success"
  BY <1>5 DEF AttemptSucceeds, JobChanges
<1>6. ASSUME NEW b \in BuildNumber, AttemptFails(b)
      PROVE  \/ job'[j] = job[j]
             \/ Holds(b) /\ active = j /\ job'[j].build = b /\ job'[j].status = "failed"
  BY <1>6 DEF AttemptFails, JobChanges
<1> QED BY <1>1, <1>2, <1>3, <1>4, <1>5, <1>6 DEF JobsMove

LEMMA RecordedBuildsKept ==
    ASSUME PInv, [PNext]_pvars
    PROVE  BuildsAreRecorded'
<1> SUFFICES ASSUME NEW j \in JobId
             PROVE  /\ job'[j].build # Null =>
                          build'[job'[j].build].step # "none" /\ build'[job'[j].build].job = j
                    /\ job'[j].status = "success" => job'[j].build # Null
  BY DEF BuildsAreRecorded, Started
<1>1. /\ job[j].build # Null =>
            /\ job[j].build \in BuildNumber
            /\ Started(job[j].build) /\ build[job[j].build].job = j
      /\ job[j].status = "success" => job[j].build # Null
  BY DEF PInv, IInv, TypeOK, JobRow, NoJob, BuildsAreRecorded
<1>2. job[j].build # Null =>
          build'[job[j].build].step # "none" /\ build'[job[j].build].job = j
  BY <1>1, StartedKept
<1>3. CASE job'[j] = job[j]
  BY <1>1, <1>2, <1>3
<1>4. CASE job'[j].status # "success" /\ (job'[j].build = Null \/ job'[j].build = job[j].build)
  BY <1>2, <1>4
<1>5. ASSUME NEW b \in BuildNumber, Holds(b), active = j, job'[j].build = b
      PROVE  /\ build'[b].step # "none" /\ build'[b].job = j /\ b # Null
  BY <1>5, StartedKept, NullIsNoId DEF Holds
<1> QED BY <1>3, <1>4, <1>5, RowChange

LEMMA SentKept ==
    ASSUME PInv, [PNext]_pvars
    PROVE  SentIsReported'
<1> SUFFICES ASSUME NEW e \in sent'
             PROVE  /\ build'[e.build].step # "none" /\ e.job = build'[e.build].job
                    /\ e.release = job'[build'[e.build].job].release
                    /\ e.status = "failed" => build'[e.build].step \in {"postfail", "done"}
                    /\ e.status = "success" => build'[e.build].step = "done"
  BY DEF SentIsReported, Started, ReleaseOf
<1>1. MessagesMove /\ BuildsMove
  BY StepParts
<1>2. e.build \in BuildNumber
  BY <1>1, CallbackEventTypes DEF MessagesMove
<1>3. /\ Started(e.build) /\ e.job = build[e.build].job /\ e.release = ReleaseOf(e.build)
      /\ \/ NewMessage(e, e.build)
         \/ /\ e.status = "failed" => build[e.build].step \in {"postfail", "done"}
            /\ e.status = "success" => build[e.build].step = "done"
  BY <1>1 DEF MessagesMove, NewMessage, PInv, SentIsReported
<1>4. RunMoves(e.build)
  BY <1>1, <1>2 DEF BuildsMove
<1>5. /\ e.status = "failed" => build'[e.build].step \in {"postfail", "done"}
      /\ e.status = "success" => build'[e.build].step = "done"
  BY <1>3, <1>4 DEF RunMoves, Follows, Started, NewMessage
<1> QED BY <1>2, <1>3, <1>5, StartedKept

-----------------------------------------------------------------------------
(* The directories: which of them a step may remove.                       *)

(* Of a finite set, each element with as many elements of greater rank as  *)
(* k may be removed: k elements stay.                                      *)
LEMMA TopSurvives ==
    ASSUME NEW N, IsFiniteSet(N), NEW rank, \A r \in N : rank[r] \in Nat,
           NEW k \in Nat, Cardinality(N) >= k,
           NEW K \in SUBSET N,
           \A r \in N \ K : Cardinality({s \in N : rank[s] > rank[r]}) >= k
    PROVE  Cardinality(K) >= k
<1> DEFINE Above(r) == {s \in N : rank[s] > rank[r]}
           F == {Above(r) : r \in N \ K}
<1>1. CASE N \ K = {}
  <2>1. N = K
    BY <1>1
  <2> QED BY <2>1
<1>2. CASE N \ K # {}
  <2>1. F \subseteq FiniteSubsetsOf(N) /\ F # {}
    <3>1. \A r \in N : Above(r) \in SUBSET N /\ IsFiniteSet(Above(r))
      <4> SUFFICES ASSUME NEW r \in N PROVE Above(r) \in SUBSET N /\ IsFiniteSet(Above(r))
        OBVIOUS
      <4>1. Above(r) \in SUBSET N
        OBVIOUS
      <4> HIDE DEF Above
      <4> QED BY <4>1, FS_Subset
    <3> HIDE DEF Above
    <3> QED BY <1>2, <3>1 DEF FiniteSubsetsOf
  <2>2. PICK T \in F : \A U \in F : ~ (<<U, T>> \in StrictSubsetOrdering(N))
    <3> HIDE DEF F
    <3> QED BY <2>1, WFMin, FS_StrictSubsetOrderingWellFounded
  <2>3. PICK r \in N \ K : T = Above(r)
    BY <2>2
  <2>4. Above(r) \subseteq K
    <3> SUFFICES ASSUME NEW s \in Above(r), s \notin K PROVE FALSE
      OBVIOUS
    <3>1. s \in N \ K /\ rank[s] > rank[r] /\ rank[s] \in Nat /\ rank[r] \in Nat
      BY <2>3
    <3>2. Above(s) \subseteq Above(r) /\ s \notin Above(s) /\ s \in Above(r)
      BY <2>3, <3>1
    <3>3. Above(s) \in F /\ Above(s) \in SUBSET N /\ Above(r) \in SUBSET N
      BY <3>1
    <3> HIDE DEF Above, F
    <3> QED BY <2>2, <2>3, <3>2, <3>3 DEF StrictSubsetOrdering
  <2>5. IsFiniteSet(K)
    BY FS_Subset
  <2>6. Cardinality(Above(r)) >= k
    BY <2>3
  <2> HIDE DEF Above
  <2>7. Cardinality(Above(r)) <= Cardinality(K) /\ IsFiniteSet(Above(r))
    BY <2>4, <2>5, FS_Subset
  <2> QED BY <2>5, <2>6, <2>7, FS_CardinalityType
<1> QED BY <1>1, <1>2

\* A run that is under way is the newest one that has been started.
LEMMA RunningIsNewest ==
    ASSUME PInv, NEW b \in BuildNumber, build[b].step \notin {"none", "done"}
    PROVE  ~Overtaken(b) /\ \A c \in BuildNumber : Started(c) => c <= b
<1>1. ASSUME NEW c \in BuildNumber, Started(c) PROVE c <= b
  <2>1. b \in Nat /\ c \in Nat
    BY ReleaseAssumption
  <2>2. b < c => build[b].step = "done"
    BY <1>1 DEF PInv, RunsInTurn
  <2> QED BY <2>1, <2>2
<1>2. Newer(b) = {}
  <2> SUFFICES ASSUME NEW r \in ReleaseId, touched[r] > b PROVE FALSE
    BY DEF Newer
  <2>1. b \in Nat /\ touched[r] # Null /\ touched[r] \in BuildNumber
    BY ReleaseAssumption DEF PInv, PTypeOK, Null
  <2>2. Started(touched[r])
    BY <2>1 DEF PInv, DirectoriesAreMoved, Kept
  <2>3. touched[r] <= b /\ touched[r] \in Nat
    BY <1>1, <2>1, <2>2, ReleaseAssumption
  <2> QED BY <2>1, <2>3
<1>3. Cardinality(Newer(b)) = 0
  BY <1>2, FS_EmptySet
<1> QED BY <1>1, <1>3, PublishingAssumption DEF Overtaken

\* Two runs that are under way are the same.
LEMMA OneRunAtATime ==
    ASSUME PInv, NEW b \in BuildNumber, NEW c \in BuildNumber,
           build[b].step \notin {"none", "done"}, build[c].step \notin {"none", "done"}
    PROVE  b = c
<1>1. b \in Nat /\ c \in Nat /\ ~(b < c) /\ ~(c < b)
  BY ReleaseAssumption DEF PInv, RunsInTurn, Started
<1> QED BY <1>1

\* The row of a finished attempt is final.
LEMMA FinishedKept ==
    ASSUME PInv, [PNext]_pvars, NEW j \in JobId, job[j].status \in {"success", "failed"}
    PROVE  job'[j] = job[j]
<1>1. ASSUME active = j PROVE FALSE
  <2>1. active # Null /\ active \in JobId
    BY <1>1, NullIsNoId
  <2> QED BY <1>1, <2>1 DEF PInv, IInv, SingleActiveJob, InFlight
<1> QED BY <1>1, RowChange

\* A build whose attempt has been told to deploy is that attempt's for good.
LEMMA WasDeployingKept ==
    ASSUME PInv, [PNext]_pvars, NEW b \in BuildNumber, WasDeploying(b)
    PROVE  WasDeploying(b)' /\ ReleaseOf(b)' = ReleaseOf(b)
<1> DEFINE j == build[b].job
<1>1. /\ Started(b) /\ j \in JobId
      /\ job[j].build = b /\ job[j].status \in {"deploying", "success", "failed"}
  BY StartedRun DEF WasDeploying
<1>2. build'[b].step # "none" /\ build'[b].job = j /\ ReleaseOf(b)' = ReleaseOf(b)
  BY <1>1, StartedKept
<1>3. job'[j].build = b
  BY <1>1, NamesKept, NullIsNoId
<1>4. job'[j].status \in {"deploying", "success", "failed"}
  <2>1. CASE job[j].status = "deploying"
    BY <1>1, <2>1, RowChange
  <2>2. CASE job[j].status \in {"success", "failed"}
    BY <1>1, <2>2, FinishedKept
  <2> QED BY <1>1, <2>1, <2>2
<1> HIDE DEF j
<1>5. build'[b].job = j /\ job'[build'[b].job] = job'[j]
  BY <1>2
<1> QED BY <1>2, <1>3, <1>4, <1>5 DEF WasDeploying, Started

LEMMA TouchedIsNumber ==
    ASSUME PTypeOK, NEW r \in ReleaseId
    PROVE  touched[r] \in Nat
<1>1. touched[r] \in BuildNumber \cup {Null}
  BY DEF PTypeOK
<1>2. CASE touched[r] = Null
  BY <1>2 DEF Null
<1>3. CASE touched[r] \in BuildNumber
  BY <1>3, ReleaseAssumption
<1> QED BY <1>1, <1>2, <1>3

\* What is overtaken by as many as a newer one is overtaken too.
LEMMA OvertakenBelow ==
    ASSUME PInv, NEW m \in Nat, NEW n \in Nat, m <= n, Overtaken(n)
    PROVE  Overtaken(m)
<1>1. Newer(n) \subseteq Newer(m) /\ Newer(m) \subseteq Kept
  <2>1. \A r \in ReleaseId : touched[r] \in Nat
    BY TouchedIsNumber DEF PInv
  <2> QED BY <2>1 DEF Newer, Kept, Null
<1>2. IsFiniteSet(Newer(m))
  BY <1>1, FS_Subset DEF PInv, DirectoriesAreMoved
<1>3. Cardinality(Newer(n)) <= Cardinality(Newer(m)) /\ IsFiniteSet(Newer(n))
  BY <1>1, <1>2, FS_Subset
<1>4. Cardinality(Newer(n)) \in Nat /\ Cardinality(Newer(m)) \in Nat
  BY <1>2, <1>3, FS_CardinalityType
<1> QED BY <1>3, <1>4, PublishingAssumption DEF Overtaken

\* As many newer directories as are kept stay as many.
LEMMA OvertakenKept ==
    ASSUME PInv, [PNext]_pvars, NEW b \in BuildNumber, Overtaken(b)
    PROVE  Overtaken(b)'
<1>1. FilesMove /\ PTypeOK /\ IsFiniteSet(Kept) /\ b \in Nat
  BY StepParts, ReleaseAssumption DEF PInv, DirectoriesAreMoved
<1>2. \A r \in ReleaseId : touched[r] \in Nat
  BY <1>1, TouchedIsNumber
<1>3. /\ Newer(b) \in SUBSET Kept /\ IsFiniteSet(Newer(b)) /\ Cardinality(Newer(b)) \in Nat
  <2>1. Newer(b) \in SUBSET Kept
    BY <1>1, <1>2 DEF Newer, Kept, Null
  <2> QED BY <1>1, <2>1, FS_Subset, FS_CardinalityType
<1>4. CASE touched' = touched
  BY <1>4 DEF Overtaken, Newer
<1>5. ASSUME NEW c \in BuildNumber, DirectoryMoves(c) PROVE Overtaken(b)'
  <2>1. /\ ReleaseOf(c) \in ReleaseId /\ touched' = [touched EXCEPT ![ReleaseOf(c)] = c]
        /\ build[c].step = "move"
    BY <1>5 DEF DirectoryMoves
  <2>2. ASSUME NEW r \in ReleaseId PROVE touched[r] <= c
    <3>1. CASE touched[r] = Null
      BY <3>1, ReleaseAssumption DEF Null
    <3>2. CASE touched[r] # Null
      <4>1. touched[r] \in BuildNumber /\ Started(touched[r])
        BY <1>1, <3>2 DEF PTypeOK, PInv, DirectoriesAreMoved, Kept
      <4> QED BY <2>1, <4>1, RunningIsNewest
    <3> QED BY <3>1, <3>2
  <2>3. Newer(b) \subseteq Newer(b)' /\ Newer(b)' \subseteq Kept \cup {ReleaseOf(c)}
    <3>1. c \in Nat
      BY ReleaseAssumption
    <3>2. ASSUME NEW r \in Newer(b) PROVE r \in Newer(b)'
      BY <1>1, <1>2, <2>1, <2>2, <3>1, <3>2 DEF Newer, PTypeOK
    <3>3. ASSUME NEW r \in Newer(b)', r # ReleaseOf(c) PROVE r \in Kept
      BY <1>1, <1>2, <2>1, <3>3 DEF Newer, Kept, PTypeOK, Null
    <3> QED BY <3>2, <3>3
  <2>4. IsFiniteSet(Newer(b)')
    <3>1. IsFiniteSet(Kept \cup {ReleaseOf(c)})
      BY <1>1, FS_AddElement
    <3> QED BY <2>3, <3>1, FS_Subset
  <2>5. Cardinality(Newer(b)) <= Cardinality(Newer(b)') /\ Cardinality(Newer(b)') \in Nat
    BY <2>3, <2>4, FS_Subset, FS_CardinalityType
  <2> QED BY <1>3, <2>5, PublishingAssumption DEF Overtaken
<1>6. ASSUME NEW c \in BuildNumber, DirectoriesGo(c) PROVE Overtaken(b)'
  <2>1. PICK removed \in SUBSET Surplus : Remove(removed)
    BY <1>6 DEF DirectoriesGo
  <2>2. Newer(b)' = Newer(b) \ removed
    BY <1>1, <1>2, <2>1 DEF Newer, Remove, Null
  <2>3. \A r \in Newer(b) : touched[r] \in Nat
    BY <1>2 DEF Newer
  <2>4. ASSUME NEW r \in Newer(b) \ (Newer(b) \ removed)
        PROVE  Cardinality({s \in Newer(b) : touched[s] > touched[r]}) >= Retained
    <3>1. r \in Surplus /\ r \in Newer(b)
      BY <2>1, <2>4
    <3>2. {s \in Newer(b) : touched[s] > touched[r]} = Newer(touched[r])
      <4>1. touched[r] > b /\ touched[r] \in Nat
        BY <2>3, <3>1 DEF Newer
      <4> QED BY <1>1, <1>2, <4>1 DEF Newer
    <3> QED BY <3>1, <3>2 DEF Surplus, Overtaken
  <2>5. Cardinality(Newer(b) \ removed) >= Retained
    BY <1>3, <2>3, <2>4, TopSurvives, PublishingAssumption DEF Overtaken
  <2> QED BY <2>2, <2>5 DEF Overtaken
<1> QED BY <1>1, <1>4, <1>5, <1>6 DEF FilesMove

\* What build b has moved stays in place.
LEMMA InPlaceKept ==
    ASSUME PInv, [PNext]_pvars, NEW b \in BuildNumber, Started(b), InPlace(b)
    PROVE  InPlace(b)'
<1> DEFINE r == ReleaseOf(b)
<1>1. /\ FilesMove /\ PTypeOK /\ r \in ReleaseId /\ ReleaseOf(b)' = r /\ b \in Nat
      /\ touched[r] \in Nat
  <2>1. PTypeOK /\ FilesMove /\ r \in ReleaseId /\ ReleaseOf(b)' = r
    BY StepParts, StartedRun, StartedKept
  <2> QED BY <2>1, TouchedIsNumber, ReleaseAssumption
<1> HIDE DEF r
<1>2. InPlace(b)' <=> ("command" \in Faults \/ touched'[r] >= b \/ Overtaken(b)')
  BY <1>1 DEF InPlace
<1>3. CASE "command" \in Faults
  BY <1>2, <1>3
<1>4. CASE Overtaken(b)
  BY <1>2, <1>4, OvertakenKept
<1>5. CASE touched[r] >= b
  <2>1. CASE touched' = touched
    BY <1>2, <1>5, <2>1
  <2>2. ASSUME NEW c \in BuildNumber, DirectoryMoves(c) PROVE touched'[r] >= b
    <3>1. c >= b
      <4>1. b <= c
        BY <2>2, RunningIsNewest DEF DirectoryMoves
      <4> QED BY <1>1, <4>1, ReleaseAssumption
    <3>2. touched'[r] = c \/ touched'[r] = touched[r]
      BY <1>1, <2>2 DEF DirectoryMoves, PTypeOK
    <3> QED BY <1>5, <3>1, <3>2
  <2>3. ASSUME NEW c \in BuildNumber, DirectoriesGo(c) PROVE touched'[r] >= b \/ Overtaken(b)
    <3>1. PICK removed \in SUBSET Surplus : Remove(removed)
      BY <2>3 DEF DirectoriesGo
    <3>2. CASE r \in removed
      <4>1. PICK n \in Nat : n = touched[r] /\ Overtaken(n)
        BY <1>1, <3>1, <3>2 DEF Surplus
      <4> QED BY <1>1, <1>5, <4>1, OvertakenBelow
    <3>3. CASE r \notin removed
      BY <1>1, <1>5, <3>1, <3>3 DEF Remove
    <3> QED BY <3>2, <3>3
  <2> QED BY <1>1, <1>2, <2>1, <2>2, <2>3, OvertakenKept DEF FilesMove
<1> QED BY <1>3, <1>4, <1>5 DEF InPlace, r

LEMMA TurnsKept ==
    ASSUME PInv, [PNext]_pvars
    PROVE  RunsInTurn'
<1> SUFFICES ASSUME NEW b \in BuildNumber, NEW c \in BuildNumber, c < b, build'[b].step # "none"
             PROVE  build'[c].step = "done"
  BY DEF RunsInTurn, Started
<1>1. RunMoves(b) /\ RunMoves(c)
  BY StepParts DEF BuildsMove
<1>2. build[c].step = "done"
  BY <1>1 DEF PInv, RunsInTurn, RunMoves, Follows, Started
<1> QED BY <1>1, <1>2 DEF RunMoves, Follows, Started

LEMMA DirectoriesKept ==
    ASSUME PInv, [PNext]_pvars
    PROVE  DirectoriesAreMoved'
<1>1. /\ BuildsMove /\ FilesMove /\ PTypeOK /\ DirectoriesAreMoved
      /\ \A b \in BuildNumber : b # Null
  BY StepParts, NullIsNoId DEF PInv
<1>2. ASSUME "command" \notin Faults, NEW b \in BuildNumber, build'[b].step = "link"
      PROVE  touched'[job'[build'[b].job].release] = b
  <2>1. Started(b) /\ build[b].step # "done"
    BY <1>1, <1>2 DEF BuildsMove, RunMoves, Follows, Started
  <2>2. ReleaseOf(b) \in ReleaseId /\ job'[build'[b].job].release = ReleaseOf(b)
    BY <2>1, StartedRun, StartedKept
  <2>3. CASE build[b].step = "link"
    <3>1. touched[ReleaseOf(b)] = b
      BY <1>1, <1>2, <2>3 DEF DirectoriesAreMoved
    <3>2. ASSUME NEW c \in BuildNumber, DirectoryMoves(c) \/ DirectoriesGo(c) PROVE FALSE
      <4>1. build[c].step \in {"move", "prune"}
        BY <3>2 DEF DirectoryMoves, DirectoriesGo
      <4>2. b = c
        BY <2>3, <4>1, OneRunAtATime
      <4> QED BY <2>3, <4>1, <4>2
    <3> QED BY <1>1, <2>2, <3>1, <3>2 DEF FilesMove
  <2>4. CASE build[b].step # "link"
    <3>1. DirectoryMoves(b)
      BY <1>1, <1>2, <2>4 DEF FilesMove
    <3> QED BY <1>1, <2>2, <3>1 DEF DirectoryMoves, PTypeOK
  <2> QED BY <2>3, <2>4
<1>3. ASSUME NEW r \in ReleaseId
      PROVE  /\ dir'[r] = Null <=> touched'[r] = Null
             /\ \/ dir'[r] = dir[r]
                \/ dir'[r] = Null
                \/ \E b \in BuildNumber : DirectoryMoves(b) /\ r = ReleaseOf(b) /\ dir'[r] = b
             /\ \/ touched'[r] = touched[r]
                \/ touched'[r] = Null
                \/ \E b \in BuildNumber : DirectoryMoves(b) /\ touched'[r] = b
  <2>1. dir[r] = Null <=> touched[r] = Null
    BY <1>1 DEF DirectoriesAreMoved
  <2>2. CASE UNCHANGED <<dir, touched>>
    BY <2>1, <2>2
  <2>3. ASSUME NEW b \in BuildNumber, DirectoryMoves(b)
        PROVE  /\ dir'[r] = Null <=> touched'[r] = Null
               /\ dir'[r] = dir[r] \/ (r = ReleaseOf(b) /\ dir'[r] = b)
               /\ touched'[r] = touched[r] \/ touched'[r] = b
    BY <1>1, <2>1, <2>3 DEF DirectoryMoves, PTypeOK
  <2>4. ASSUME NEW b \in BuildNumber, DirectoriesGo(b)
        PROVE  /\ dir'[r] = Null <=> touched'[r] = Null
               /\ dir'[r] = dir[r] \/ dir'[r] = Null
               /\ touched'[r] = touched[r] \/ touched'[r] = Null
    BY <2>1, <2>4 DEF DirectoriesGo, Remove
  <2> QED BY <1>1, <2>2, <2>3, <2>4 DEF FilesMove
<1>4. ASSUME NEW r \in ReleaseId, NEW d, d = dir'[r], d # Null
      PROVE  WasDeploying(d)' /\ ReleaseOf(d)' = r
  <2>1. CASE d = dir[r]
    <3>1. d \in BuildNumber /\ WasDeploying(d) /\ ReleaseOf(d) = r
      BY <1>1, <1>4, <2>1 DEF PTypeOK, DirectoriesAreMoved
    <3> QED BY <3>1, WasDeployingKept
  <2>2. ASSUME DirectoryMoves(d), d \in BuildNumber, r = ReleaseOf(d)
        PROVE  WasDeploying(d)' /\ ReleaseOf(d)' = r
    <3>1. WasDeploying(d)
      BY <2>2 DEF DirectoryMoves, WasDeploying, Started, PInv, OnlyActiveBuildDeploys
    <3> QED BY <2>2, <3>1, WasDeployingKept
  <2> QED BY <1>3, <1>4, <2>1, <2>2
<1>5. ASSUME NEW r \in ReleaseId, NEW t, t = touched'[r], t # Null PROVE Started(t)'
  <2>1. CASE t = touched[r]
    <3>1. t \in BuildNumber /\ Started(t)
      BY <1>1, <1>5, <2>1 DEF PTypeOK, DirectoriesAreMoved, Kept
    <3> QED BY <3>1, StartedKept
  <2>2. ASSUME DirectoryMoves(t), t \in BuildNumber PROVE Started(t)'
    BY <2>2 DEF DirectoryMoves, Started
  <2> QED BY <1>3, <1>5, <2>1, <2>2
<1>6. IsFiniteSet(Kept')
  <2>1. CASE Kept' \subseteq Kept
    BY <1>1, <2>1, FS_Subset DEF DirectoriesAreMoved
  <2>2. ASSUME NEW b \in BuildNumber, DirectoryMoves(b) PROVE IsFiniteSet(Kept')
    <3>1. IsFiniteSet(Kept \cup {ReleaseOf(b)})
      BY <1>1, FS_AddElement DEF DirectoriesAreMoved
    <3>2. Kept' \subseteq Kept \cup {ReleaseOf(b)}
      BY <1>1, <2>2 DEF DirectoryMoves, Kept, PTypeOK
    <3> QED BY <3>1, <3>2, FS_Subset
  <2>3. ASSUME NEW b \in BuildNumber, DirectoriesGo(b) PROVE Kept' \subseteq Kept
    BY <1>1, <2>3 DEF DirectoriesGo, Remove, Kept
  <2>4. touched' = touched => Kept' \subseteq Kept
    BY DEF Kept
  <2> QED BY <1>1, <2>1, <2>2, <2>3, <2>4 DEF FilesMove
<1>7. "command" \notin Faults =>
          \A b \in BuildNumber : build'[b].step = "link" => touched'[ReleaseOf(b)'] = b
  BY <1>2 DEF ReleaseOf
<1>8. \A r \in Kept' : build'[touched'[r]].step # "none"
  BY <1>5 DEF Kept, Started
<1>9. \A r \in ReleaseId :
          dir'[r] # Null =>
              /\ build'[dir'[r]].step # "none"
              /\ job'[build'[dir'[r]].job].build = dir'[r]
              /\ job'[build'[dir'[r]].job].status \in {"deploying", "success", "failed"}
              /\ job'[build'[dir'[r]].job].release = r
  BY <1>4 DEF WasDeploying, Started, ReleaseOf
<1> QED BY <1>3, <1>6, <1>7, <1>8, <1>9 DEF DirectoriesAreMoved, WasDeploying, Started, ReleaseOf

\* A run becomes a shown one only by passing the switch.
LEMMA ShownBefore ==
    ASSUME PInv, [PNext]_pvars, NEW b \in BuildNumber, Shown(b)'
    PROVE  Shown(b) \/ PassesSwitch(b)
<1>1. /\ BuildsMove /\ FilesMove /\ ArtifactMoves /\ MessagesMove /\ RequestsMove
      /\ PTypeOK /\ b # Null
  BY StepParts, NullIsNoId DEF PInv
<1>2. CASE build'[b].step \in {"prune", "succeed"}
  <2>1. build[b].step \in {"prune", "succeed"} \/ (build[b].step # "prune" /\ build'[b].step = "prune")
    BY <1>1, <1>2 DEF BuildsMove, RunMoves, Follows
  <2> QED BY <1>1, <2>1 DEF Shown, FilesMove
<1>3. ASSUME NEW e \in sent', e.build = b, e.status = "success" PROVE Shown(b)
  <2>1. e \in sent \/ build[b].step = "succeed"
    BY <1>1, <1>3 DEF MessagesMove, NewMessage
  <2> QED BY <1>3, <2>1 DEF Shown
<1>4. ASSUME NEW p \in Session, op'[p].pc = "reconcile", op'[p].art.build = b PROVE Shown(b)
  <2>1. op'[p] = op[p] \/ op'[p].art = artifact
    BY <1>1, <1>4 DEF RequestsMove, RequestMoves
  <2> QED BY <1>4, <2>1 DEF Shown
<1>5. CASE artifact'.build = b
  BY <1>1, <1>5 DEF ArtifactMoves, Shown
<1>6. ASSUME NEW j \in JobId, job'[j].status = "success", job'[j].build = b PROVE Shown(b)
  <2>1. CASE job'[j] = job[j]
    BY <1>6, <2>1 DEF Shown
  <2>2. ASSUME NEW c \in BuildNumber, AttemptSucceeds(c), job'[j].build = c PROVE Shown(b)
    BY <1>6, <2>2 DEF AttemptSucceeds
  <2> QED BY <1>6, <2>1, <2>2, RowChange
<1> QED BY <1>2, <1>3, <1>4, <1>5, <1>6 DEF Shown

\* A shown build is that of an attempt which has been told to deploy.
LEMMA ShownAttempt ==
    ASSUME PInv, NEW b \in BuildNumber, Shown(b)
    PROVE  /\ Started(b) /\ build[b].job \in JobId /\ ReleaseOf(b) \in ReleaseId
           /\ ShownFacts(b) /\ WasDeploying(b)
BY StartedRun DEF PInv, ShownWasDeployed, ShownFacts, WasDeploying

\* What is known of a shown build stays known.
LEMMA ShownFactsKept ==
    ASSUME PInv, [PNext]_pvars, NEW b \in BuildNumber, Shown(b)
    PROVE  ShownFacts(b)'
<1>1. Started(b) /\ WasDeploying(b) /\ InPlace(b) /\ build[b].step \in Past /\ RunMoves(b)
  BY StepParts, ShownAttempt DEF ShownFacts, BuildsMove
<1>2. build'[b].step \in Past
  BY <1>1 DEF RunMoves, Past, Follows, Started
<1>3. WasDeploying(b)' /\ InPlace(b)'
  BY <1>1, WasDeployingKept, InPlaceKept
<1> QED BY <1>2, <1>3 DEF ShownFacts

\* The switch is passed for the attempt that is being deployed.
LEMMA SwitchShows ==
    ASSUME PInv, [PNext]_pvars, NEW b \in BuildNumber, PassesSwitch(b)
    PROVE  /\ Started(b) /\ active = build[b].job /\ ReleaseOf(b) = job[active].release
           /\ active \in JobId /\ ReleaseOf(b) \in ReleaseId
           /\ job[active].status = "deploying" /\ job[active].build = b
           /\ StoreRests
           /\ ShownFacts(b)'
<1>1. /\ Started(b) /\ build[b].step = "link" /\ build'[b].step = "prune"
      /\ StoreRests /\ touched' = touched
  BY DEF PassesSwitch, Started
<1>2. /\ active = build[b].job /\ job[active].status = "deploying" /\ job[active].build = b
  BY <1>1 DEF PInv, OnlyActiveBuildDeploys
<1>3. /\ active \in JobId /\ ReleaseOf(b) \in ReleaseId
      /\ ReleaseOf(b)' = ReleaseOf(b)
  BY <1>1, <1>2, StartedRun, StartedKept
<1>4. WasDeploying(b)'
  BY <1>1, <1>2, WasDeployingKept DEF WasDeploying
<1>5. InPlace(b)'
  <2>1. CASE "command" \in Faults
    BY <2>1 DEF InPlace
  <2>2. CASE "command" \notin Faults
    <3>1. touched'[ReleaseOf(b)'] = b /\ b \in Nat
      BY <1>1, <1>3, <2>2, ReleaseAssumption DEF PInv, DirectoriesAreMoved
    <3> QED BY <3>1 DEF InPlace
  <2> QED BY <2>1, <2>2
<1>6. ReleaseOf(b) = job[active].release
  BY <1>2 DEF ReleaseOf
<1>7. ShownFacts(b)'
  BY <1>1, <1>4, <1>5 DEF ShownFacts, Past
<1> QED BY <1>1, <1>2, <1>3, <1>6, <1>7

LEMMA ShownKept ==
    ASSUME PInv, [PNext]_pvars
    PROVE  ShownWasDeployed'
<1>1. ASSUME NEW b \in BuildNumber, Shown(b)' PROVE ShownFacts(b)'
  BY <1>1, ShownBefore, ShownFactsKept, SwitchShows
<1> QED BY <1>1 DEF ShownWasDeployed

LEMMA DeployersKept ==
    ASSUME PInv, [PNext]_pvars
    PROVE  OnlyActiveBuildDeploys'
<1> SUFFICES ASSUME NEW b \in BuildNumber, build'[b].step \in {"move", "link"}
             PROVE  /\ active' = build'[b].job
                    /\ job'[active'].status = "deploying" /\ job'[active'].build = b
  BY DEF OnlyActiveBuildDeploys
<1>1. JobsMove /\ RunMoves(b) /\ MoveIsAnnounced(b)
  BY StepParts DEF BuildsMove
<1>2. /\ Started(b) /\ build[b].step \in {"deploy", "move", "link"}
      /\ build'[b].job = build[b].job
      /\ build'[b].step = "link" => build[b].step \in {"move", "link"}
  BY <1>1 DEF RunMoves, Follows, Started
<1>3. CASE build[b].step \notin {"move", "link"}
  BY <1>1, <1>2, <1>3 DEF MoveIsAnnounced
<1>4. CASE build[b].step \in {"move", "link"}
  <2>1. /\ active = build[b].job /\ job[active].status = "deploying" /\ job[active].build = b
    BY <1>4 DEF PInv, OnlyActiveBuildDeploys
  <2>2. active \in JobId /\ active # Null /\ ~Shown(b)
    BY <1>2, <1>4, <2>1, StartedRun, ShownAttempt, NullIsNoId DEF ShownFacts, Past
  <2>3. CASE StoreRests
    BY <1>2, <2>1, <2>3 DEF StoreRests
  <2>4. ASSUME NEW j \in JobId, AttemptBegins(j) \/ TriggerFails(j) PROVE FALSE
    BY <2>1, <2>2, <2>4 DEF AttemptBegins, TriggerFails
  <2>5. ASSUME NEW c \in BuildNumber, NEW status \in JobStatus, AttemptGoesOn(c, status) PROVE FALSE
    BY <2>1, <2>5 DEF AttemptGoesOn
  <2>6. ASSUME NEW c \in BuildNumber, AttemptSucceeds(c) \/ AttemptFails(c) PROVE FALSE
    <3>1. c = b
      BY <2>1, <2>6, NullIsNoId DEF AttemptSucceeds, AttemptFails, Holds
    <3> QED BY <1>4, <2>2, <2>6, <3>1 DEF AttemptSucceeds, AttemptFails
  <2> QED BY <1>1, <2>3, <2>4, <2>5, <2>6 DEF JobsMove
<1> QED BY <1>3, <1>4

\* Two ways a deploying attempt can be the active one after a step.
LEMMA DeployingAttempt ==
    ASSUME PInv, [PNext]_pvars, active' # Null, job'[active'].status = "deploying",
           NEW b, b = job'[active'].build, b # Null, Shown(b)'
    PROVE  /\ b \in BuildNumber /\ StoreRests
           /\ active = build[b].job /\ job[active].status = "deploying" /\ job[active].build = b
<1>1. JobsMove /\ IInv' /\ BuildsAreRecorded'
  BY StepParts, RecordedBuildsKept
<1>2. active' \in JobId /\ b \in BuildNumber
  BY <1>1 DEF IInv, TypeOK, JobRow, NoJob
<1>3. Shown(b) \/ PassesSwitch(b)
  BY <1>2, ShownBefore
<1>4. CASE PassesSwitch(b)
  BY <1>2, <1>4, SwitchShows
<1>5. CASE Shown(b)
  <2>1. ShownFacts(b) /\ Started(b)
    BY <1>2, <1>5, ShownAttempt
  <2>2. ASSUME NEW j \in JobId, AttemptBegins(j) \/ TriggerFails(j) PROVE FALSE
    BY <2>2 DEF AttemptBegins, TriggerFails, JobChanges
  <2>3. ASSUME NEW c \in BuildNumber, AttemptSucceeds(c) \/ AttemptFails(c) PROVE FALSE
    BY <2>3 DEF AttemptSucceeds, AttemptFails
  <2>4. ASSUME NEW c \in BuildNumber, NEW status \in JobStatus, AttemptGoesOn(c, status) PROVE FALSE
    <3>1. active' = active /\ job'[active'].build = c /\ active = build[c].job
          /\ job[active].status \in {"pending", "queued", "building"}
      BY <2>4 DEF AttemptGoesOn, JobChanges, Holds
    <3> QED BY <2>1, <3>1 DEF ShownFacts, WasDeploying
  <2>5. StoreRests
    BY <1>1, <2>2, <2>3, <2>4 DEF JobsMove
  <2>6. active \in JobId /\ job[active].status = "deploying" /\ job[active].build = b
    BY <1>2, <2>5 DEF StoreRests
  <2> QED BY <1>2, <2>5, <2>6 DEF PInv, BuildsAreRecorded
<1> QED BY <1>3, <1>4, <1>5

LEMMA ShownIsLinkedKept ==
    ASSUME PInv, [PNext]_pvars
    PROVE  ShownIsLinked'
<1> SUFFICES ASSUME Undisturbed, active' # Null, job'[active'].status = "deploying",
                    NEW b \in BuildNumber, job'[active'].build = b, Shown(b)'
             PROVE  link' = job'[active'].release
  BY DEF ShownIsLinked, ActiveDeploys, Undisturbed
<1>1. /\ StoreRests
      /\ active = build[b].job /\ job[active].status = "deploying" /\ job[active].build = b
  BY DeployingAttempt, NullIsNoId
<1>2. job'[active'].release = job[active].release /\ active # Null
  BY <1>1 DEF StoreRests
<1>3. ASSUME NEW c \in BuildNumber, PassesSwitch(c) PROVE link' = job[active].release
  BY <1>3, SwitchShows DEF PassesSwitch, Undisturbed
<1>4. CASE link' = link /\ ~PassesSwitch(b)
  <2>1. Shown(b)
    BY <1>4, ShownBefore
  <2>2. link = job[active].release
    BY <1>1, <1>2, <2>1 DEF PInv, ShownIsLinked, ActiveDeploys
  <2> QED BY <1>2, <1>4, <2>2
<1>5. link' = link \/ \E c \in BuildNumber : PassesSwitch(c)
  BY StepParts DEF FilesMove, LinkSwitches, LinkRollsBack, Undisturbed
<1> QED BY <1>1, <1>2, <1>3, <1>4, <1>5

\* Attempt j accounts for a link at release r.
Accounts(j, r) ==
    /\ job[j].build # Null
    /\ \/ active = j /\ job[j].status = "deploying"
       \/ current = r /\ job[j].status = "success"
       \/ "prune" \in Faults /\ job[j].status = "failed"
       \/ ~Undisturbed /\ job[j].status \in {"success", "failed"}

LEMMA AccountedLink == LinkIsAccounted <=> (link # Null => \E j \in JobsOf(link) : Accounts(j, link))
BY DEF LinkIsAccounted, Accounts, Undisturbed, FinalJobStatus

LEMMA AccountedLinkAfter ==
    LinkIsAccounted' <=> (link' # Null => \E j \in JobsOf(link)' : Accounts(j, link)')
BY DEF LinkIsAccounted, Accounts, Undisturbed, FinalJobStatus, JobsOf

\* The attempt that accounts for the link goes on doing so while the link stays.
LEMMA AccountKept ==
    ASSUME PInv, [PNext]_pvars, NEW r \in ReleaseId, link = r,
           NEW j \in JobsOf(r), Accounts(j, r)
    PROVE  Accounts(j, r)'
<1>1. JobsMove /\ j \in JobId /\ job[j].status # "none" /\ job[j].release = r
  BY StepParts DEF JobsOf
<1>2. job'[j].build # Null
  BY <1>1, NamesKept DEF Accounts
<1>3. CASE active = j /\ job[j].status = "deploying"
  <2>1. j # Null
    BY <1>1, NullIsNoId
  <2>2. CASE StoreRests
    BY <1>2, <1>3, <2>2 DEF StoreRests, Accounts
  <2>3. ASSUME NEW k \in JobId, AttemptBegins(k) \/ TriggerFails(k) PROVE FALSE
    BY <1>3, <2>1, <2>3 DEF AttemptBegins, TriggerFails
  <2>4. ASSUME NEW c \in BuildNumber, NEW status \in JobStatus, AttemptGoesOn(c, status) PROVE FALSE
    BY <1>3, <2>4 DEF AttemptGoesOn
  <2>5. ASSUME NEW c \in BuildNumber, AttemptSucceeds(c) PROVE Accounts(j, r)'
    <3>1. job'[j].status = "success" /\ current' = r
      BY <1>1, <1>3, <2>5 DEF AttemptSucceeds, JobChanges
    <3> QED BY <1>2, <3>1 DEF Accounts
  <2>6. ASSUME NEW c \in BuildNumber, AttemptFails(c) PROVE Accounts(j, r)'
    <3>1. job'[j].status = "failed"
      BY <1>3, <2>6 DEF AttemptFails, JobChanges
    <3>2. "prune" \in Faults \/ ~Undisturbed
      <4> SUFFICES ASSUME "prune" \notin Faults, Undisturbed PROVE FALSE
        OBVIOUS
      <4>1. PICK b \in BuildNumber : job[active].build = b /\ ~FailureIsReported(b)
        BY <1>1, <1>3, <2>1 DEF PInv, SwitchedHasNotFailed, ActiveDeploys
      <4>2. c = b
        BY <2>6, <4>1, NullIsNoId DEF AttemptFails, Holds
      <4> QED BY <2>6, <4>1, <4>2 DEF AttemptFails
    <3> QED BY <1>2, <3>1, <3>2 DEF Accounts, Undisturbed
  <2> QED BY <1>1, <2>2, <2>3, <2>4, <2>5, <2>6 DEF JobsMove
<1>4. CASE job[j].status \in {"success", "failed"}
  <2>1. job'[j] = job[j]
    BY <1>1, <1>4, FinishedKept
  <2>2. CASE current = r /\ current' # r /\ Undisturbed
    <3>1. PICK c \in BuildNumber : AttemptSucceeds(c)
      BY <1>1, <2>2 DEF JobsMove, StoreRests, AttemptBegins, TriggerFails, AttemptGoesOn, AttemptFails
    <3>2. /\ active = build[c].job /\ job[active].status = "deploying" /\ Shown(c)
          /\ current' = job[active].release
      BY <3>1 DEF AttemptSucceeds, Holds
    <3>3. job[active].build = c /\ active # Null
      BY <3>2, ShownAttempt, NullIsNoId DEF WasDeploying
    <3> QED BY <2>2, <3>2, <3>3 DEF PInv, ShownIsLinked, ActiveDeploys
  <2> QED BY <1>2, <1>4, <2>1, <2>2 DEF Accounts, Undisturbed
<1> QED BY <1>3, <1>4 DEF Accounts

LEMMA LinkKept ==
    ASSUME PInv, [PNext]_pvars
    PROVE  LinkIsAccounted'
<1> SUFFICES ASSUME link' # Null PROVE \E j \in JobsOf(link)' : Accounts(j, link)'
  BY AccountedLinkAfter
<1>1. FilesMove /\ PTypeOK /\ link' \in ReleaseId
  BY StepParts DEF FilesMove
<1>2. CASE link' = link
  <2>1. PICK j \in JobsOf(link) : Accounts(j, link)
    BY <1>2, AccountedLink DEF PInv
  <2>2. Accounts(j, link)'
    BY <1>1, <1>2, <2>1, AccountKept DEF Accounts
  <2>3. j \in JobsOf(link)'
    BY <1>2, <2>1, NamesKept DEF JobsOf
  <2> QED BY <2>2, <2>3
<1>3. ASSUME NEW b \in BuildNumber, LinkSwitches(b) PROVE \E j \in JobsOf(link)' : Accounts(j, link)'
  <2>1. /\ active \in JobId /\ job[active].status = "deploying" /\ job[active].build = b
        /\ link' = job[active].release /\ StoreRests /\ b # Null
    BY <1>3, SwitchShows, NullIsNoId DEF LinkSwitches
  <2>2. PICK j \in JobId : j = active
    BY <2>1
  <2>3. j \in JobsOf(link)' /\ Accounts(j, link)'
    BY <2>1, <2>2 DEF StoreRests, JobsOf, Accounts
  <2> QED BY <2>3
<1>4. ASSUME LinkRollsBack, link' # link PROVE \E j \in JobsOf(link)' : Accounts(j, link)'
  <2>1. StoreRests /\ "rollback" \in Faults
    BY <1>1, <1>4 DEF FilesMove, LinkRollsBack
  <2>2. PICK b \in BuildNumber : b = dir[link']
    BY <1>1, <1>4 DEF LinkRollsBack, PTypeOK
  <2>3. WasDeploying(b) /\ ReleaseOf(b) = link' /\ b # Null
    BY <1>1, <1>4, <2>2, NullIsNoId DEF LinkRollsBack, PInv, DirectoriesAreMoved
  <2>4. PICK j \in JobId : /\ j = build[b].job /\ job[j].build = b /\ job[j].release = link'
                           /\ job[j].status \in {"deploying", "success", "failed"}
    BY <2>3, StartedRun DEF WasDeploying, ReleaseOf
  <2>5. job[j].status = "deploying" => active = j
    BY <2>4 DEF PInv, IInv, SingleActiveJob, InFlight, JobStatus
  <2>6. j \in JobsOf(link)' /\ Accounts(j, link)'
    BY <2>1, <2>3, <2>4, <2>5 DEF StoreRests, JobsOf, Accounts, Undisturbed
  <2> QED BY <2>6
<1> QED BY <1>1, <1>2, <1>3, <1>4 DEF FilesMove

\* A run behind the switch goes on without a failure when nothing fails there.
LEMMA BehindKept ==
    ASSUME PInv, [PNext]_pvars, "prune" \notin Faults, NEW b \in BuildNumber,
           build[b].step \in {"prune", "succeed", "done"}, ~FailureIsReported(b)
    PROVE  build'[b].step \in {"prune", "succeed", "done"} /\ ~FailureIsReported(b)'
<1>1. RunMoves(b) /\ MessagesMove
  BY StepParts DEF BuildsMove
<1>2. build'[b].step \in {"prune", "succeed", "done"}
  BY <1>1 DEF RunMoves, Follows, Started
<1>3. ASSUME NEW e \in sent', e.build = b, e.status = "failed" PROVE FALSE
  BY <1>1, <1>3 DEF MessagesMove, NewMessage, FailureIsReported
<1> QED BY <1>2, <1>3 DEF FailureIsReported

LEMMA SwitchedHasNotFailedKept ==
    ASSUME PInv, [PNext]_pvars
    PROVE  SwitchedHasNotFailed'
<1> SUFFICES ASSUME Undisturbed, "prune" \notin Faults, active' # Null,
                    job'[active'].status = "deploying", link' = job'[active'].release
             PROVE  \E b \in BuildNumber :
                        /\ job'[active'].build = b
                        /\ build'[b].step \in {"prune", "succeed", "done"}
                        /\ ~FailureIsReported(b)'
  BY DEF SwitchedHasNotFailed, ActiveDeploys, Undisturbed, FailureIsReported
<1>1. JobsMove /\ FilesMove /\ IInv' /\ IInv
  BY StepParts DEF PInv
<1>2. active' \in JobId
  BY <1>1 DEF IInv, TypeOK
<1>3. ASSUME NEW b \in BuildNumber, LinkSwitches(b)
      PROVE  /\ job'[active'].build = b
             /\ build'[b].step \in {"prune", "succeed", "done"}
             /\ ~FailureIsReported(b)'
  <2>1. /\ build[b].step = "link" /\ build'[b].step = "prune" /\ sent' = sent
        /\ job[active].build = b /\ StoreRests
    BY <1>3, SwitchShows DEF LinkSwitches, PassesSwitch
  <2>2. ~FailureIsReported(b)'
    BY <2>1 DEF FailureIsReported, PInv, SentIsReported
  <2> QED BY <2>1, <2>2 DEF StoreRests
<1>4. CASE link' = link /\ StoreRests
  <2>1. ActiveDeploys /\ link = job[active].release
    BY <1>4 DEF StoreRests, ActiveDeploys
  <2>2. PICK b \in BuildNumber : /\ job[active].build = b
                                 /\ build[b].step \in {"prune", "succeed", "done"}
                                 /\ ~FailureIsReported(b)
    BY <2>1 DEF PInv, SwitchedHasNotFailed
  <2> QED BY <1>4, <2>2, BehindKept DEF StoreRests
<1>5. ASSUME NEW c \in BuildNumber, NEW status \in JobStatus, AttemptGoesOn(c, status), link' = link
      PROVE  FALSE
  <2>1. active' = active /\ job[active].status \in {"pending", "queued", "building"} /\ active # Null
    BY <1>5 DEF AttemptGoesOn
  <2>2. Stored(active)
    BY <1>2, <2>1 DEF Stored
  <2>3. link = job[active].release /\ link \in ReleaseId /\ link # Null
    BY <1>1, <1>5, <2>1, <2>2, NamesKept, StoredRow DEF IInv, Stored
  <2>4. PICK j \in JobsOf(link) : Accounts(j, link)
    BY <2>3, AccountedLink DEF PInv
  <2>5. job[j].status = "success"
    BY <2>1, <2>4 DEF Accounts
  <2>6. LatestJob(link, j) /\ LatestJob(link, active)
    BY <1>1, <2>1, <2>3, <2>4, <2>5 DEF IInv, ReleaseMatchesJobs, ActiveIsLatest
  <2>7. j \in Nat /\ active \in Nat /\ j <= active /\ active <= j
    BY <2>6, ReleaseAssumption DEF LatestJob, JobsOf
  <2> QED BY <2>1, <2>5, <2>7
<1>6. ASSUME NEW j \in JobId, AttemptBegins(j) \/ TriggerFails(j) PROVE FALSE
  BY <1>6 DEF AttemptBegins, TriggerFails, JobChanges
<1>7. ASSUME NEW c \in BuildNumber, AttemptSucceeds(c) \/ AttemptFails(c) PROVE FALSE
  BY <1>7 DEF AttemptSucceeds, AttemptFails
<1>8. link' = link \/ \E b \in BuildNumber : LinkSwitches(b)
  BY <1>1 DEF FilesMove, LinkRollsBack, Undisturbed
<1> QED BY <1>1, <1>3, <1>4, <1>5, <1>6, <1>7, <1>8 DEF JobsMove

LEMMA InitPInv == PInit => PInv
<1> SUFFICES ASSUME PInit PROVE PInv
  OBVIOUS
<1>1. Init /\ IInv
  BY InitInv DEF PInit
<1>2. PTypeOK
  BY DEF PInit, PTypeOK, NoOp, NoBuild, Step
<1>3. /\ \A p \in Session : op[p].pc = "idle"
      /\ queue = {} /\ sent = {} /\ link = Null /\ artifact.build = Null
      /\ \A b \in BuildNumber : build[b].step = "none"
      /\ \A r \in ReleaseId : dir[r] = Null /\ touched[r] = Null
      /\ \A j \in JobId : job[j].status = "none" /\ job[j].build = Null
      /\ active = Null
  BY <1>1 DEF PInit, Init, NoOp, NoBuild, NoJob, NoFile
<1>4. \A b \in BuildNumber : ~Shown(b)
  BY <1>3, NullIsNoId DEF Shown
<1>5. IsFiniteSet(Kept) /\ Kept = {}
  BY <1>3, FS_EmptySet DEF Kept
<1> QED BY <1>1, <1>2, <1>3, <1>4, <1>5 DEF PInv, RequestsAreKnown, BuildsAreRecorded,
          SentIsReported, OnlyActiveBuildDeploys, RunsInTurn, DirectoriesAreMoved,
          ShownWasDeployed, ShownIsLinked, SwitchedHasNotFailed, ActiveDeploys, LinkIsAccounted,
          Started

LEMMA StepPInv == PInv /\ [PNext]_pvars => PInv'
<1> SUFFICES ASSUME PInv, [PNext]_pvars PROVE PInv'
  OBVIOUS
<1> QED BY StepParts, TypesKept, RequestsKept, RecordedBuildsKept, SentKept, DeployersKept,
           TurnsKept, DirectoriesKept, LinkKept, ShownKept, ShownIsLinkedKept,
           SwitchedHasNotFailedKept DEF PInv

-----------------------------------------------------------------------------
(* The theorems.                                                           *)

(* The inductive invariant holds: whatever requests, callbacks, pipeline   *)
(* runs, failures and operator actions happen, in any order.               *)
THEOREM PublishingInvariance == PSpec => []PInv
BY InitPInv, StepPInv, PTL DEF PSpec

(* The orchestrator, the pipeline and the operator use the store only      *)
(* through its transactions, so that every theorem of ReleaseProofs holds  *)
(* of the whole system (release/service.go, repository_mysql.go).          *)
THEOREM StoreBehaves == PSpec => Spec
<1>1. PInit => Init
  BY DEF PInit
<1>2. PInv /\ [PNext]_pvars => [Next]_vars
  BY EveryStepIsATransaction
<1> QED BY <1>1, <1>2, PublishingInvariance, PTL DEF PSpec, Spec

(* The request, pipeline and web server variables keep their types.        *)
THEOREM PublishingTypeCorrect == PSpec => []PTypeOK
<1>1. PInv => PTypeOK
  BY DEF PInv
<1> QED BY <1>1, PublishingInvariance, PTL

(* Files are moved and the link is switched only by the run whose job      *)
(* holds the active lock and recorded its number (Jenkinsfile.site, deploy *)
(* stage; ApplyCallbackLocked).                                            *)
THEOREM OnlyTheHolderDeploys == PSpec => []OnlyActiveBuildDeploys
<1>1. PInv => OnlyActiveBuildDeploys
  BY DEF PInv
<1> QED BY <1>1, PublishingInvariance, PTL

LEMMA CurrentFromInvariant ==
    ASSUME PInv, current # Null, "command" \notin Faults
    PROVE  \E j \in JobsOf(current) :
              \/ dir[current] # Null /\ job[j].build = dir[current]
              \/ job[j].status = "success" /\ Overtaken(job[j].build)
<1>1. /\ current \in ReleaseId /\ release[current].status = "success"
  BY DEF PInv, IInv, TypeOK, PointersMatchCurrent
<1>2. PICK j \in JobsOf(current) : job[j].status = "success"
  BY <1>1 DEF PInv, IInv, ReleaseMatchesJobs
<1>3. j \in JobId /\ job[j].release = current
  BY <1>2 DEF JobsOf
<1>4. PICK b \in BuildNumber : b = job[j].build /\ build[b].job = j
  BY <1>2, <1>3 DEF PInv, BuildsAreRecorded, IInv, TypeOK, JobRow, NoJob
<1>5. Shown(b) /\ ReleaseOf(b) = current
  BY <1>2, <1>3, <1>4 DEF Shown, ReleaseOf
<1>6. touched[current] >= b \/ Overtaken(b)
  BY <1>5, ShownAttempt DEF ShownFacts, InPlace
<1>7. CASE touched[current] >= b
  <2>1. touched[current] # Null
    BY <1>7, ReleaseAssumption DEF Null
  <2>2. PICK d \in BuildNumber : d = dir[current] /\ WasDeploying(d) /\ ReleaseOf(d) = current
    BY <1>1, <2>1 DEF PInv, DirectoriesAreMoved, PTypeOK
  <2>3. build[d].job \in JobsOf(current) /\ job[build[d].job].build = d /\ d # Null
    BY <2>2, StartedRun, NullIsNoId DEF WasDeploying
  <2> QED BY <2>2, <2>3
<1> QED BY <1>2, <1>4, <1>6, <1>7

(* The release the database calls current has its files under releases/,   *)
(* unless as many newer directories are there as are kept (the retention   *)
(* loop of deploy-static.sh, the callbacks, and ReconcileLocked).          *)
THEOREM CurrentIsOnDisk == PSpec => []CurrentHasFiles
<1>1. PInv => CurrentHasFiles
  BY CurrentFromInvariant DEF CurrentHasFiles
<1> QED BY <1>1, PublishingInvariance, PTL

(* What `current` names is the current release, or the one the active job  *)
(* is deploying; it stays at a failed attempt only if something fails      *)
(* behind the switch, and at another release only if the operator or a     *)
(* switch that failed unnoticed left it there.                             *)
THEOREM LinkIsKnown == PSpec => []LinkIsAccounted
<1>1. PInv => LinkIsAccounted
  BY DEF PInv
<1> QED BY <1>1, PublishingInvariance, PTL
=============================================================================
