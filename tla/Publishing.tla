----------------------------- MODULE Publishing -----------------------------
(***************************************************************************)
(* The publication store of Release.tla with everything that drives it:    *)
(*   - the orchestrator's Publish and Retry requests (release/service.go), *)
(*     which reconcile, create and commit a job, and only then call        *)
(*     Jenkins; the service process may stop between any two of these;     *)
(*   - the Jenkins pipeline (deploy/jenkins/Jenkinsfile.site), which       *)
(*     reports each stage by an HTTP callback and goes on only if the      *)
(*     callback was accepted;                                              *)
(*   - the web server (deploy/scripts/deploy-static.sh): the directories   *)
(*     under releases/ and the `current` link;                             *)
(*   - the copy of release.json on the service's own host, from which it   *)
(*     reconciles (BLOG_CURRENT_RELEASE_JSON_PATH, blog.env.example).      *)
(* What can go wrong is chosen per model by the constant Faults.           *)
(***************************************************************************)
EXTENDS Release, FiniteSets

CONSTANTS Session,  \* concurrent Publish / Retry requests of the admin API
          Faults,   \* the faults that may happen, a subset of Fault
          Retained  \* RETAIN of deploy-static.sh: how many directories are kept

Fault == {
    "trigger",   \* the Jenkins call errs or times out, accepted or not
    "database",  \* a commit's answer is lost, or a compensating transaction fails
    "crash",     \* the service process stops
    "network",   \* a callback or its answer is lost, delayed or repeated
    "answer",    \* the final success callback is lost
    "bundle",    \* the bundle download or its check fails
    "build",     \* the Astro build fails
    "deploy",    \* deploy-static.sh ends with an error before the link is switched
    "prune",     \* an old directory is not removed, or the script ends with an error then
    "command",   \* a command on the web server fails and nobody notices
    "abort",     \* the Jenkins build is aborted or its agent is lost
    "rebuild",   \* somebody runs the Jenkins job again by hand
    "rollback"}  \* the operator points the link at another release

ASSUME PublishingAssumption ==
    /\ Faults \subseteq Fault
    /\ 1..3 \subseteq Time
    /\ Retained \in Nat \ {0}

VARIABLES
    up,      \* the service process serves requests
    op,      \* op[p]: how far the request of session p is
    queue,   \* publish jobs waiting in the Jenkins queue
    build,   \* build[b]: the run of the pipeline with number b
    sent,    \* callbacks that may still be delivered without an answer
    dir,     \* dir[r]: the build whose files are in releases/<r>, or Null
    touched, \* touched[r]: the build that last moved something there, or Null
    link,    \* the name that `current` holds, or Null
    artifact \* the release.json the service reads, or NoFile

store == vars
web   == <<dir, touched, link>>
env   == <<up, op, queue, build, sent, web, artifact>>
pvars == <<store, env>>

NoFile  == [release |-> Null, build |-> Null, at |-> Null]
NoOp    == [pc |-> "idle", art |-> NoFile, job |-> Null]
NoBuild == [job |-> Null, step |-> "none", stage |-> "queue"]

PInit ==
    /\ Init
    /\ up = TRUE
    /\ op = [p \in Session |-> NoOp]
    /\ queue = {}
    /\ build = [b \in BuildNumber |-> NoBuild]
    /\ sent = {}
    /\ dir = [r \in ReleaseId |-> Null]
    /\ touched = [r \in ReleaseId |-> Null]
    /\ link = Null
    /\ artifact = NoFile

-----------------------------------------------------------------------------
(* The orchestrator.                                                       *)

DeployTime == 1   \* deployedAt is written before the pipeline's last reports

AggregateHasBuild(art) == \E j \in JobsOf(art.release) : job[j].build = art.build

(* Reconcile, first half: open the artifact and look its release up.  A    *)
(* missing file is no error; an unknown release or build is one.           *)
ReadArtifact(p) ==
    /\ up /\ op[p].pc = "idle"
    /\ \/ artifact = NoFile /\ op' = [op EXCEPT ![p].pc = "create"]
       \/ /\ artifact # NoFile
          /\ AggregateHasBuild(artifact)
          /\ op' = [op EXCEPT ![p].pc = "reconcile", ![p].art = artifact]
    /\ UNCHANGED <<store, up, queue, build, sent, web, artifact>>

\* Second half, on the artifact read before.
Reconcile(p) ==
    /\ op[p].pc = "reconcile"
    /\ \/ ReconcileLocked(op[p].art)
       \/ ReconcileAnswer(op[p].art) # "reconciled" /\ UNCHANGED store
    /\ \/ /\ ReconcileAnswer(op[p].art) # "required"
          /\ op' = [op EXCEPT ![p] = [NoOp EXCEPT !.pc = "create"]]
       \/ /\ ReconcileAnswer(op[p].art) = "required" \/ "database" \in Faults
          /\ op' = [op EXCEPT ![p] = NoOp]
    /\ UNCHANGED <<up, queue, build, sent, web, artifact>>

\* The builder is not usable, the site is busy, or the request is invalid.
Refuse(p) ==
    /\ op[p].pc = "create"
    /\ op' = [op EXCEPT ![p] = NoOp]
    /\ UNCHANGED <<store, up, queue, build, sent, web, artifact>>

Commit(p) ==
    /\ op[p].pc = "create"
    /\ \/ \E mode \in PublishMode, a \in Article : CreateLocked(mode, a)
       \/ \E r \in ReleaseId : CreateRetryLocked(r)
    /\ \/ op' = [op EXCEPT ![p] = [NoOp EXCEPT !.pc = "trigger", !.job = active']]
       \/ "database" \in Faults /\ op' = [op EXCEPT ![p] = NoOp]
    /\ UNCHANGED <<up, queue, build, sent, web, artifact>>

\* A failed call may have been accepted all the same.
Trigger(p) ==
    /\ op[p].pc = "trigger"
    /\ \/ /\ queue' = queue \cup {op[p].job}
          /\ op' = [op EXCEPT ![p] = NoOp]
       \/ /\ "trigger" \in Faults
          /\ queue' \in {queue, queue \cup {op[p].job}}
          /\ op' = [op EXCEPT ![p].pc = "compensate"]
    /\ UNCHANGED <<store, up, build, sent, web, artifact>>

\* Variant: a failed trigger is not compensated.
CompensateNot(p) ==
    /\ op[p].pc = "compensate"
    /\ op' = [op EXCEPT ![p] = NoOp]
    /\ UNCHANGED <<store, up, queue, build, sent, web, artifact>>

Compensate(p) ==
    /\ op[p].pc = "compensate"
    /\ \/ FailTriggerLocked(op[p].job, 1)
       \/ /\ \/ active # op[p].job
             \/ job[op[p].job].status # "pending"
             \/ "database" \in Faults
          /\ UNCHANGED store
    /\ op' = [op EXCEPT ![p] = NoOp]
    /\ UNCHANGED <<up, queue, build, sent, web, artifact>>

Crash ==
    /\ "crash" \in Faults /\ up
    /\ up' = FALSE
    /\ op' = [p \in Session |-> NoOp]
    /\ UNCHANGED <<store, queue, build, sent, web, artifact>>

(* run(): the service serves only after a successful reconciliation.  The  *)
(* store cannot change while it is down, so reading the artifact and the   *)
(* transaction are one step.                                               *)
Restart ==
    /\ ~up
    /\ up' = TRUE
    /\ \/ artifact = NoFile /\ UNCHANGED store
       \/ /\ artifact # NoFile
          /\ AggregateHasBuild(artifact)
          /\ \/ ReconcileLocked(artifact)
             \/ ReconcileAnswer(artifact) = "unchanged" /\ UNCHANGED store
    /\ UNCHANGED <<op, queue, build, sent, web, artifact>>

-----------------------------------------------------------------------------
(* The Jenkins pipeline.                                                   *)

Running(b) == build[b].step \notin {"none", "done"}
ReleaseOf(b) == job[build[b].job].release

\* The steps that send a callback, and what they send.
Reporting == {"validate", "compile", "deploy", "succeed", "failing", "postfail"}

Report(b) ==
    LET step == build[b].step IN
    [release |-> ReleaseOf(b), job |-> build[b].job, build |-> b,
     status |-> CASE step = "validate" -> "queued"
                  [] step = "compile"  -> "building"
                  [] step = "deploy"   -> "deploying"
                  [] step = "succeed"  -> "success"
                  [] OTHER             -> "failed",
     stage |-> CASE step \in {"validate", "postfail"} -> "queue"
                 [] step = "compile"                  -> "build"
                 [] step \in {"deploy", "succeed"}    -> "deploy"
                 [] OTHER                             -> build[b].stage,
     at |-> IF step = "failing" THEN 2 ELSE 3]

\* Variant: the answer is not looked at (curl without --fail).
AfterAnyReport(step, accepted) ==
    CASE step = "validate" -> "bundle" [] step = "compile" -> "build"
      [] step = "deploy" -> "move"     [] step = "failing" -> "postfail"
      [] OTHER -> "done"

\* The step after an accepted callback, and after a refused or lost one.
AfterReport(step, accepted) ==
    CASE step = "validate" -> IF accepted THEN "bundle" ELSE "postfail"
      [] step = "compile"  -> IF accepted THEN "build" ELSE "failing"
      [] step = "deploy"   -> IF accepted THEN "move" ELSE "failing"
      [] step = "failing"  -> "postfail"
      [] OTHER             -> "done"

\* A stage's failure is reported under the name of that stage.
StageOf(step) ==
    CASE step = "bundle"               -> "queue"
      [] step \in {"compile", "build"} -> "build"
      [] OTHER                         -> "deploy"

MoveTo(b, step) ==
    build' = [build EXCEPT ![b].step = step,
                           ![b].stage = IF step = "failing" THEN StageOf(build[b].step) ELSE @]

\* disableConcurrentBuilds: one run at a time.
StartBuild(b) ==
    /\ build[b].step = "none"
    /\ \A c \in BuildNumber : ~Running(c) /\ (c < b => build[c].step = "done")
    /\ \E j \in queue :
          /\ queue' = queue \ {j}
          /\ build' = [build EXCEPT ![b] = [NoBuild EXCEPT !.job = j, !.step = "validate"]]
    /\ UNCHANGED <<store, up, op, sent, web, artifact>>

\* curl got an answer: 2xx goes on, 409 fails the stage.
Answered(b) ==
    /\ up /\ build[b].step \in Reporting
    /\ \/ ApplyCallbackLocked(Report(b))
       \/ CallbackAnswer(Report(b)) # "applied" /\ UNCHANGED store
    /\ MoveTo(b, AfterReport(build[b].step,
                             CallbackAnswer(Report(b)) \in {"applied", "duplicate"}))
    /\ UNCHANGED <<up, op, queue, sent, web, artifact>>

\* curl gave up after its retries; the request may yet arrive.
GivenUp(b) ==
    /\ build[b].step \in Reporting
    /\ \/ ~up
       \/ "network" \in Faults
       \/ "answer" \in Faults /\ build[b].step = "succeed"
    /\ sent' = IF "network" \in Faults THEN sent \cup {Report(b)} ELSE sent
    /\ MoveTo(b, AfterReport(build[b].step, FALSE))
    /\ UNCHANGED <<store, up, op, queue, web, artifact>>

\* The request is served but its answer is lost; curl repeats it unchanged.
Unheard(b) ==
    /\ "network" \in Faults
    /\ up /\ build[b].step \in Reporting
    /\ ApplyCallbackLocked(Report(b))
    /\ UNCHANGED env

\* A request whose sender stopped waiting is served.
LateDelivery(e) ==
    /\ up /\ e \in sent
    /\ ApplyCallbackLocked(e)
    /\ UNCHANGED env

\* Service.Bundle: the latest attempt of the release has not failed.
BundleAvailable(r) == \E j \in JobId : LatestJob(r, j) /\ job[j].status # "failed"

DownloadBundle(b) ==
    /\ build[b].step = "bundle"
    /\ \/ up /\ BundleAvailable(ReleaseOf(b)) /\ MoveTo(b, "compile")
       \/ ("bundle" \in Faults \/ ~up \/ ~BundleAvailable(ReleaseOf(b))) /\ MoveTo(b, "failing")
    /\ UNCHANGED <<store, up, op, queue, sent, web, artifact>>

\* Variant: the move is not announced by a deploying callback.
BuildUnannounced(b) ==
    /\ build[b].step = "build"
    /\ \/ MoveTo(b, "move")
       \/ "build" \in Faults /\ MoveTo(b, "failing")
    /\ UNCHANGED <<store, up, op, queue, sent, web, artifact>>

BuildSite(b) ==
    /\ build[b].step = "build"
    /\ \/ MoveTo(b, "deploy")
       \/ "build" \in Faults /\ MoveTo(b, "failing")
    /\ UNCHANGED <<store, up, op, queue, sent, web, artifact>>

(* deploy-static.sh.  remote_sh passes "sh -c <commands>" through ssh,     *)
(* which joins its arguments: the `set -eu` in front ends up in a shell of *)
(* its own.  The tests stop nothing, a command that fails does not keep    *)
(* the next ones from running, and only the last one's status, or the loss *)
(* of the connection, ends the local script with an error.                 *)

\* mv stage releases/<id>.  Into a directory that is there the stage is moved as a
\* whole: the files at the top remain those of the earlier attempt.
MoveDirectory(b) ==
    /\ build[b].step = "move"
    /\ \/ /\ dir' = [dir EXCEPT ![ReleaseOf(b)] = IF @ = Null THEN b ELSE @]
          /\ touched' = [touched EXCEPT ![ReleaseOf(b)] = b]
          /\ MoveTo(b, "link")
       \/ "command" \in Faults /\ MoveTo(b, "link") /\ UNCHANGED <<dir, touched>>
       \/ "deploy" \in Faults /\ MoveTo(b, "failing") /\ UNCHANGED <<dir, touched>>
    /\ UNCHANGED <<store, up, op, queue, sent, link, artifact>>

\* ln -sfn <id> .current-new; mv -Tf .current-new current.  (What a failed mv leaves in
\* .current-new is not kept.)
SwitchLink(b) ==
    /\ build[b].step = "link"
    /\ \/ link' = ReleaseOf(b) /\ MoveTo(b, "prune")
       \/ "command" \in Faults /\ MoveTo(b, "prune") /\ UNCHANGED link
       \/ "deploy" \in Faults /\ MoveTo(b, "failing") /\ UNCHANGED link
    /\ UNCHANGED <<store, up, op, queue, sent, dir, touched, artifact>>

\* Directories are sorted by the time of their last change; builds run one at a time,
\* so the one of the greater number is newer.  The script knows directories by a name
\* of two characters at least.
Newer(b) == {r \in ReleaseId : r > 9 /\ touched[r] > b}

Overtaken(b) == Cardinality(Newer(b)) >= Retained

\* Variant: one directory too few is kept (-lt for -le).
SurplusAndLast ==
    {r \in ReleaseId : r > 9 /\ touched[r] # Null
                      /\ Cardinality(Newer(touched[r])) + 1 >= Retained}

Surplus == {r \in ReleaseId : r > 9 /\ touched[r] # Null /\ Overtaken(touched[r])}

Remove(releases) ==
    /\ dir' = [r \in ReleaseId |-> IF r \in releases THEN Null ELSE dir[r]]
    /\ touched' = [r \in ReleaseId |-> IF r \in releases THEN Null ELSE touched[r]]

\* What is beyond the newest directories is removed, or some of it.
Prune(b) ==
    /\ build[b].step = "prune"
    /\ \/ Remove(Surplus) /\ MoveTo(b, "succeed")
       \/ /\ "prune" \in Faults
          /\ \E removed \in SUBSET Surplus : Remove(removed)
          /\ \E step \in {"succeed", "failing"} : MoveTo(b, step)
    /\ UNCHANGED <<store, up, op, queue, sent, link, artifact>>

\* blog.env.example: the installation is to have Jenkins copy the release.json it has
\* deployed to the service's host.  No code of the repository does.
CopyArtifact(b) ==
    /\ build[b].step = "succeed"
    /\ artifact' = [release |-> ReleaseOf(b), build |-> b, at |-> DeployTime]
    /\ UNCHANGED <<store, up, op, queue, build, sent, web>>

Abort(b) ==
    /\ "abort" \in Faults /\ Running(b)
    /\ MoveTo(b, "done")
    /\ UNCHANGED <<store, up, op, queue, sent, web, artifact>>

Rebuild(b) ==
    /\ "rebuild" \in Faults
    /\ build[b].step = "done"
    /\ queue' = queue \cup {build[b].job}
    /\ UNCHANGED <<store, up, op, build, sent, web, artifact>>

\* deploy/README.md: `current` is pointed at a directory that is still there.
Rollback(r) ==
    /\ "rollback" \in Faults
    /\ dir[r] # Null
    /\ link' = r
    /\ UNCHANGED <<store, up, op, queue, build, sent, dir, touched, artifact>>

-----------------------------------------------------------------------------
SessionStep(p) == ReadArtifact(p) \/ Reconcile(p) \/ Refuse(p) \/ Commit(p)
                  \/ Trigger(p) \/ Compensate(p)

BuildStep(b) == Answered(b) \/ GivenUp(b) \/ DownloadBundle(b) \/ BuildSite(b)
                \/ MoveDirectory(b) \/ SwitchLink(b) \/ Prune(b)

PNext ==
    \/ \E p \in Session : SessionStep(p)
    \/ \E b \in BuildNumber : StartBuild(b) \/ BuildStep(b) \/ Unheard(b)
                             \/ Abort(b) \/ Rebuild(b) \/ CopyArtifact(b)
    \/ \E e \in sent : LateDelivery(e)
    \/ \E r \in ReleaseId : Rollback(r)
    \/ Crash
    \/ Restart
    \/ up /\ ContentStep /\ UNCHANGED env

PSpec == PInit /\ [][PNext]_pvars

-----------------------------------------------------------------------------
(* Only the run whose job holds the active lock, and whose number that job *)
(* recorded, touches the web server: a run that was given up, repeated by  *)
(* hand, or started for an attempt whose trigger was recorded as failed    *)
(* never gets as far as moving files (Jenkinsfile.site, deploy stage).     *)
OnlyActiveBuildDeploys ==
    \A b \in BuildNumber :
        build[b].step \in {"move", "link"} =>
            /\ active = build[b].job
            /\ job[active].status = "deploying"
            /\ job[active].build = b

(* The release the database calls current has its files under releases/,   *)
(* moved there by one of its attempts, unless the attempt that succeeded   *)
(* was followed by as many newer directories as are kept: those of         *)
(* attempts that failed after they had moved theirs (the retention loop of *)
(* deploy-static.sh, the order of the moves and of the callbacks).         *)
CurrentHasFiles ==
    current # Null /\ "command" \notin Faults =>
        \E j \in JobsOf(current) :
            \/ dir[current] # Null /\ job[j].build = dir[current]
            \/ job[j].status = "success" /\ Overtaken(job[j].build)

(* What `current` names is known to the database: the release the active   *)
(* job is deploying, or the current one.  Only an error behind the switch  *)
(* leaves it at a failed attempt, and only the operator or a switch that   *)
(* failed unnoticed at another one (the order of the script's steps and of *)
(* the callbacks).                                                         *)
LinkIsAccounted ==
    link # Null =>
        \E j \in JobsOf(link) :
            /\ job[j].build # Null
            /\ \/ active = j /\ job[j].status = "deploying"
               \/ current = link /\ job[j].status = "success"
               \/ "prune" \in Faults /\ job[j].status = "failed"
               \/ {"rollback", "command"} \cap Faults # {} /\ FinalJobStatus(job[j].status)

-----------------------------------------------------------------------------
(* Fairness.  Jenkins keeps running the pipeline it accepted and its curl  *)
(* calls end; a request handler runs to its end; and somebody publishes    *)
(* again sooner or later.  Nothing makes a fault happen.                   *)
Fairness ==
    /\ \A p \in Session : WF_pvars(SessionStep(p))
    /\ \A b \in BuildNumber : WF_pvars(StartBuild(b)) /\ WF_pvars(BuildStep(b))
    /\ WF_pvars(Restart)

FairSpec == PSpec /\ Fairness

(* The active lock is never kept for ever: whatever attempt holds it is    *)
(* eventually finished, so that publishing becomes possible again.         *)
LockIsReleased == \A j \in JobId : active = j ~> active # j

-----------------------------------------------------------------------------
(* What the documentation says of the web server.                          *)

LinkFolder == "root"   \* a bare <id> is looked up beside `current` itself

At(folder, r) == IF folder = "releases" THEN dir[r] ELSE Null

\* The build whose files nginx finds behind `current`, or Null.
Served == IF link = Null THEN Null ELSE At(LinkFolder, link)

(* Once a release is recorded as current, `current` leads to the files of  *)
(* some build (deploy/README.md: "switch a `current` symlink only after    *)
(* transfer and inspection succeed").                                      *)
CurrentIsServed == current # Null => Served # Null

(* A release whose latest attempt failed is not the one `current` names: a *)
(* failed publication does not touch the public site (design document,     *)
(* section 9).                                                             *)
FailureLeavesSite ==
    \A j \in JobId :
        job[j].status = "failed" /\ LatestJob(job[j].release, j) => link # job[j].release
=============================================================================
