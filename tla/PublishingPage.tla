---------------------------- MODULE PublishingPage ----------------------------
(***************************************************************************)
(* The page that follows one release (publishing/PublishingPage.tsx,       *)
(* release-cache.ts, release-status.ts): it polls the release while the    *)
(* job it shows is active, starts another attempt, and is refetched when   *)
(* the window gets the focus.  What it shows is one entry of the query     *)
(* cache, which every answer overwrites, the older ones included.          *)
(*                                                                         *)
(* A view is the latest job of the release: its attempt and its status,    *)
(* which is the number of its place in the life of a job.  The list of     *)
(* releases beside it follows the same answers and is left out, and so is  *)
(* the error that is shown.                                                *)
(***************************************************************************)
EXTENDS Naturals

CONSTANTS
    ActiveStatuses,     \* the number of active statuses: they are 1..ActiveStatuses
    Poll,               \* bound on the polls that have not been answered
    NoView, Unserved,   \* no request, and one the service has not served
    MaxAttempts         \* bound on the attempts of the release

Success == ActiveStatuses + 1
Failed  == ActiveStatuses + 2

isActiveJobStatus(status) == status <= ActiveStatuses

JobView == [attempt : 1..MaxAttempts, status : 1..Failed]

ASSUME PageAssumption ==
    /\ ActiveStatuses \in Nat \ {0} /\ MaxAttempts \in Nat \ {0}
    /\ NoView # Unserved
    /\ NoView \notin JobView /\ Unserved \notin JobView

VARIABLES
    latestJob,   \* the service's latest job of the release
    detail,      \* detail.data: the view in the cache
    effect,      \* the view the running effect was started with
    poll,        \* what each poll was served, and whether its effect was disposed
    focus,       \* what the refetch was served
    retry        \* what the request of a retry was served

pageVars == <<latestJob, detail, effect, poll, focus, retry>>

CreatedJob(attempt) == [attempt |-> attempt, status |-> 1]

NoPoll == [served |-> NoView, disposed |-> FALSE]

PageInit ==
    /\ latestJob = CreatedJob(1)
    /\ detail = latestJob /\ effect = latestJob
    /\ poll = [p \in Poll |-> NoPoll]
    /\ focus = NoView /\ retry = NoView

-----------------------------------------------------------------------------

\* A callback, a reconciliation or a trigger that failed.
JobMoves ==
    /\ isActiveJobStatus(latestJob.status)
    /\ \E status \in {latestJob.status + 1, Failed} :
          latestJob' = [latestJob EXCEPT !.status = status]
    /\ UNCHANGED <<detail, effect, poll, focus, retry>>

Retried ==
    /\ latestJob.status = Failed /\ latestJob.attempt < MaxAttempts
    /\ latestJob' = CreatedJob(latestJob.attempt + 1)

RetriedElsewhere == Retried /\ UNCHANGED <<detail, effect, poll, focus, retry>>

\* The effect runs again for a view that differs, and disposes of its polls.
Rerender ==
    /\ effect # detail
    /\ effect' = detail
    /\ poll' = [p \in Poll |-> IF poll[p] = NoPoll THEN NoPoll
                               ELSE [poll[p] EXCEPT !.disposed = TRUE]]
    /\ UNCHANGED <<latestJob, detail, focus, retry>>

PollTimer(p) ==
    /\ isActiveJobStatus(effect.status)
    /\ poll[p] = NoPoll
    /\ poll' = [poll EXCEPT ![p].served = Unserved]
    /\ UNCHANGED <<latestJob, detail, effect, focus, retry>>

ServePoll(p) ==
    /\ poll[p].served = Unserved
    /\ poll' = [poll EXCEPT ![p].served = latestJob]
    /\ UNCHANGED <<latestJob, detail, effect, focus, retry>>

\* Variant: a poll is heard although its effect is gone.
HeardAlways(p) == TRUE

Heard(p) == ~poll[p].disposed

\* syncReleaseCache
AnswerPoll(p) ==
    /\ poll[p].served \notin {NoView, Unserved}
    /\ detail' = IF Heard(p) THEN poll[p].served ELSE detail
    /\ poll' = [poll EXCEPT ![p] = NoPoll]
    /\ UNCHANGED <<latestJob, effect, focus, retry>>

PollFails(p) ==
    /\ poll[p] # NoPoll
    /\ poll' = [poll EXCEPT ![p] = NoPoll]
    /\ UNCHANGED <<latestJob, detail, effect, focus, retry>>

Focus ==
    /\ focus = NoView
    /\ focus' = Unserved
    /\ UNCHANGED <<latestJob, detail, effect, poll, retry>>

ServeFocus ==
    /\ focus = Unserved
    /\ focus' = latestJob
    /\ UNCHANGED <<latestJob, detail, effect, poll, retry>>

\* The refetch belongs to the query: no effect can dispose of it.
AnswerFocus ==
    /\ focus # NoView
    /\ focus' = NoView
    /\ detail' \in {detail} \cup ({focus} \ {Unserved})
    /\ UNCHANGED <<latestJob, effect, poll, retry>>

\* The button is that of the view that was rendered.
AskRetry ==
    /\ effect = detail /\ detail.status = Failed
    /\ retry = NoView
    /\ retry' = Unserved
    /\ UNCHANGED <<latestJob, detail, effect, poll, focus>>

\* The answer will be the job as it was created.
ServeRetry ==
    /\ retry = Unserved
    /\ Retried
    /\ retry' = latestJob'
    /\ UNCHANGED <<detail, effect, poll, focus>>

AnswerRetry ==
    /\ retry \notin {NoView, Unserved}
    /\ detail' = retry /\ retry' = NoView
    /\ UNCHANGED <<latestJob, effect, poll, focus>>

\* Refused, failed, or an answer that was lost.
RetryFails ==
    /\ retry # NoView
    /\ retry' = NoView
    /\ UNCHANGED <<latestJob, detail, effect, poll, focus>>

PageNext ==
    \/ JobMoves \/ RetriedElsewhere \/ Rerender \/ Focus \/ ServeFocus \/ AnswerFocus
    \/ AskRetry \/ ServeRetry \/ AnswerRetry \/ RetryFails
    \/ \E p \in Poll : PollTimer(p) \/ ServePoll(p) \/ AnswerPoll(p) \/ PollFails(p)

PageSpec == PageInit /\ [][PageNext]_pageVars

-----------------------------------------------------------------------------

Precedes(older, newer) ==
    \/ older.attempt < newer.attempt
    \/ older.attempt = newer.attempt /\ older.status < newer.status

\* No poll takes a page that has rendered back to an earlier status or attempt: not a
\* slow one that others overtook, nor one that was sent before a retry.  The answers of
\* a refetch and of a retry have no such guard
\* (disposed in the effect of [api, detail.data, queryClient, selectedId]).
PollsGoForward ==
    [][effect = detail /\ focus' = focus /\ retry' = retry
          => detail' = detail \/ Precedes(detail, detail')]_pageVars
=============================================================================
