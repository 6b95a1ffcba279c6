---------------------------- MODULE HotlinkCache ----------------------------
(***************************************************************************)
(* The hotlink policy kept in memory by the service (settings/hotlink.go). *)
(* Every request for a medium asks Current for the policy; the first that  *)
(* finds no valid copy loads it from the database, the others wait for its *)
(* flight.  Put stores a policy and then, in a step of its own, drops the  *)
(* copy and the flight.                                                    *)
(*                                                                         *)
(* A policy is the number of the Put that stored it, 0 the default one.    *)
(* A goroutine between two acquisitions of cacheMu takes one step; the     *)
(* look under the read lock is repeated under the write lock and is not a  *)
(* step of its own.  A reader is one request.                              *)
(***************************************************************************)
EXTENDS Naturals

CONSTANTS
    Reader,      \* requests that ask for the current policy
    NoFlight,    \* loadFlight = nil
    MaxPolicy    \* bound on the number of policies stored

ASSUME HotlinkAssumption == NoFlight \notin Reader /\ MaxPolicy \in Nat

VARIABLES
    policy,           \* hotlink_settings and referer_allowlist
    replaced,         \* policies committed by a Put that has not yet invalidated the cache
    acknowledged,     \* the newest policy whose Put has returned it
    cache, cacheValid, cacheGeneration,
    loadFlight,       \* the reader that leads the registered flight
    loadGeneration,   \* the generation each leader has started in
    readerAt,         \* where each reader is
    flightOf,         \* the leader whose flight each reader waits for
    heard,            \* what each reader has loaded, was told by its flight, or answers
    cancelled,        \* readers whose context has ended
    asked             \* acknowledged when the reader began

hotlinkReaders == <<readerAt, flightOf, heard, cancelled, asked, loadGeneration>>
hotlinkCache   == <<cache, cacheValid, cacheGeneration, loadFlight>>
hotlinkVars    == <<policy, replaced, acknowledged, hotlinkCache, hotlinkReaders>>

ReaderState == {"idle", "enter", "wait", "woken", "load", "loaded", "done"}
HotlinkLoad == [policy : 0..MaxPolicy, err : {"none", "dependency", "context"},
                invalidated : BOOLEAN]

Loaded(p)   == [policy |-> p, err |-> "none", invalidated |-> FALSE]
NotLoaded(e) == [policy |-> 0, err |-> e, invalidated |-> FALSE]

HotlinkInit ==
    /\ policy = 0 /\ replaced = {} /\ acknowledged = 0
    /\ cache = 0 /\ cacheValid = FALSE /\ cacheGeneration = 0
    /\ loadFlight = NoFlight
    /\ loadGeneration = [r \in Reader |-> 0]
    /\ readerAt = [r \in Reader |-> "idle"]
    /\ flightOf = [r \in Reader |-> NoFlight]
    /\ heard = [r \in Reader |-> Loaded(0)]
    /\ cancelled = {}
    /\ asked = [r \in Reader |-> 0]

-----------------------------------------------------------------------------

\* Put: the transaction.  When the answer to its commit is lost, Put returns
\* an error and does not touch the cache.
ReplaceHotlinkPolicy ==
    /\ policy < MaxPolicy
    /\ policy' = policy + 1
    /\ \/ replaced' = replaced \cup {policy + 1}
       \/ UNCHANGED replaced
    /\ UNCHANGED <<acknowledged, hotlinkCache, hotlinkReaders>>

\* Put: what it does to the cache, under the lock, before it returns.
InvalidateCache ==
    /\ cacheGeneration' = cacheGeneration + 1
    /\ cache' = 0
    /\ cacheValid' = FALSE
    /\ loadFlight' = NoFlight

PutReturns(p) ==
    /\ p \in replaced
    /\ replaced' = replaced \ {p}
    /\ acknowledged' = IF p > acknowledged THEN p ELSE acknowledged
    /\ InvalidateCache
    /\ UNCHANGED <<policy, hotlinkReaders>>

-----------------------------------------------------------------------------

Moves(r, from, to) == readerAt[r] = from /\ readerAt' = [readerAt EXCEPT ![r] = to]

BeginCurrent(r) ==
    /\ Moves(r, "idle", "enter")
    /\ asked' = [asked EXCEPT ![r] = acknowledged]
    /\ UNCHANGED <<policy, replaced, acknowledged, hotlinkCache, flightOf, heard, cancelled, loadGeneration>>

AnswerFromCache(r) ==
    /\ cacheValid
    /\ Moves(r, "enter", "done")
    /\ heard' = [heard EXCEPT ![r] = Loaded(cache)]
    /\ UNCHANGED <<hotlinkCache, flightOf, loadGeneration>>

JoinFlight(r) ==
    /\ ~cacheValid /\ loadFlight # NoFlight
    /\ Moves(r, "enter", "wait")
    /\ flightOf' = [flightOf EXCEPT ![r] = loadFlight]
    /\ UNCHANGED <<hotlinkCache, heard, loadGeneration>>

\* Variant: every reader that finds no policy loads it for itself.
LeadAnyFlight(r) ==
    /\ ~cacheValid
    /\ Moves(r, "enter", "load")
    /\ loadFlight' = r
    /\ loadGeneration' = [loadGeneration EXCEPT ![r] = cacheGeneration]
    /\ UNCHANGED <<cache, cacheValid, cacheGeneration, flightOf, heard>>

LeadFlight(r) ==
    /\ ~cacheValid /\ loadFlight = NoFlight
    /\ Moves(r, "enter", "load")
    /\ loadFlight' = r
    /\ loadGeneration' = [loadGeneration EXCEPT ![r] = cacheGeneration]
    /\ UNCHANGED <<cache, cacheValid, cacheGeneration, flightOf, heard>>

Enter(r) ==
    /\ AnswerFromCache(r) \/ JoinFlight(r) \/ LeadFlight(r)
    /\ UNCHANGED <<policy, replaced, acknowledged, cancelled, asked>>

\* The policy is read in one repeatable-read transaction, or the read fails.
LoadHotlinkPolicy(r) ==
    /\ Moves(r, "load", "loaded")
    /\ \/ heard' = [heard EXCEPT ![r] = Loaded(policy)]
       \/ heard' = [heard EXCEPT ![r] = NotLoaded("dependency")]
       \/ r \in cancelled /\ heard' = [heard EXCEPT ![r] = NotLoaded("context")]
    /\ UNCHANGED <<policy, replaced, acknowledged, hotlinkCache, flightOf, cancelled, asked, loadGeneration>>

GenerationChanged(r) == cacheGeneration # loadGeneration[r]

\* Variant: the policy is cached whatever happened while it was loaded.
PublishAnyLoad(r) ==
    IF heard[r].err = "none"
    THEN cache' = heard[r].policy /\ cacheValid' = TRUE
    ELSE UNCHANGED <<cache, cacheValid>>

PublishLoad(r) ==
    IF heard[r].err = "none" /\ ~GenerationChanged(r)
    THEN cache' = heard[r].policy /\ cacheValid' = TRUE
    ELSE UNCHANGED <<cache, cacheValid>>

Waiters(r) == {w \in Reader : readerAt[w] = "wait" /\ flightOf[w] = r}

\* Variant: a load that fails returns before it closes its flight.
WokenUnlessFailed(r) == IF heard[r].err = "none" THEN Waiters(r) ELSE {}

Woken(r) == Waiters(r)

\* The leader publishes what it has loaded and closes its flight; when a Put
\* came between, it starts again, and so do those that waited.
CloseFlight(r) ==
    LET flight == [heard[r] EXCEPT !.invalidated = GenerationChanged(r)] IN
    /\ readerAt[r] = "loaded"
    /\ readerAt' = [q \in Reader |->
           CASE q \in Woken(r) -> "woken"
             [] q = r -> IF GenerationChanged(r) THEN "enter" ELSE "done"
             [] OTHER -> readerAt[q]]
    /\ heard' = [q \in Reader |-> IF q \in Woken(r) THEN flight ELSE heard[q]]
    /\ flightOf' = [q \in Reader |-> IF q \in Woken(r) THEN NoFlight ELSE flightOf[q]]
    /\ PublishLoad(r)
    /\ loadFlight' = IF loadFlight = r THEN NoFlight ELSE loadFlight
    /\ loadGeneration' = [loadGeneration EXCEPT ![r] = 0]
    /\ UNCHANGED <<policy, replaced, acknowledged, cacheGeneration, cancelled, asked>>

\* A flight is of no use when a Put came between, or when its leader's context
\* ended the load and the waiter's own has not ended.
MustRetry(r) == heard[r].invalidated \/ (heard[r].err = "context" /\ r \notin cancelled)

WakeUp(r) ==
    /\ Moves(r, "woken", IF MustRetry(r) THEN "enter" ELSE "done")
    /\ UNCHANGED <<policy, replaced, acknowledged, hotlinkCache, flightOf, heard, cancelled, asked, loadGeneration>>

\* A waiter whose context ends stops waiting; when the flight has just been
\* closed, either branch of the select may be taken.
StopWaiting(r) ==
    /\ r \in cancelled
    /\ Moves(r, "wait", "done") \/ Moves(r, "woken", "done")
    /\ heard' = [heard EXCEPT ![r] = NotLoaded("context")]
    /\ UNCHANGED <<policy, replaced, acknowledged, hotlinkCache, flightOf, cancelled, asked, loadGeneration>>

CancelReader(r) ==
    /\ readerAt[r] \notin {"idle", "done"}
    /\ cancelled' = cancelled \cup {r}
    /\ UNCHANGED <<policy, replaced, acknowledged, hotlinkCache, readerAt, flightOf, heard, asked, loadGeneration>>

ReaderStep(r) == Enter(r) \/ LoadHotlinkPolicy(r) \/ CloseFlight(r) \/ WakeUp(r)

HotlinkNext ==
    \/ ReplaceHotlinkPolicy
    \/ \E p \in replaced : PutReturns(p)
    \/ \E r \in Reader : BeginCurrent(r) \/ ReaderStep(r) \/ StopWaiting(r) \/ CancelReader(r)

HotlinkSpec == HotlinkInit /\ [][HotlinkNext]_hotlinkVars

\* A goroutine that can go on does; the database answers or fails.
HotlinkFairness == \A r \in Reader : WF_hotlinkVars(ReaderStep(r))

-----------------------------------------------------------------------------

HotlinkTypeOK ==
    /\ policy \in 0..MaxPolicy /\ acknowledged \in 0..MaxPolicy
    /\ replaced \subseteq 1..MaxPolicy
    /\ cache \in 0..MaxPolicy /\ cacheValid \in BOOLEAN /\ cacheGeneration \in Nat
    /\ loadFlight \in Reader \cup {NoFlight}
    /\ loadGeneration \in [Reader -> Nat]
    /\ readerAt \in [Reader -> ReaderState]
    /\ flightOf \in [Reader -> Reader \cup {NoFlight}]
    /\ heard \in [Reader -> HotlinkLoad]
    /\ cancelled \subseteq Reader
    /\ asked \in [Reader -> 0..MaxPolicy]

\* A request that began after a Put had returned is answered with that policy or
\* a newer one, from the cache, from its own load or from another's: hotlink
\* writes invalidate the cache before they answer.
AnswersAreFresh ==
    \A r \in Reader :
        readerAt[r] = "done" /\ heard[r].err = "none" => heard[r].policy >= asked[r]

\* Requests that find no policy share one load: two loads run at once only when
\* a Put came between their beginnings.
LoadsAreShared ==
    \A q, r \in Reader :
        /\ readerAt[q] \in {"load", "loaded"}
        /\ readerAt[r] \in {"load", "loaded"}
        /\ loadGeneration[q] = loadGeneration[r]
        => q = r

\* Every request is answered, however many policies are stored and however many
\* of the leaders it waited for are cancelled or fail.
ReadsEnd == \A r \in Reader : readerAt[r] = "enter" ~> readerAt[r] = "done"
=============================================================================
