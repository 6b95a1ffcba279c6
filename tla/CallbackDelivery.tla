-------------------------- MODULE CallbackDelivery --------------------------
(***************************************************************************)
(* The way of a Jenkins callback into a job (builder/callback.go,          *)
(* httpapi/internal_auth.go, release_handler.go).  A signed message is     *)
(* accepted near its timestamp; its nonce is claimed in Redis for a while, *)
(* by one SET NX and, when that finds a claim, one GET; then the database  *)
(* applies it.  curl repeats a message whose answer it did not get, byte   *)
(* for byte.  The database step is that of Release.tla, for one job that   *)
(* holds the lock.                                                         *)
(***************************************************************************)
EXTENDS Integers

CONSTANTS
    Message,           \* messages, a status and a time each
    StatusOf,          \* [Message -> status]
    SentAt,            \* [Message -> time of its timestamp]
    NonceOf,           \* [Message -> nonce]
    Delivery,          \* requests that carry a message, one after another in each
    NoMessage,
    ClockSkew,         \* how far a timestamp may be from the clock of the service
    ReplayTTL,         \* how long a claim lives
    MaxClock           \* bound on the clock

CallbackStatus == {"pending", "queued", "building", "deploying", "success"}

ASSUME CallbackAssumption ==
    /\ NoMessage \notin Message
    /\ StatusOf \in [Message -> CallbackStatus \ {"pending"}]
    /\ SentAt \in [Message -> Int]
    /\ ClockSkew \in Nat /\ ReplayTTL \in Nat \ {0} /\ MaxClock \in Nat

VARIABLES
    clock,
    claims,        \* nonce -> the message and the end of its claim
    delivery,      \* where each delivery is, with which message and answer
    jobStatus,
    jobMessage,    \* the message that wrote the status
    appliedCount,  \* how often each message has changed the job
    claimedAt      \* when each message last claimed its nonce, -1 for never

callbackVars == <<clock, claims, delivery, jobStatus, jobMessage, appliedCount, claimedAt>>

Nonces == {NonceOf[m] : m \in Message}
Unclaimed == [message |-> NoMessage, until |-> 0]
Arrived(m, at) == [at |-> at, message |-> m]

CallbackInit ==
    /\ clock = 0
    /\ claims = [n \in Nonces |-> Unclaimed]
    /\ delivery = [d \in Delivery |-> Arrived(NoMessage, "answered")]
    /\ jobStatus = "pending" /\ jobMessage = NoMessage
    /\ appliedCount = [m \in Message |-> 0]
    /\ claimedAt = [m \in Message |-> -1]

ClaimLives(n) == claims[n].message # NoMessage /\ clock < claims[n].until

ClockTicks ==
    /\ clock < MaxClock /\ clock' = clock + 1
    /\ UNCHANGED <<claims, delivery, jobStatus, jobMessage, appliedCount, claimedAt>>

Arrive(d, at) == delivery' = [delivery EXCEPT ![d].at = at]

-----------------------------------------------------------------------------

\* The message is decoded, its time compared with the clock and its signature
\* verified; one that fails is refused and changes nothing.
FreshMessage(m) == SentAt[m] >= clock - ClockSkew /\ SentAt[m] <= clock + ClockSkew

AcceptMessage(d, m) ==
    /\ delivery[d].at \in {"answered", "replay"}
    /\ FreshMessage(m)
    /\ delivery' = [delivery EXCEPT ![d] = Arrived(m, "claim")]
    /\ UNCHANGED <<clock, claims, jobStatus, jobMessage, appliedCount, claimedAt>>

\* Variant: the nonce is set whoever has claimed it.
AnyNonceIsFree(n) == TRUE

NonceIsFree(n) == ~ClaimLives(n)

\* SET NX with the digest of the message; when its answer is lost the nonce may
\* be claimed all the same.
ClaimNonce(d) ==
    LET m == delivery[d].message
        n == NonceOf[m] IN
    /\ delivery[d].at = "claim"
    /\ IF NonceIsFree(n)
       THEN /\ claims' = [claims EXCEPT ![n] = [message |-> m, until |-> clock + ReplayTTL]]
            /\ claimedAt' = [claimedAt EXCEPT ![m] = clock]
            /\ Arrive(d, "apply") \/ Arrive(d, "answered")
       ELSE Arrive(d, "read") /\ UNCHANGED <<claims, claimedAt>>
    /\ UNCHANGED <<clock, jobStatus, jobMessage, appliedCount>>

ClaimedBySame(n, m) == ClaimLives(n) /\ claims[n].message = m

ReadClaim(d) ==
    /\ delivery[d].at = "read"
    /\ Arrive(d, IF ClaimedBySame(NonceOf[delivery[d].message], delivery[d].message)
                 THEN "apply" ELSE "replay")
    /\ UNCHANGED <<clock, claims, jobStatus, jobMessage, appliedCount, claimedAt>>

-----------------------------------------------------------------------------

\* Variant: a job may stay where it is.
MayStay(from, to) ==
    from = to \/ <<from, to>> \in {<<"pending", "queued">>, <<"queued", "building">>,
                                   <<"building", "deploying">>, <<"deploying", "success">>}

MayFollow(from, to) ==
    <<from, to>> \in {<<"pending", "queued">>, <<"queued", "building">>,
                      <<"building", "deploying">>, <<"deploying", "success">>}

\* Whether the nonce was claimed before is not looked at.
ApplyMessage(d) ==
    LET m == delivery[d].message IN
    /\ delivery[d].at = "apply"
    /\ IF MayFollow(jobStatus, StatusOf[m])
       THEN /\ jobStatus' = StatusOf[m] /\ jobMessage' = m
            /\ appliedCount' = [appliedCount EXCEPT ![m] = @ + 1]
       ELSE UNCHANGED <<jobStatus, jobMessage, appliedCount>>
    /\ Arrive(d, "answered")
    /\ UNCHANGED <<clock, claims, claimedAt>>

\* Redis or the database errs; a claim that was made stays.
DeliveryFails(d) ==
    /\ delivery[d].at \in {"claim", "read", "apply"}
    /\ Arrive(d, "answered")
    /\ UNCHANGED <<clock, claims, jobStatus, jobMessage, appliedCount, claimedAt>>

CallbackNext ==
    \/ ClockTicks
    \/ \E d \in Delivery :
        \/ \E m \in Message : AcceptMessage(d, m)
        \/ ClaimNonce(d) \/ ReadClaim(d) \/ ApplyMessage(d) \/ DeliveryFails(d)

CallbackSpec == CallbackInit /\ [][CallbackNext]_callbackVars

-----------------------------------------------------------------------------

\* A message changes the job once, however often it is delivered: at the same
\* time, after an error behind its claim, or when the claim has ended and the
\* timestamp is still near enough.
AppliedOnce == \A m \in Message : appliedCount[m] <= 1

\* While a claim lives no other message gets hold of the nonce, even when both
\* arrive at once.
NonceHasOneOwner ==
    \A l, m \in Message :
        /\ l # m /\ NonceOf[l] = NonceOf[m]
        /\ claimedAt[l] >= 0 /\ claimedAt[m] >= claimedAt[l]
        => claimedAt[m] - claimedAt[l] >= ReplayTTL
=============================================================================
