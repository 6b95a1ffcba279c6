-------------------------- MODULE SerialPublishing --------------------------
(***************************************************************************)
(* What publishing promises, without jobs, callbacks or retries: there is  *)
(* a live snapshot and at most one snapshot being published.  The live one *)
(* changes only by being replaced, as a whole, by the one in progress.     *)
(***************************************************************************)
CONSTANTS Snapshot,   \* a site snapshot with one revision per article
          Empty,      \* what is live before the first release
          Idle        \* nothing is being published

VARIABLES live, pending

svars == <<live, pending>>

SInit == live = Empty /\ pending = Idle

Start == /\ pending = Idle
         /\ pending' \in Snapshot
         /\ UNCHANGED live

Publish == /\ pending # Idle
           /\ live' = pending
           /\ pending' = Idle

Abandon == /\ pending # Idle
           /\ pending' = Idle
           /\ UNCHANGED live

SNext == Start \/ Publish \/ Abandon

SSpec == SInit /\ [][SNext]_svars
=============================================================================
