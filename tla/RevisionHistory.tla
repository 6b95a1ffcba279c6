-------------------------- MODULE RevisionHistory --------------------------
(***************************************************************************)
(* What the versions of an article promise, without rows, locks or         *)
(* clients: one draft that saves replace, and a history that only grows,   *)
(* by the draft itself.  What was kept can be brought back, and is never   *)
(* altered or lost.                                                        *)
(***************************************************************************)
EXTENDS Sequences

CONSTANTS Content, Blank, Freezable

VARIABLES text,      \* the content of the draft
          versions   \* every kept version, oldest first

hvars == <<text, versions>>

Version(c, r) == [content |-> c, reason |-> r]

Keep(r) == versions' = Append(versions, Version(text, r))

HInit == text = Blank /\ versions = << >>

Edit == text' \in Content /\ UNCHANGED versions

\* Only content fit for the site becomes a named version or is published.
KeepDraft ==
    /\ text \in Freezable
    /\ \E r \in {"manual_version", "publish_snapshot"} : Keep(r)
    /\ UNCHANGED text

\* Bringing a version back keeps the draft it replaces, fit or not.
BringBack ==
    \E n \in DOMAIN versions : Keep("manual_version") /\ text' = versions[n].content

HNext == Edit \/ KeepDraft \/ BringBack

HSpec == HInit /\ [][HNext]_hvars
=============================================================================
