----------------------------- MODULE Revisions -----------------------------
(***************************************************************************)
(* The revisions of one article (service/internal/revision): the draft     *)
(* being edited, the frozen versions, and the operations of several        *)
(* browser tabs on them.  A tab knows the draft of the last answer it got, *)
(* and of that draft sends back nothing but lock_version.                  *)
(*                                                                         *)
(* A transaction that locks the articles row is one action.  Creating and  *)
(* restoring a version read and check the draft in a transaction of their  *)
(* own first (Begin...), and anything may happen before the second one     *)
(* (Commit...).  Every answer may be lost; a tab whose answer is lost      *)
(* still holds what it held.                                               *)
(*                                                                         *)
(* 0 stands for SQL NULL; an id whose row has status "none" is not in the  *)
(* table.  Title, Markdown, cover, tags and media of a revision are one    *)
(* content.  An operator whose comment begins with "Variant:" is a         *)
(* plausible mistake in the definition after it and is not used.           *)
(***************************************************************************)
EXTENDS Naturals

CONSTANTS
    Client,      \* browser tabs
    RowId,       \* ids idgen hands out for article_revisions
    Content,     \* what ValidateDraft accepts
    Blank,       \* the content of a new article: it has no title
    Freezable,   \* what ValidateFreezable accepts
    MaxLock      \* bound on article_revisions.lock_version

ASSUME RevisionsAssumption ==
    /\ 0 \notin RowId
    /\ Freezable \subseteq Content
    /\ Blank \in Content \ Freezable
    /\ MaxLock \in Nat \ {0}

VARIABLES
    row,       \* article_revisions with their tags and media
    pointer,   \* articles.draft_revision_id
    state,     \* articles.state
    held,      \* the draft each tab holds
    request    \* each tab's version or restore between its two transactions

vars == <<row, pointer, state, held, request>>

Null == 0

NoRow     == [status |-> "none", reason |-> "draft", no |-> Null, lock |-> Null, content |-> Blank]
NoDraft   == [row |-> Null, lock |-> Null, content |-> Blank]
NoRequest == [op |-> "none", target |-> Null, draft |-> NoDraft]

EditingRow(no, c) ==
    [status |-> "editing", reason |-> "draft", no |-> no, lock |-> 1, content |-> c]

\* An article is created with an empty first draft.
Init ==
    /\ pointer \in RowId
    /\ row = [r \in RowId |-> IF r = pointer THEN EditingRow(1, Blank) ELSE NoRow]
    /\ state = "active"
    /\ held = [c \in Client |-> NoDraft]
    /\ request = [c \in Client |-> NoRequest]

-----------------------------------------------------------------------------

Stored == {r \in RowId : row[r].status # "none"}
Frozen == {r \in RowId : row[r].status = "frozen"}

DraftOf(r) == [row |-> r, lock |-> row[r].lock, content |-> row[r].content]

\* The answer reaches the tab, or is lost.
Answer(c, d) == held' = [held EXCEPT ![c] = d] \/ UNCHANGED held

\* What every write locks: an active article and the editing row it names.
LockActiveEditingDraft ==
    /\ state = "active"
    /\ row[pointer].status = "editing"

\* Variant: the frozen row is copied, but the article still names it.
ReplaceRowOnly(reason, next, c) ==
    /\ row[next].status = "none"
    /\ row' = [row EXCEPT ![pointer].status = "frozen", ![pointer].reason = reason,
                          ![next] = EditingRow(row[pointer].no + 1, c)]
    /\ UNCHANGED pointer

\* Variant: the frozen row keeps the reason of a draft.
ReplaceKeepingReason(reason, next, c) ==
    /\ row[next].status = "none"
    /\ row' = [row EXCEPT ![pointer].status = "frozen",
                          ![next] = EditingRow(row[pointer].no + 1, c)]
    /\ pointer' = next

\* Variant: the new draft continues the number of the version it copies.
ReplaceNumberedByCopy(reason, next, c) ==
    /\ row[next].status = "none"
    /\ \E r \in Stored :
          /\ row[r].content = c
          /\ row' = [row EXCEPT ![pointer].status = "frozen", ![pointer].reason = reason,
                                ![next] = EditingRow(row[r].no + 1, c)]
    /\ pointer' = next

\* The draft is frozen and content c becomes the next one, at lock 1 again.
ReplaceDraft(reason, next, c) ==
    /\ row[next].status = "none"
    /\ row' = [row EXCEPT ![pointer].status = "frozen", ![pointer].reason = reason,
                          ![next] = EditingRow(row[pointer].no + 1, c)]
    /\ pointer' = next

-----------------------------------------------------------------------------

(* Reading an article: the pointer, then the row it names while that row   *)
(* is still the editing one; a pointer that moved in between is read again. *)
Load(c) ==
    /\ row[pointer].status = "editing"
    /\ held' = [held EXCEPT ![c] = DraftOf(pointer)]
    /\ UNCHANGED <<row, pointer, state, request>>

\* Variant: the lock is compared but never moves.
SaveKeepingLock(c, text) ==
    /\ LockActiveEditingDraft
    /\ row[pointer].lock = held[c].lock
    /\ row' = [row EXCEPT ![pointer].content = text]
    /\ UNCHANGED <<pointer, state, request>>
    /\ Answer(c, DraftOf(pointer)')

SaveDraft(c, text) ==
    /\ LockActiveEditingDraft
    /\ row[pointer].lock = held[c].lock
    /\ row[pointer].lock < MaxLock
    /\ row' = [row EXCEPT ![pointer].content = text, ![pointer].lock = @ + 1]
    /\ UNCHANGED <<pointer, state, request>>
    /\ Answer(c, DraftOf(pointer)')

(* The first transaction of CreateVersion and RestoreVersion reads the row *)
(* that is being edited, of an article that may be in the recycle bin.     *)
ReadDraft(c, r) ==
    /\ request[c] = NoRequest
    /\ row[r].status = "editing"
    /\ row[r].lock = held[c].lock

BeginVersion(c) ==
    \E r \in RowId :
        /\ ReadDraft(c, r)
        /\ row[r].content \in Freezable
        /\ request' = [request EXCEPT ![c] = [op |-> "version", target |-> Null, draft |-> DraftOf(r)]]
        /\ UNCHANGED <<row, pointer, state, held>>

BeginRestore(c, target) ==
    \E r \in RowId :
        /\ ReadDraft(c, r)
        /\ request' = [request EXCEPT ![c] = [op |-> "restore", target |-> target, draft |-> DraftOf(r)]]
        /\ UNCHANGED <<row, pointer, state, held>>

\* Variant: the second transaction does not compare the row it checked.
StillReadLock(d) ==
    /\ LockActiveEditingDraft
    /\ row[pointer].lock = d.lock

\* The draft that was read and checked is still the draft.
StillRead(d) ==
    /\ LockActiveEditingDraft
    /\ pointer = d.row
    /\ row[pointer].lock = d.lock

CommitVersion(c) ==
    /\ request[c].op = "version"
    /\ StillRead(request[c].draft)
    /\ \E next \in RowId :
          /\ ReplaceDraft("manual_version", next, row[pointer].content)
          /\ Answer(c, DraftOf(next)')
    /\ request' = [request EXCEPT ![c] = NoRequest]
    /\ UNCHANGED state

CommitRestore(c) ==
    /\ request[c].op = "restore"
    /\ StillRead(request[c].draft)
    /\ request[c].target \in Frozen
    /\ \E next \in RowId :
          /\ ReplaceDraft("manual_version", next, row[request[c].target].content)
          /\ Answer(c, DraftOf(next)')
    /\ request' = [request EXCEPT ![c] = NoRequest]
    /\ UNCHANGED state

\* The second transaction is refused, or fails and is rolled back.
Refuse(c) ==
    /\ request[c] # NoRequest
    /\ request' = [request EXCEPT ![c] = NoRequest]
    /\ UNCHANGED <<row, pointer, state, held>>

\* A release freezes the draft it publishes; nobody sends it a lock.
FreezeArticle ==
    /\ LockActiveEditingDraft
    /\ row[pointer].content \in Freezable
    /\ \E next \in RowId : ReplaceDraft("publish_snapshot", next, row[pointer].content)
    /\ UNCHANGED <<state, held, request>>

(* The recycle bin.  That a published article cannot be trashed is the     *)
(* subject of Release: here an article may be unpublished at any time.     *)
SetState ==
    /\ \/ state = "active" /\ state' = "trashed"
       \/ state = "trashed" /\ state' = "active"
    /\ UNCHANGED <<row, pointer, held, request>>

Next ==
    \/ \E c \in Client :
          \/ Load(c)
          \/ \E text \in Content : SaveDraft(c, text)
          \/ BeginVersion(c)
          \/ \E target \in RowId : BeginRestore(c, target)
          \/ CommitVersion(c)
          \/ CommitRestore(c)
          \/ Refuse(c)
    \/ FreezeArticle
    \/ SetState

Spec == Init /\ [][Next]_vars

-----------------------------------------------------------------------------

Status == {"none", "editing", "frozen"}
Reason == {"draft", "manual_version", "publish_snapshot"}

Lock    == 0..MaxLock
Row     == [status : Status, reason : Reason, no : Nat, lock : Lock, content : Content]
Draft   == [row : RowId \cup {Null}, lock : Lock, content : Content]
Request == [op : {"none", "version", "restore"}, target : RowId \cup {Null}, draft : Draft]

(* The type invariant.  A row that is being edited has reason draft, and a *)
(* frozen one has not: scanStoredRevision fails on any other row, and the  *)
(* article could not be opened again.                                      *)
TypeOK ==
    /\ row \in [RowId -> Row]
    /\ \A r \in RowId :
          /\ row[r].status = "frozen" <=> row[r].reason # "draft"
          /\ row[r].status # "none" => row[r].no > 0 /\ row[r].lock > 0
    /\ pointer \in RowId
    /\ state \in {"active", "trashed"}
    /\ held \in [Client -> Draft]
    /\ request \in [Client -> Request]

(* Whatever tabs and releases do at once, the article names the one row    *)
(* that is being edited, so that it can be opened, saved and published.    *)
OneDraft == \A r \in RowId : row[r].status = "editing" <=> r = pointer

(* Versions are numbered without gaps or repetitions in the order they     *)
(* were frozen, and the draft has the next number: two tabs that replace   *)
(* the draft at once never give two versions one number.                   *)
HistoryIsNumbered ==
    /\ \A r, s \in Stored : row[r].no = row[s].no => r = s
    /\ {row[r].no : r \in Stored} = 1..row[pointer].no

IsRead(d) == d.row # Null

Known(d) ==
    IsRead(d) =>
        /\ d.row \in Stored
        /\ d.lock <= row[d.row].lock
        /\ d.lock = row[d.row].lock => d.content = row[d.row].content

(* What a tab holds, and what a version or restore has checked, is what is *)
(* stored as long as the row and its lock are the same; so nothing that    *)
(* was checked before a transaction has changed when it commits.           *)
LockFixesContent == \A c \in Client : Known(held[c]) /\ Known(request[c].draft)

\* The frozen row with number n, and the history those rows make up.
VersionNo(n) == CHOOSE r \in Frozen : row[r].no = n

KeptVersions ==
    [n \in 1..(row[pointer].no - 1) |->
        [content |-> row[VersionNo(n)].content, reason |-> row[VersionNo(n)].reason]]

History == INSTANCE RevisionHistory WITH text <- row[pointer].content, versions <- KeptVersions

(* Rows and locks implement a history that only grows: every version that  *)
(* was ever made is still there, with the content the draft had; only fit  *)
(* content is named or published; restoring keeps the draft it replaces.   *)
HistoryIsAppendOnly == History!HSpec

(* No save silently destroys another one: what it replaces is what its     *)
(* author has seen, or is kept in a version.  A save made from an older    *)
(* draft than the stored one is refused.                                   *)
NoSilentOverwrite ==
    [][\A c \in Client, text \in Content :
          SaveDraft(c, text) =>
              \/ row[pointer].content \in {text, held[c].content}
              \/ \E r \in Frozen : row[r].content = row[pointer].content]_vars
=============================================================================
