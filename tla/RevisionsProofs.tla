-------------------------- MODULE RevisionsProofs --------------------------
(***************************************************************************)
(* Proofs about Revisions for every set of tabs, ids and contents.         *)
(*                                                                         *)
(* A step leaves the rows alone, saves the draft, or replaces it by a      *)
(* copy, and a tab ends up with what it had or with the draft as it then   *)
(* is.  StepIsAKind shows that; the other lemmas take the kinds one at a   *)
(* time.                                                                   *)
(***************************************************************************)
EXTENDS Revisions, SequenceTheorems, TLAPS

\* A version or restore remembers the draft it read, and a version one that
\* passed ValidateFreezable.
RequestsWereChecked ==
    \A c \in Client :
        /\ request[c].op # "none" => IsRead(request[c].draft)
        /\ request[c].op = "version" => request[c].draft.content \in Freezable

IInv ==
    /\ TypeOK
    /\ OneDraft
    /\ HistoryIsNumbered
    /\ LockFixesContent
    /\ RequestsWereChecked

-----------------------------------------------------------------------------

RowsKept == UNCHANGED <<row, pointer>>

Saved(text) ==
    /\ text \in Content
    /\ row[pointer].lock < MaxLock
    /\ row' = [row EXCEPT ![pointer].content = text, ![pointer].lock = @ + 1]
    /\ UNCHANGED pointer

Replaced(reason, next, c) ==
    /\ reason \in {"manual_version", "publish_snapshot"}
    /\ next \in RowId
    /\ ReplaceDraft(reason, next, c)
    /\ \/ c = row[pointer].content /\ c \in Freezable
       \/ reason = "manual_version" /\ \E r \in Frozen : c = row[r].content

\* The draft a read, a save or a replacement answers with.
CurrentDraft == DraftOf(pointer)

\* A request that has just passed the first transaction.
Checked(q) ==
    /\ q \in Request
    /\ q.draft = DraftOf(pointer)
    /\ q.op = "version" => q.draft.content \in Freezable
    /\ UNCHANGED row

Tabs ==
    /\ state' \in {"active", "trashed"}
    /\ held' = [c \in Client |-> held'[c]]
    /\ request' = [c \in Client |-> request'[c]]
    /\ \A c \in Client : held'[c] = held[c] \/ held'[c] = CurrentDraft'
    /\ \A c \in Client : request'[c] = request[c] \/ request'[c] = NoRequest \/ Checked(request'[c])

\* The ids, contents and locks a fresh or absent row and draft hold.
LEMMA Constants ==
    /\ Null \notin RowId
    /\ Blank \in Content
    /\ NoRow \in Row /\ NoDraft \in Draft /\ NoRequest \in Request
    /\ \A n \in Nat, c \in Content : EditingRow(n, c) \in Row
BY RevisionsAssumption DEF Null, NoRow, NoDraft, NoRequest, Row, Draft, Request, Status, Reason,
   Lock, EditingRow

\* Every step is of one of the three kinds.
LEMMA StepIsAKind ==
    ASSUME IInv, [Next]_vars
    PROVE  /\ Tabs
           /\ \/ RowsKept
              \/ \E text \in Content : Saved(text)
              \/ \E reason \in Reason, next \in RowId, c \in Content : Replaced(reason, next, c)
<1> DEFINE Kind == \/ RowsKept
                   \/ \E text \in Content : Saved(text)
                   \/ \E reason \in Reason, next \in RowId, c \in Content : Replaced(reason, next, c)
<1> USE DEF IInv, TypeOK
<1>1. ASSUME NEW c \in Client, Load(c) PROVE Tabs /\ Kind
    BY <1>1 DEF Load, Tabs, RowsKept, CurrentDraft, DraftOf
<1>2. ASSUME NEW c \in Client, NEW text \in Content, SaveDraft(c, text) PROVE Tabs /\ Kind
    <2>1. Saved(text)
        BY <1>2 DEF SaveDraft, Saved
    <2>2. Tabs
        BY <1>2 DEF SaveDraft, Tabs, Answer, CurrentDraft, DraftOf
    <2> QED BY <2>1, <2>2
<1>3. ASSUME NEW c \in Client, BeginVersion(c) PROVE Tabs /\ Kind
    <2>1. PICK r \in RowId : /\ ReadDraft(c, r) /\ row[r].content \in Freezable
                             /\ request' = [request EXCEPT ![c] =
                                    [op |-> "version", target |-> Null, draft |-> DraftOf(r)]]
                             /\ UNCHANGED <<row, pointer, state, held>>
        BY <1>3 DEF BeginVersion
    <2>2. r = pointer
        BY <2>1 DEF ReadDraft, OneDraft
    <2>3. DraftOf(r) \in Draft
        BY DEF DraftOf, Draft, Row
    <2>4. Checked(request'[c])
        BY <2>1, <2>2, <2>3 DEF Checked, Request, DraftOf
    <2> QED BY <2>1, <2>4 DEF Tabs, RowsKept
<1>4. ASSUME NEW c \in Client, NEW target \in RowId, BeginRestore(c, target) PROVE Tabs /\ Kind
    <2>1. PICK r \in RowId : /\ ReadDraft(c, r)
                             /\ request' = [request EXCEPT ![c] =
                                    [op |-> "restore", target |-> target, draft |-> DraftOf(r)]]
                             /\ UNCHANGED <<row, pointer, state, held>>
        BY <1>4 DEF BeginRestore
    <2>2. r = pointer
        BY <2>1 DEF ReadDraft, OneDraft
    <2>3. DraftOf(r) \in Draft
        BY DEF DraftOf, Draft, Row
    <2>4. Checked(request'[c])
        BY <2>1, <2>2, <2>3 DEF Checked, Request, DraftOf
    <2> QED BY <2>1, <2>4 DEF Tabs, RowsKept
<1>5. ASSUME NEW c \in Client, CommitVersion(c) PROVE Tabs /\ Kind
    <2>1. PICK next \in RowId : /\ ReplaceDraft("manual_version", next, row[pointer].content)
                                /\ Answer(c, DraftOf(next)')
        BY <1>5 DEF CommitVersion
    <2>2. request[c].op = "version" /\ pointer = request[c].draft.row
          /\ row[pointer].lock = request[c].draft.lock
        BY <1>5 DEF CommitVersion, StillRead
    <2>3. row[pointer].content = request[c].draft.content
        BY <2>2 DEF RequestsWereChecked, LockFixesContent, Known
    <2>4. row[pointer].content \in Freezable /\ row[pointer].content \in Content
        BY <2>2, <2>3 DEF RequestsWereChecked, Row
    <2>5. Replaced("manual_version", next, row[pointer].content)
        BY <2>1, <2>4 DEF Replaced
    <2>6. Tabs
        BY <1>5, <2>1 DEF CommitVersion, Tabs, Answer, ReplaceDraft, CurrentDraft, DraftOf
    <2> QED BY <2>4, <2>5, <2>6 DEF Reason
<1>6. ASSUME NEW c \in Client, CommitRestore(c) PROVE Tabs /\ Kind
    <2> DEFINE t == request[c].target
    <2>1. PICK next \in RowId : /\ ReplaceDraft("manual_version", next, row[t].content)
                                /\ Answer(c, DraftOf(next)')
        BY <1>6 DEF CommitRestore
    <2>2. t \in Frozen
        BY <1>6 DEF CommitRestore
    <2>3. row[t].content \in Content
        BY <2>2 DEF Frozen, Row
    <2>4. Replaced("manual_version", next, row[t].content)
        BY <2>1, <2>2 DEF Replaced
    <2>5. Tabs
        BY <1>6, <2>1 DEF CommitRestore, Tabs, Answer, ReplaceDraft, CurrentDraft, DraftOf
    <2> QED BY <2>3, <2>4, <2>5 DEF Reason
<1>7. ASSUME NEW c \in Client, Refuse(c) PROVE Tabs /\ Kind
    BY <1>7 DEF Refuse, Tabs, RowsKept
<1>8. ASSUME FreezeArticle PROVE Tabs /\ Kind
    <2>1. PICK next \in RowId : ReplaceDraft("publish_snapshot", next, row[pointer].content)
        BY <1>8 DEF FreezeArticle
    <2>2. row[pointer].content \in Freezable /\ row[pointer].content \in Content
        BY <1>8 DEF FreezeArticle, Row
    <2>3. Replaced("publish_snapshot", next, row[pointer].content)
        BY <2>1, <2>2 DEF Replaced
    <2>4. Tabs
        BY <1>8 DEF FreezeArticle, Tabs
    <2> QED BY <2>2, <2>3, <2>4 DEF Reason
<1>9. CASE SetState
    BY <1>9 DEF SetState, Tabs, RowsKept
<1>10. CASE UNCHANGED vars
    BY <1>10 DEF vars, Tabs, RowsKept
<1> QED BY <1>1, <1>2, <1>3, <1>4, <1>5, <1>6, <1>7, <1>8, <1>9, <1>10 DEF Next

-----------------------------------------------------------------------------

\* A save keeps the rows well formed.
LEMMA SavedTypes ==
    ASSUME IInv, NEW text \in Content, Saved(text)
    PROVE  /\ row' \in [RowId -> Row]
           /\ \A r \in RowId :
                 /\ row'[r].status = row[r].status
                 /\ row'[r].reason = row[r].reason
                 /\ row'[r].no = row[r].no
                 /\ r # pointer => row'[r] = row[r]
           /\ row'[pointer].lock = row[pointer].lock + 1
           /\ row'[pointer].content = text
BY RevisionsAssumption DEF IInv, TypeOK, Saved, Row, Lock

\* A replacement freezes the draft, adds one row and touches no other.
LEMMA ReplacedTypes ==
    ASSUME IInv, NEW reason, NEW next, NEW c \in Content, Replaced(reason, next, c)
    PROVE  /\ row' \in [RowId -> Row]
           /\ next \in RowId /\ next # pointer /\ row[next].status = "none"
           /\ row'[next].status = "editing" /\ row'[next].reason = "draft"
           /\ row'[next].no = row[pointer].no + 1 /\ row'[next].lock = 1 /\ row'[next].content = c
           /\ row'[pointer].status = "frozen" /\ row'[pointer].reason = reason
           /\ row'[pointer].no = row[pointer].no
           /\ row'[pointer].lock = row[pointer].lock
           /\ row'[pointer].content = row[pointer].content
           /\ \A r \in RowId \ {pointer, next} : row'[r] = row[r]
           /\ pointer' = next
<1> USE DEF IInv, TypeOK
<1>1. row[pointer].status = "editing"
    BY DEF OneDraft
<1>2. next \in RowId /\ next # pointer /\ row[next].status = "none" /\ pointer' = next
    BY <1>1 DEF Replaced, ReplaceDraft
<1>3. row' = [row EXCEPT ![pointer].status = "frozen", ![pointer].reason = reason,
                         ![next] = EditingRow(row[pointer].no + 1, c)]
    BY DEF Replaced, ReplaceDraft
<1>4. EditingRow(row[pointer].no + 1, c) \in Row
    BY RevisionsAssumption DEF EditingRow, Row, Lock, Status, Reason
<1>5. [[row[pointer] EXCEPT !.status = "frozen"] EXCEPT !.reason = reason] \in Row
    BY DEF Row, Replaced, Status, Reason
<1>6. row'[pointer] = [[row[pointer] EXCEPT !.status = "frozen"] EXCEPT !.reason = reason]
    BY <1>2, <1>3
<1>7. row'[next] = EditingRow(row[pointer].no + 1, c)
    BY <1>2, <1>3
<1>8. \A r \in RowId \ {pointer, next} : row'[r] = row[r]
    BY <1>3
<1>9. row' \in [RowId -> Row]
    BY <1>2, <1>3, <1>4, <1>5, <1>6, <1>7, <1>8
<1> QED BY <1>2, <1>6, <1>7, <1>8, <1>9 DEF Row, EditingRow

\* What is known of a draft that was read stays true when the rows change.
LEMMA KnownStays ==
    ASSUME IInv, [Next]_vars, NEW d \in Draft, Known(d)
    PROVE  Known(d)'
<1> USE DEF IInv, TypeOK
<1>1. CASE RowsKept
    BY <1>1 DEF RowsKept, Known, Stored, IsRead
<1>2. ASSUME NEW text \in Content, Saved(text) PROVE Known(d)'
    BY <1>2, SavedTypes DEF Known, Stored, IsRead, Draft, Row, Lock, OneDraft
<1>3. ASSUME NEW reason \in Reason, NEW next \in RowId, NEW c \in Content, Replaced(reason, next, c)
      PROVE  Known(d)'
    BY <1>3, ReplacedTypes DEF Known, Stored, IsRead, Draft
<1> QED BY <1>1, <1>2, <1>3, StepIsAKind

\* The part of the type invariant that is about the rows.
RowsTyped ==
    /\ row \in [RowId -> Row] /\ pointer \in RowId
    /\ \A r \in RowId :
          /\ row[r].status = "frozen" <=> row[r].reason # "draft"
          /\ row[r].status # "none" => row[r].no > 0 /\ row[r].lock > 0

\* Every step keeps the rows typed and the article on the one edited row.
LEMMA RowsStep ==
    ASSUME IInv, [Next]_vars
    PROVE  RowsTyped' /\ OneDraft'
<1> USE DEF IInv, TypeOK
<1>1. CASE RowsKept
    BY <1>1 DEF RowsKept, OneDraft, RowsTyped
<1>2. ASSUME NEW text \in Content, Saved(text) PROVE RowsTyped' /\ OneDraft'
    <2>1. pointer' = pointer
        BY <1>2 DEF Saved
    <2> QED BY <1>2, <2>1, SavedTypes DEF OneDraft, RowsTyped, Row, Lock
<1>3. ASSUME NEW reason \in Reason, NEW next \in RowId, NEW c \in Content, Replaced(reason, next, c)
      PROVE  RowsTyped' /\ OneDraft'
    <2>1. reason # "draft"
        BY <1>3 DEF Replaced
    <2>2. OneDraft'
        BY <1>3, ReplacedTypes DEF OneDraft
    <2>3. RowsTyped'
        <3>1. row[pointer].no > 0 /\ row[pointer].lock > 0 /\ row[pointer].no \in Nat
            BY DEF OneDraft, Row
        <3> QED BY <1>3, <2>1, <3>1, ReplacedTypes DEF RowsTyped
    <2> QED BY <2>2, <2>3
<1> QED BY <1>1, <1>2, <1>3, StepIsAKind

\* Every step keeps the numbers of the versions.
LEMMA NumbersStep ==
    ASSUME IInv, [Next]_vars
    PROVE  HistoryIsNumbered'
<1> USE DEF IInv, TypeOK
<1>1. CASE RowsKept
    BY <1>1 DEF RowsKept, HistoryIsNumbered, Stored
<1>2. ASSUME NEW text \in Content, Saved(text) PROVE HistoryIsNumbered'
    <2>1. /\ pointer' = pointer
          /\ \A r \in RowId : row'[r].no = row[r].no /\ row'[r].status = row[r].status
        <3>1. pointer' = pointer
            BY <1>2 DEF Saved
        <3> HIDE DEF IInv, TypeOK
        <3>2. \A r \in RowId : row'[r].no = row[r].no /\ row'[r].status = row[r].status
            BY <1>2, SavedTypes
        <3> QED BY <3>1, <3>2
    <2>2. Stored' = Stored
        BY <2>1 DEF Stored
    <2>3. \A r \in Stored : row'[r].no = row[r].no
        BY <2>1 DEF Stored
    <2>4. {row'[r].no : r \in Stored'} = {row[r].no : r \in Stored}
        BY <2>2, <2>3
    <2>5. row'[pointer'].no = row[pointer].no
        BY <2>1
    <2> QED BY <2>2, <2>3, <2>4, <2>5 DEF HistoryIsNumbered
<1>3. ASSUME NEW reason \in Reason, NEW next \in RowId, NEW c \in Content, Replaced(reason, next, c)
      PROVE  HistoryIsNumbered'
    <2> DEFINE k == row[pointer].no
    <2>1. k \in Nat /\ k > 0 /\ pointer \in Stored
        BY DEF OneDraft, Row, Stored
    <2>2. /\ next \notin Stored /\ next \in RowId /\ Stored' = Stored \cup {next}
          /\ row'[next].no = k + 1 /\ pointer' = next
          /\ \A r \in Stored : row'[r].no = row[r].no
        BY <1>3, <2>1, ReplacedTypes DEF Stored
    <2>3. \A r \in Stored : row[r].no \in 1..k
        BY DEF HistoryIsNumbered
    <2>4. \A r, s \in Stored' : row'[r].no = row'[s].no => r = s
        BY <2>1, <2>2, <2>3 DEF HistoryIsNumbered
    <2>5. {row'[r].no : r \in Stored'} = 1..(k + 1)
        <3>1. \A n \in 1..k : \E r \in Stored : row[r].no = n
            BY DEF HistoryIsNumbered
        <3>2. \A n \in 1..(k + 1) : \E r \in Stored' : row'[r].no = n
            BY <2>1, <2>2, <3>1
        <3>3. \A r \in Stored' : row'[r].no \in 1..(k + 1)
            BY <2>1, <2>2, <2>3
        <3> QED BY <3>2, <3>3
    <2> QED BY <2>2, <2>4, <2>5 DEF HistoryIsNumbered
<1> QED BY <1>1, <1>2, <1>3, StepIsAKind

\* Drafts held and checked after a step are drafts, and known.
LEMMA TabsStep ==
    ASSUME IInv, [Next]_vars
    PROVE  /\ state' \in {"active", "trashed"}
           /\ held' \in [Client -> Draft] /\ request' \in [Client -> Request]
           /\ LockFixesContent' /\ RequestsWereChecked'
<1> USE DEF IInv, TypeOK
<1>1. Tabs /\ RowsTyped' /\ OneDraft'
    BY StepIsAKind, RowsStep
<1>2. CurrentDraft' \in Draft /\ Known(CurrentDraft)'
    BY <1>1 DEF RowsTyped, OneDraft, CurrentDraft, DraftOf, Draft, Row, Known, Stored, Lock
<1>3. \A c \in Client : held'[c] \in Draft /\ Known(held[c])'
    <2> SUFFICES ASSUME NEW c \in Client PROVE held'[c] \in Draft /\ Known(held[c])'
        OBVIOUS
    <2>1. CASE held'[c] = held[c]
        <3>1. held[c] \in Draft /\ Known(held[c])
            BY DEF LockFixesContent
        <3>2. \A d \in Draft : Known(d) => Known(d)'
            BY KnownStays
        <3> QED BY <2>1, <3>1, <3>2 DEF Known
    <2>2. CASE held'[c] = CurrentDraft'
        BY <2>2, <1>2 DEF Known
    <2> QED BY <2>1, <2>2, <1>1 DEF Tabs
<1>4. \A c \in Client : /\ request'[c] \in Request /\ Known(request[c].draft)'
                        /\ request'[c].op # "none" => IsRead(request'[c].draft)
                        /\ request'[c].op = "version" => request'[c].draft.content \in Freezable
    <2> SUFFICES ASSUME NEW c \in Client
                 PROVE  /\ request'[c] \in Request /\ Known(request[c].draft)'
                        /\ request'[c].op # "none" => IsRead(request'[c].draft)
                        /\ request'[c].op = "version" => request'[c].draft.content \in Freezable
        OBVIOUS
    <2>1. CASE request'[c] = request[c]
        <3>1. request[c].draft \in Draft /\ Known(request[c].draft)
            BY DEF LockFixesContent, Request
        <3>2. \A d \in Draft : Known(d) => Known(d)'
            BY KnownStays
        <3>3. Known(request[c].draft)'
            BY <2>1, <3>1, <3>2 DEF Known
        <3> QED BY <2>1, <3>3 DEF RequestsWereChecked
    <2>2. CASE request'[c] = NoRequest
        BY <2>2, Constants DEF NoRequest, NoDraft, Known, IsRead
    <2>3. CASE Checked(request'[c])
        <3>1. request'[c].draft = DraftOf(pointer) /\ row' = row /\ request'[c] \in Request
              /\ (request'[c].op = "version" => request'[c].draft.content \in Freezable)
            BY <2>3 DEF Checked, CurrentDraft
        <3>2. IsRead(request'[c].draft)
            BY <3>1, RevisionsAssumption DEF IsRead, DraftOf, Null
        <3>3. Known(request[c].draft)'
            BY <3>1 DEF Known, DraftOf, Stored, OneDraft, Row, Lock
        <3> QED BY <3>1, <3>2, <3>3
    <2> QED BY <2>1, <2>2, <2>3, <1>1 DEF Tabs
<1>5. held' \in [Client -> Draft] /\ request' \in [Client -> Request]
    BY <1>1, <1>3, <1>4 DEF Tabs
<1>6. LockFixesContent'
    BY <1>3, <1>4 DEF LockFixesContent
<1>7. RequestsWereChecked'
    BY <1>4 DEF RequestsWereChecked
<1> QED BY <1>1, <1>5, <1>6, <1>7 DEF Tabs
-----------------------------------------------------------------------------

\* A new article satisfies the invariant.
LEMMA InitIsFit == Init => IInv
<1> SUFFICES ASSUME Init PROVE IInv
    OBVIOUS
<1>1. pointer \in RowId /\ row = [r \in RowId |-> IF r = pointer THEN EditingRow(1, Blank) ELSE NoRow]
    BY DEF Init
<1>2. EditingRow(1, Blank) \in Row
    BY Constants
<1>3. /\ \A r \in RowId : row[r] \in Row /\ (row[r].status = "editing" <=> r = pointer)
      /\ row \in [RowId -> Row]
    BY <1>1, <1>2, Constants DEF EditingRow, NoRow
<1>4. /\ row[pointer].status = "editing" /\ row[pointer].reason = "draft"
      /\ row[pointer].no = 1 /\ row[pointer].lock = 1
      /\ \A r \in RowId \ {pointer} : row[r].status = "none" /\ row[r].reason = "draft"
    BY <1>1 DEF EditingRow, NoRow
<1>5. TypeOK
    BY <1>1, <1>3, <1>4, Constants DEF Init, TypeOK, Request, NoRequest
<1>6. Stored = {pointer}
    BY <1>1, <1>4 DEF Stored
<1>7. HistoryIsNumbered
    BY <1>4, <1>6 DEF HistoryIsNumbered
<1>8. LockFixesContent /\ RequestsWereChecked
    BY DEF Init, LockFixesContent, RequestsWereChecked, Known, IsRead, NoDraft, NoRequest
<1> QED BY <1>3, <1>5, <1>7, <1>8 DEF IInv, OneDraft

\* Every step keeps the invariant.
LEMMA StepKeepsFit == IInv /\ [Next]_vars => IInv'
<1> SUFFICES ASSUME IInv, [Next]_vars PROVE IInv'
    OBVIOUS
<1>1. RowsTyped' /\ OneDraft'
    BY RowsStep
<1>2. HistoryIsNumbered'
    BY NumbersStep
<1>3. /\ state' \in {"active", "trashed"}
      /\ held' \in [Client -> Draft] /\ request' \in [Client -> Request]
      /\ LockFixesContent' /\ RequestsWereChecked'
    BY TabsStep
<1>4. TypeOK'
    BY <1>1, <1>3 DEF TypeOK, RowsTyped
<1> QED BY <1>1, <1>2, <1>3, <1>4 DEF IInv

\* The invariant holds in every behaviour of the revisions of an article.
LEMMA AlwaysFit == Spec => []IInv
BY InitIsFit, StepKeepsFit, PTL DEF Spec

(* Every row the repository writes is one scanStoredRevision accepts, and  *)
(* every lock and number is a value of its column.                         *)
THEOREM RevisionsAreTyped == Spec => []TypeOK
<1>1. IInv => TypeOK
    BY DEF IInv
<1> QED BY <1>1, AlwaysFit, PTL

(* However many tabs and releases replace the draft, the article names the *)
(* only row that is being edited.                                          *)
THEOREM DraftIsUnique == Spec => []OneDraft
<1>1. IInv => OneDraft
    BY DEF IInv
<1> QED BY <1>1, AlwaysFit, PTL

(* However many tabs make versions, restore them and are released, the     *)
(* versions are numbered 1, 2, ... and no two share a number.              *)
THEOREM VersionsAreNumbered == Spec => []HistoryIsNumbered
<1>1. IInv => HistoryIsNumbered
    BY DEF IInv
<1> QED BY <1>1, AlwaysFit, PTL

(* A draft read at any time, and every content checked between the two     *)
(* transactions of a version, is what is stored while row and lock agree.  *)
THEOREM LockIdentifiesContent == Spec => []LockFixesContent
<1>1. IInv => LockFixesContent
    BY DEF IInv
<1> QED BY <1>1, AlwaysFit, PTL
-----------------------------------------------------------------------------

KeptVersion == [content : Content, reason : Reason]

\* The kept versions are the frozen rows, each at its number.
VersionsAreRows ==
    /\ row[pointer].no \in Nat \ {0}
    /\ KeptVersions \in Seq(KeptVersion)
    /\ Len(KeptVersions) = row[pointer].no - 1
    /\ \A r \in Frozen :
          /\ row[r].no \in 1..Len(KeptVersions)
          /\ KeptVersions[row[r].no] = [content |-> row[r].content, reason |-> row[r].reason]
    /\ \A n \in 1..Len(KeptVersions) : \E r \in Frozen : row[r].no = n

\* There is exactly one frozen row for every number below the draft's.
LEMMA FrozenRows == IInv => VersionsAreRows
<1> SUFFICES ASSUME IInv PROVE VersionsAreRows
    OBVIOUS
<1> USE DEF IInv, TypeOK
<1> DEFINE k == row[pointer].no
<1>1. k \in Nat \ {0} /\ pointer \in Stored
    BY DEF OneDraft, Row, Stored
<1>2. Stored = Frozen \cup {pointer} /\ pointer \notin Frozen
    BY DEF OneDraft, Stored, Frozen, Row, Status
<1>3. \A r \in Frozen : r \in RowId /\ row[r].no \in 1..(k - 1)
    <2> SUFFICES ASSUME NEW r \in Frozen PROVE r \in RowId /\ row[r].no \in 1..(k - 1)
        OBVIOUS
    <2>1. row[r].no \in 1..k
        BY <1>2 DEF HistoryIsNumbered
    <2>2. row[r].no # k
        BY <1>1, <1>2 DEF HistoryIsNumbered
    <2> QED BY <1>1, <2>1, <2>2 DEF Frozen
<1>4. \A n \in 1..(k - 1) : \E r \in Frozen : row[r].no = n
    <2> SUFFICES ASSUME NEW n \in 1..(k - 1) PROVE \E r \in Frozen : row[r].no = n
        OBVIOUS
    <2>1. n \in 1..k /\ n # k
        BY <1>1
    <2>2. {row[r].no : r \in Stored} = 1..k
        BY DEF HistoryIsNumbered
    <2>3. PICK r \in Stored : row[r].no = n
        BY <2>1, <2>2
    <2>4. r # pointer
        BY <2>1, <2>3
    <2> QED BY <1>2, <2>3, <2>4
<1>5. \A r \in Frozen : VersionNo(row[r].no) = r
    <2> SUFFICES ASSUME NEW r \in Frozen PROVE VersionNo(row[r].no) = r
        OBVIOUS
    <2>1. \A s \in Frozen : row[s].no = row[r].no => s = r
        BY <1>2 DEF HistoryIsNumbered
    <2> QED BY <2>1 DEF VersionNo
<1>6. \A n \in 1..(k - 1) : VersionNo(n) \in Frozen
    BY <1>4, <1>5
<1>7. \A n \in 1..(k - 1) : KeptVersions[n] \in KeptVersion
    BY <1>3, <1>6 DEF KeptVersions, KeptVersion, Row
<1>8. KeptVersions \in Seq(KeptVersion) /\ Len(KeptVersions) = k - 1
    <2>1. k - 1 \in Nat /\ KeptVersions = [n \in 1..(k - 1) |-> KeptVersions[n]]
        BY <1>1 DEF KeptVersions
    <2>2. KeptVersions \in [1..(k - 1) -> KeptVersion]
        BY <1>7, <2>1
    <2>3. KeptVersions \in Seq(KeptVersion)
        BY <2>1, <2>2, SeqDef
    <2> QED BY <2>1, <2>2, <2>3, LenProperties
<1>9. \A r \in Frozen : KeptVersions[row[r].no] = [content |-> row[r].content, reason |-> row[r].reason]
    BY <1>3, <1>5 DEF KeptVersions
<1> QED BY <1>1, <1>3, <1>4, <1>8, <1>9 DEF VersionsAreRows

\* A step that freezes nothing leaves the kept versions alone.
LEMMA VersionsStay ==
    ASSUME VersionsAreRows, VersionsAreRows', row'[pointer'].no = row[pointer].no,
           Frozen' = Frozen,
           \A r \in Frozen : row'[r].no = row[r].no /\ row'[r].content = row[r].content
                             /\ row'[r].reason = row[r].reason
    PROVE  KeptVersions' = KeptVersions
<1>1. Len(KeptVersions') = Len(KeptVersions)
    BY DEF VersionsAreRows
<1>2. ASSUME NEW n \in 1..Len(KeptVersions) PROVE KeptVersions'[n] = KeptVersions[n]
    <2>1. PICK r \in Frozen : row[r].no = n
        BY DEF VersionsAreRows
    <2>2. KeptVersions[n] = [content |-> row[r].content, reason |-> row[r].reason]
        BY <2>1 DEF VersionsAreRows
    <2>3. KeptVersions'[n] = [content |-> row'[r].content, reason |-> row'[r].reason]
        BY <2>1 DEF VersionsAreRows
    <2> QED BY <2>2, <2>3
<1>3. KeptVersions \in Seq(KeptVersion) /\ KeptVersions' \in Seq(KeptVersion)
    BY DEF VersionsAreRows, KeptVersion
<1> QED BY <1>1, <1>2, <1>3, SeqEqual

\* A replacement appends the draft it freezes.
LEMMA VersionsGrow ==
    ASSUME IInv, VersionsAreRows, VersionsAreRows',
           NEW reason \in Reason, NEW next \in RowId, NEW c \in Content, Replaced(reason, next, c)
    PROVE  KeptVersions' = Append(KeptVersions, [content |-> row[pointer].content, reason |-> reason])
<1> DEFINE v == [content |-> row[pointer].content, reason |-> reason]
           k == Len(KeptVersions)
<1>1. /\ pointer \in RowId /\ next # pointer /\ row[next].status = "none" /\ row[pointer].status = "editing"
      /\ row'[next].status = "editing" /\ row'[next].no = row[pointer].no + 1
      /\ row'[pointer].status = "frozen" /\ row'[pointer].reason = reason
      /\ row'[pointer].no = row[pointer].no
      /\ row'[pointer].content = row[pointer].content
      /\ \A r \in RowId \ {pointer, next} : row'[r] = row[r]
      /\ pointer' = next
    BY ReplacedTypes DEF IInv, TypeOK, OneDraft
<1>2. Frozen' = Frozen \cup {pointer} /\ \A r \in Frozen : row'[r] = row[r]
    BY <1>1 DEF Frozen
<1>3. k \in Nat /\ row[pointer].no = k + 1 /\ Len(KeptVersions') = k + 1
    BY <1>1 DEF VersionsAreRows
<1>4. v \in KeptVersion
    BY <1>1 DEF KeptVersion, IInv, TypeOK, Row
<1>5. KeptVersions \in Seq(KeptVersion) /\ KeptVersions' \in Seq(KeptVersion)
    BY DEF VersionsAreRows, KeptVersion
<1>6. KeptVersions'[k + 1] = v
    <2>1. pointer \in Frozen' /\ row'[pointer].no = k + 1
        BY <1>1, <1>2, <1>3
    <2> QED BY <1>1, <2>1 DEF VersionsAreRows
<1>7. ASSUME NEW n \in 1..k PROVE KeptVersions'[n] = KeptVersions[n]
    <2>1. PICK r \in Frozen : row[r].no = n
        BY DEF VersionsAreRows
    <2>2. KeptVersions[n] = [content |-> row[r].content, reason |-> row[r].reason]
        BY <2>1 DEF VersionsAreRows
    <2>3. r \in Frozen' /\ row'[r] = row[r]
        BY <1>2
    <2>4. KeptVersions'[n] = [content |-> row'[r].content, reason |-> row'[r].reason]
        BY <2>1, <2>3 DEF VersionsAreRows
    <2> QED BY <2>2, <2>3, <2>4
<1>8. /\ Append(KeptVersions, v) \in Seq(KeptVersion)
      /\ Len(Append(KeptVersions, v)) = k + 1
      /\ \A n \in 1..k : Append(KeptVersions, v)[n] = KeptVersions[n]
      /\ Append(KeptVersions, v)[k + 1] = v
    BY <1>4, <1>5, AppendProperties
<1>9. \A n \in 1..Len(KeptVersions') : KeptVersions'[n] = Append(KeptVersions, v)[n]
    BY <1>3, <1>6, <1>7, <1>8
<1> QED BY <1>3, <1>5, <1>8, <1>9, SeqEqual

\* A new article has an empty draft and no versions.
LEMMA HistoryBegins == Init => History!HInit
<1> SUFFICES ASSUME Init PROVE History!HInit
    OBVIOUS
<1>1. row[pointer].content = Blank /\ row[pointer].no = 1
    BY DEF Init, EditingRow
<1>2. KeptVersions \in Seq(KeptVersion) /\ Len(KeptVersions) = row[pointer].no - 1
    BY InitIsFit, FrozenRows DEF VersionsAreRows
<1>3. KeptVersions = << >>
    BY <1>1, <1>2, EmptySeq
<1> QED BY <1>1, <1>3 DEF History!HInit

\* Every step edits the draft, keeps it, brings a version back, or is none
\* of the history's business.
LEMMA HistoryStep ==
    ASSUME IInv, IInv', [Next]_vars, VersionsAreRows, VersionsAreRows'
    PROVE  [History!HNext]_History!hvars
<1>1. CASE RowsKept
    <2>1. /\ row'[pointer'].no = row[pointer].no /\ Frozen' = Frozen
          /\ \A r \in Frozen : row'[r].no = row[r].no /\ row'[r].content = row[r].content
                               /\ row'[r].reason = row[r].reason
          /\ row'[pointer'].content = row[pointer].content
        BY <1>1 DEF RowsKept, Frozen
    <2>2. KeptVersions' = KeptVersions
        BY <2>1, VersionsStay
    <2> QED BY <2>1, <2>2 DEF History!hvars
<1>2. ASSUME NEW text \in Content, Saved(text) PROVE History!Edit
    <2>1. /\ \A r \in RowId : row'[r].status = row[r].status /\ row'[r].no = row[r].no
                              /\ row'[r].reason = row[r].reason
          /\ \A r \in RowId : r # pointer => row'[r] = row[r]
          /\ row'[pointer].content = text
        BY <1>2, SavedTypes
    <2>2. pointer' = pointer /\ pointer \in RowId /\ row[pointer].status = "editing"
        BY <1>2 DEF Saved, IInv, TypeOK, OneDraft
    <2>3. Frozen' = Frozen /\ pointer \notin Frozen /\ Frozen \subseteq RowId
        BY <2>1, <2>2 DEF Frozen
    <2>4. \A r \in Frozen : row'[r].no = row[r].no /\ row'[r].content = row[r].content
                            /\ row'[r].reason = row[r].reason
        BY <2>1, <2>3
    <2>5. KeptVersions' = KeptVersions
        BY <2>1, <2>2, <2>3, <2>4, VersionsStay
    <2> QED BY <2>1, <2>2, <2>5 DEF History!Edit
<1>3. ASSUME NEW reason \in Reason, NEW next \in RowId, NEW c \in Content, Replaced(reason, next, c)
      PROVE  History!KeepDraft \/ History!BringBack
    <2>1. KeptVersions' = Append(KeptVersions, [content |-> row[pointer].content, reason |-> reason])
        BY <1>3, VersionsGrow
    <2>2. row'[pointer'].content = c
        BY <1>3, ReplacedTypes
    <2>3. reason \in {"manual_version", "publish_snapshot"}
        BY <1>3 DEF Replaced
    <2>4. CASE c = row[pointer].content /\ c \in Freezable
        BY <2>1, <2>2, <2>3, <2>4 DEF History!KeepDraft, History!Keep, History!Version
    <2>5. ASSUME reason = "manual_version", NEW r \in Frozen, c = row[r].content
          PROVE  History!BringBack
        <3>1. row[r].no \in DOMAIN KeptVersions /\ KeptVersions[row[r].no].content = c
            <4>1. /\ row[r].no \in 1..Len(KeptVersions)
                  /\ KeptVersions[row[r].no] = [content |-> row[r].content, reason |-> row[r].reason]
                BY <2>5 DEF VersionsAreRows
            <4>2. DOMAIN KeptVersions = 1..Len(KeptVersions)
                BY LenProperties DEF VersionsAreRows
            <4> QED BY <2>5, <4>1, <4>2
        <3> QED BY <2>1, <2>2, <2>5, <3>1 DEF History!BringBack, History!Keep, History!Version
    <2> QED BY <1>3, <2>4, <2>5 DEF Replaced
<1> QED BY <1>1, <1>2, <1>3, StepIsAKind DEF History!HNext

(* The rows and locks of an article implement a history that only grows:   *)
(* no interleaving of saves, versions, restores and releases alters or     *)
(* loses a version that was kept, names content that is not fit, or        *)
(* restores without keeping the draft it replaces.                         *)
THEOREM HistoryOnlyGrows == Spec => HistoryIsAppendOnly
<1>1. IInv /\ IInv' /\ [Next]_vars /\ VersionsAreRows /\ VersionsAreRows'
      => [History!HNext]_History!hvars
    BY HistoryStep
<1> QED BY <1>1, AlwaysFit, FrozenRows, HistoryBegins, PTL DEF Spec, HistoryIsAppendOnly, History!HSpec
=============================================================================
