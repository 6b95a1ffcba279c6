--------------------------- MODULE ContentProofs ---------------------------
(***************************************************************************)
(* Proofs about what articles refer to: tags (any tags, names, slugs,      *)
(* articles and renames) and media (any files, keys and requests).         *)
(*                                                                         *)
(* TagSnapshots: a rename leaves slugs alone, so a copy of a tag, wherever *)
(* it has been copied since, has the slug of its tag in the table          *)
(* (Copied).                                                               *)
(*                                                                         *)
(* MediaRegistry: a file has one row at most, whatever ids are drawn, so   *)
(* the row a request has found or stored is that row (FilesHaveOneRow,     *)
(* AnswersAreRows).                                                        *)
(*                                                                         *)
(* Its ids: each conflict a request has met was the result of a setback of *)
(* the counter or of a row another request stored, and a request that has  *)
(* met as many as there were of these draws an id past those in use        *)
(* (HealsWithin).  The lane of ids is arithmetic of quotients, and MAX(id) *)
(* the greatest of a set of numbers: lemmas about both come before.        *)
(***************************************************************************)
EXTENDS TagSnapshots, MediaRegistry, FiniteSetTheorems, WellFoundedInduction, TLAPS

\* A tag has a name and a slug or neither, and no slug is given twice.
TableIsSound ==
    /\ tagName \in [TagId -> TagName \cup {Nothing}]
    /\ tagSlug \in [TagId -> TagSlug \cup {Nothing}]
    /\ \A t \in TagId : tagName[t] = Nothing <=> tagSlug[t] = Nothing
    /\ \A t, u \in Known : tagSlug[t] = tagSlug[u] => t = u

Copied(tags) == \A x \in tags : x.tag \in Known /\ x.slug = tagSlug[x.tag]

CopiesAreSound ==
    /\ DOMAIN draftTags = TaggedArticle /\ DOMAIN currentTags = TaggedArticle
    /\ \A a \in TaggedArticle : Copied(draftTags[a])
    /\ \A a \in TaggedArticle : currentTags[a] # Nothing => Copied(currentTags[a])
    /\ saving # Nothing => Copied(saving.tags)

TagInv ==
    /\ TableIsSound
    /\ CopiesAreSound

-----------------------------------------------------------------------------

LEMMA TagsStart == TagsInit => TagInv
<1> SUFFICES ASSUME TagsInit PROVE TagInv
  OBVIOUS
<1> USE DEF TagsInit
<1>1. TableIsSound
  BY DEF TableIsSound, Known
<1>2. CopiesAreSound
  BY DEF CopiesAreSound, Copied
<1> QED BY <1>1, <1>2 DEF TagInv

\* Neither a new tag nor a rename changes a slug that is in use.
LEMMA TableKeepsInv ==
    ASSUME TagInv, NEW t \in TagId, NEW n \in TagName,
           RenameTag(t, n) \/ \E s \in TagSlug : CreateTag(t, n, s)
    PROVE  TagInv'
<1> USE DEF TagInv
<1>1. UNCHANGED <<draftTags, saving, currentTags>>
  BY DEF RenameTag, CreateTag
<1>2. n # Nothing
  BY TagAssumption
<1>3. TableIsSound' /\ (\A u \in Known : u \in Known' /\ tagSlug'[u] = tagSlug[u])
  <2>1. CASE RenameTag(t, n)
    <3>1. Known' = Known /\ UNCHANGED tagSlug
      BY <2>1, <1>2 DEF RenameTag, Known, TableIsSound
    <3>2. tagName' = [tagName EXCEPT ![t] = n] /\ tagName[t] # Nothing
      BY <2>1 DEF RenameTag, Known
    <3> QED BY <1>2, <3>1, <3>2 DEF TableIsSound
  <2>2. ASSUME NEW s \in TagSlug, CreateTag(t, n, s)
        PROVE  TableIsSound' /\ \A u \in Known : u \in Known' /\ tagSlug'[u] = tagSlug[u]
    <3>1. s # Nothing /\ t \notin Known
      BY <2>2, TagAssumption DEF CreateTag
    <3>2. tagName' = [tagName EXCEPT ![t] = n] /\ tagSlug' = [tagSlug EXCEPT ![t] = s]
      BY <2>2 DEF CreateTag
    <3>3. Known' = Known \cup {t}
      BY <1>2, <3>2 DEF Known, TableIsSound
    <3>4. \A u \in Known : tagSlug'[u] = tagSlug[u] /\ tagSlug[u] # s
      BY <2>2, <3>1, <3>2 DEF CreateTag, SlugIsFree, TableIsSound, Known
    <3>5. tagSlug'[t] = s
      BY <3>2 DEF TableIsSound
    <3>6. \A u, v \in Known' : tagSlug'[u] = tagSlug'[v] => u = v
      BY <3>3, <3>4, <3>5 DEF TableIsSound
    <3>7. \A u \in TagId : tagName'[u] = Nothing <=> tagSlug'[u] = Nothing
      BY <1>2, <3>1, <3>2 DEF TableIsSound
    <3> QED BY <3>2, <3>3, <3>4, <3>6, <3>7 DEF TableIsSound
  <2> QED BY <2>1, <2>2
<1>4. ASSUME NEW tags, Copied(tags) PROVE Copied(tags)'
  BY <1>3, <1>4 DEF Copied
<1>5. CopiesAreSound'
  BY <1>1, <1>4 DEF CopiesAreSound, Copied
<1> QED BY <1>3, <1>5

\* Drafts get copies of the table, of a save that has them, or of a version.
LEMMA DraftsKeepInv ==
    ASSUME TagInv, NEW a \in TaggedArticle,
           RestoreTags(a) \/ StoreDraftTags \/ \E ids \in SUBSET TagId : ResolveTags(a, ids)
    PROVE  TagInv'
<1> USE DEF TagInv
<1>1. UNCHANGED <<tagName, tagSlug, currentTags>>
  BY DEF RestoreTags, StoreDraftTags, ResolveTags, tagTable
<1>2. TableIsSound' /\ \A tags : Copied(tags)' <=> Copied(tags)
  BY <1>1 DEF TableIsSound, Known, Copied
<1>3. CASE RestoreTags(a)
  BY <1>1, <1>2, <1>3 DEF RestoreTags, CopiesAreSound, Copied, Known
<1>4. CASE StoreDraftTags
  BY <1>1, <1>2, <1>4 DEF StoreDraftTags, CopiesAreSound, Copied, Known
<1>5. ASSUME NEW ids \in SUBSET TagId, ResolveTags(a, ids) PROVE CopiesAreSound'
  <2>1. Copied(Snapshots(ids))
    BY <1>5 DEF ResolveTags, Snapshots, Copied
  <2>2. saving'.tags = Snapshots(ids) /\ UNCHANGED draftTags
    BY <1>5 DEF ResolveTags
  <2> QED BY <1>1, <2>1, <2>2 DEF CopiesAreSound, Copied, Known
<1> QED BY <1>2, <1>3, <1>4, <1>5

\* A release carries the copies of drafts and of the release before.
LEMMA ReleasesKeepInv ==
    ASSUME TagInv, NEW a \in TaggedArticle, PublishTags(a) \/ UnpublishTags(a)
    PROVE  TagInv'
<1> USE DEF TagInv
<1>1. UNCHANGED <<tagName, tagSlug, draftTags, saving>>
  BY DEF PublishTags, UnpublishTags, tagTable
<1>2. TableIsSound'
  BY <1>1 DEF TableIsSound, Known
<1>3. \A tags : Copied(tags)' <=> Copied(tags)
  BY <1>1 DEF Copied, Known
<1>4. CASE PublishTags(a)
  <2>1. currentTags' = WithArticle(a)
    BY <1>4 DEF PublishTags
  <2>2. CopiesAreSound'
    BY <1>1, <1>3, <2>1 DEF WithArticle, CopiesAreSound, Copied, Known
  <2> QED BY <1>2, <2>2
<1>5. CASE UnpublishTags(a)
  <2>1. currentTags' = [currentTags EXCEPT ![a] = Nothing]
    BY <1>5 DEF UnpublishTags
  <2>2. CopiesAreSound'
    BY <1>1, <1>3, <2>1 DEF CopiesAreSound, Copied, Known
  <2> QED BY <1>2, <2>2
<1> QED BY <1>4, <1>5

LEMMA TagsStep == TagInv /\ [TagsNext]_tagVars => TagInv'
<1> SUFFICES ASSUME TagInv, [TagsNext]_tagVars PROVE TagInv'
  OBVIOUS
<1>1. CASE UNCHANGED tagVars
  BY <1>1 DEF tagVars, tagTable, TagInv, TableIsSound, CopiesAreSound, Copied, Known
<1>2. ASSUME NEW t \in TagId, NEW n \in TagName, RenameTag(t, n) \/ \E s \in TagSlug : CreateTag(t, n, s)
      PROVE  TagInv'
  BY <1>2, TableKeepsInv
<1>3. ASSUME NEW a \in TaggedArticle, RestoreTags(a) \/ \E ids \in SUBSET TagId : ResolveTags(a, ids)
      PROVE  TagInv'
  BY <1>3, DraftsKeepInv
<1>4. ASSUME NEW a \in TaggedArticle, PublishTags(a) \/ UnpublishTags(a) PROVE TagInv'
  BY <1>4, ReleasesKeepInv
<1>5. CASE StoreDraftTags
  <2>1. CASE TaggedArticle # {}
    BY <1>5, <2>1, DraftsKeepInv
  <2>2. CASE TaggedArticle = {}
    BY <1>5, <2>2 DEF StoreDraftTags, tagTable, TagInv, TableIsSound, CopiesAreSound, Copied, Known
  <2> QED BY <2>1, <2>2
<1> QED BY <1>1, <1>2, <1>3, <1>4, <1>5 DEF TagsNext

-----------------------------------------------------------------------------

THEOREM TagInvariance == TagsSpec => []TagInv
BY TagsStart, TagsStep, PTL DEF TagsSpec

\* tag/repository_mysql.go Rename, release/bundle.go: the slug of every stored copy is that
\* of its tag and of no other, after any renames, restores and releases.
THEOREM LinksStayStable == TagsSpec => []TagLinksAreStable
<1>1. TagInv => TagLinksAreStable
  <2> SUFFICES ASSUME TagInv, NEW x \in StoredTags, NEW t \in TagId
               PROVE  x.slug = tagSlug[t] <=> x.tag = t
    BY DEF TagLinksAreStable
  <2>1. x.tag \in Known /\ x.slug = tagSlug[x.tag]
    BY DEF StoredTags, Carried, TagInv, CopiesAreSound, Copied
  <2>2. x.slug # Nothing
    BY <2>1 DEF Known, TagInv, TableIsSound
  <2>3. x.slug = tagSlug[t] => t \in Known
    BY <2>2 DEF Known, TagInv, TableIsSound
  <2> QED BY <2>1, <2>3 DEF TagInv, TableIsSound
<1> QED BY <1>1, TagInvariance, PTL

-----------------------------------------------------------------------------

\* The fields of a request; nothing is asked of what they hold.
IsUpload(x) ==
    x = [at |-> x.at, file |-> x.file, key |-> x.key, keys |-> x.keys, id |-> x.id,
         heals |-> x.heals, floor |-> x.floor, answer |-> x.answer]

UploadsHaveFields == DOMAIN upload = Uploader /\ \A u \in Uploader : IsUpload(upload[u])

FilesHaveOneRow == \A x, y \in media : x.file = y.file => x = y

Answered(x, rows) == x.at = "done" => x.answer \in rows /\ x.answer.file = x.file

AnswersAreRows == \A u \in Uploader : Answered(upload[u], media)

MediaInv == UploadsHaveFields /\ FilesHaveOneRow /\ AnswersAreRows

-----------------------------------------------------------------------------

LEMMA MediaStarts == MediaInit => MediaInv
<1> SUFFICES ASSUME MediaInit PROVE MediaInv
  OBVIOUS
<1>1. UploadsHaveFields
  BY DEF MediaInit, UploadsHaveFields, IsUpload
<1>2. FilesHaveOneRow /\ AnswersAreRows
  BY DEF MediaInit, FilesHaveOneRow, AnswersAreRows, Answered
<1> QED BY <1>1, <1>2 DEF MediaInv

\* A step that stores no row and leaves the request answered by a row, if at all.
LEMMA UnstoredKeepsInv ==
    ASSUME MediaInv, NEW u \in Uploader, NEW x, IsUpload(x), Answered(x, media),
           upload' = [upload EXCEPT ![u] = x], UNCHANGED media
    PROVE  MediaInv'
BY DEF MediaInv, UploadsHaveFields, FilesHaveOneRow, AnswersAreRows

\* What a request does to its own fields.
LEMMA FieldsChange ==
    ASSUME NEW x, IsUpload(x), NEW at, NEW y, at # "done",
           \/ \E id : y = [x EXCEPT !.at = at, !.id = id]
           \/ \E floor : y = [x EXCEPT !.at = at, !.floor = floor]
           \/ \E k : y = [x EXCEPT !.at = at, !.key = k, !.keys = x.keys + 1, !.heals = 0]
           \/ y = [x EXCEPT !.at = at, !.heals = x.heals + 1]
           \/ y = [x EXCEPT !.at = at]
    PROVE  IsUpload(y) /\ \A rows : Answered(y, rows)
BY DEF IsUpload, Answered

LEMMA AnswersEnd ==
    ASSUME NEW x, IsUpload(x), NEW row, row.file = x.file,
           NEW y, y = [x EXCEPT !.at = "done", !.answer = row]
    PROVE  IsUpload(y) /\ \A rows : row \in rows => Answered(y, rows)
BY DEF IsUpload, Answered

\* The unique key on the file lets a row be stored where there is none.
LEMMA InsertKeepsInv ==
    ASSUME MediaInv, NEW u \in Uploader, InsertRow(u)
    PROVE  MediaInv'
<1> USE DEF MediaInv
<1>1. IsUpload(upload[u]) /\ DOMAIN upload = Uploader
  BY DEF UploadsHaveFields
<1>2. media' = media \cup {NewRow(u)} /\ NewRow(u).file = upload[u].file
  BY DEF InsertRow, NewRow
<1>3. RowsOf(upload[u].file) = {}
  BY DEF InsertRow, InsertConflict
<1>4. FilesHaveOneRow'
  BY <1>2, <1>3 DEF FilesHaveOneRow, RowsOf
<1>5. PICK x : upload' = [upload EXCEPT ![u] = x] /\ IsUpload(x) /\ Answered(x, media')
  <2>1. CASE UploadMoves(u, "insert", [upload[u] EXCEPT !.at = "done", !.answer = NewRow(u)])
    <3> DEFINE x == [upload[u] EXCEPT !.at = "done", !.answer = NewRow(u)]
    <3>1. IsUpload(x) /\ \A rows : NewRow(u) \in rows => Answered(x, rows)
      BY <1>1, <1>2, AnswersEnd
    <3>2. NewRow(u) \in media'
      BY <1>2
    <3> HIDE DEF x
    <3>3. upload' = [upload EXCEPT ![u] = x]
      BY <2>1 DEF UploadMoves, x
    <3> QED BY <3>1, <3>2, <3>3
  <2>2. CASE UploadMoves(u, "insert", [upload[u] EXCEPT !.at = "failed"])
    <3>1. /\ IsUpload([upload[u] EXCEPT !.at = "failed"])
          /\ \A rows : Answered([upload[u] EXCEPT !.at = "failed"], rows)
      BY <1>1, FieldsChange
    <3> QED BY <2>2, <3>1 DEF UploadMoves
  <2> QED BY <2>1, <2>2 DEF InsertRow
<1>6. UploadsHaveFields'
  BY <1>1, <1>5 DEF UploadsHaveFields
<1>7. AnswersAreRows'
  BY <1>1, <1>2, <1>5 DEF AnswersAreRows, Answered
<1> QED BY <1>4, <1>6, <1>7

\* The steps of a request that read, heal, try again or fail.
LEMMA UploadsKeepInv ==
    ASSUME MediaInv, NEW u \in Uploader,
           \/ FindByGFSFileID(u) \/ NextId(u) \/ IdConflict(u) \/ PublicKeyConflict(u)
           \/ GFSFileIDConflict(u) \/ FindConcurrent(u)
           \/ ReadGreatestId(u) \/ RaiseCounter(u) \/ RegisterFails(u)
    PROVE  MediaInv'
<1>1. IsUpload(upload[u]) /\ UNCHANGED media
  BY DEF MediaInv, UploadsHaveFields, FindByGFSFileID, NextId, IdConflict, PublicKeyConflict,
     GFSFileIDConflict, FindConcurrent, ReadGreatestId, RaiseCounter, RegisterFails
<1>2. ASSUME NEW from, NEW row \in RowsOf(upload[u].file),
             UploadMoves(u, from, [upload[u] EXCEPT !.at = "done", !.answer = row])
      PROVE  MediaInv'
  <2>1. row \in media /\ row.file = upload[u].file
    BY DEF RowsOf
  <2> QED BY <1>1, <1>2, <2>1, AnswersEnd, UnstoredKeepsInv DEF UploadMoves
<1>3. ASSUME NEW from, NEW at, at # "done", NEW y, UploadMoves(u, from, y),
             \/ \E id : y = [upload[u] EXCEPT !.at = at, !.id = id]
             \/ \E floor : y = [upload[u] EXCEPT !.at = at, !.floor = floor]
             \/ \E k : y = [upload[u] EXCEPT !.at = at, !.key = k, !.keys = upload[u].keys + 1, !.heals = 0]
             \/ y = [upload[u] EXCEPT !.at = at, !.heals = upload[u].heals + 1]
             \/ y = [upload[u] EXCEPT !.at = at]
      PROVE  MediaInv'
  <2>1. IsUpload(y) /\ Answered(y, media)
    BY <1>1, <1>3, FieldsChange
  <2> QED BY <1>1, <1>3, <2>1, UnstoredKeepsInv DEF UploadMoves
<1>4. CASE FindByGFSFileID(u) \/ FindConcurrent(u)
  BY <1>2, <1>3, <1>4 DEF FindByGFSFileID, FindConcurrent
<1>5. CASE NextId(u)
  BY <1>3, <1>5 DEF NextId
<1>6. CASE IdConflict(u) \/ GFSFileIDConflict(u)
  BY <1>3, <1>6 DEF IdConflict, GFSFileIDConflict
<1>7. CASE PublicKeyConflict(u)
  BY <1>3, <1>7 DEF PublicKeyConflict
<1>8. CASE ReadGreatestId(u)
  BY <1>3, <1>8 DEF ReadGreatestId
<1>9. CASE RaiseCounter(u)
  BY <1>3, <1>9 DEF RaiseCounter
<1>10. CASE RegisterFails(u)
  BY <1>3, <1>10 DEF RegisterFails
<1> QED BY <1>4, <1>5, <1>6, <1>7, <1>8, <1>9, <1>10

LEMMA MediaStep == MediaInv /\ [MediaNext]_mediaVars => MediaInv'
<1> SUFFICES ASSUME MediaInv, [MediaNext]_mediaVars PROVE MediaInv'
  OBVIOUS
<1>1. CASE LoseCounter \/ UNCHANGED mediaVars
  BY <1>1 DEF LoseCounter, mediaVars, MediaInv, UploadsHaveFields, FilesHaveOneRow, AnswersAreRows
<1>2. ASSUME NEW u \in Uploader,
             \/ FindByGFSFileID(u) \/ NextId(u)
             \/ InsertRow(u) \/ IdConflict(u) \/ PublicKeyConflict(u) \/ GFSFileIDConflict(u) \/ FindConcurrent(u)
             \/ ReadGreatestId(u) \/ RaiseCounter(u) \/ RegisterFails(u)
      PROVE  MediaInv'
  BY <1>2, InsertKeepsInv, UploadsKeepInv
<1> QED BY <1>1, <1>2 DEF MediaNext

\* media/service.go Register: every request that succeeds for a file is answered with
\* the one row of it, for any number of requests, files and keys.
THEOREM MediaStaysSingle == MediaSpec => []MediaIsRegisteredOnce
<1>1. MediaInv => MediaIsRegisteredOnce
  BY DEF MediaInv, FilesHaveOneRow, AnswersAreRows, Answered, MediaIsRegisteredOnce, RowsOf
<1> QED BY <1>1, MediaStarts, MediaStep, PTL DEF MediaSpec

-----------------------------------------------------------------------------

\* A set of numbers has a least one: among what is at or below each of them, one
\* part has no other inside.
LEMMA LeastExists ==
    ASSUME NEW S \in SUBSET Nat, S # {}
    PROVE  \E x \in S : \A y \in S : x <= y
<1> DEFINE Below(x) == {y \in S : y <= x}
           F == {Below(x) : x \in S}
<1>1. \A x \in S : Below(x) \in SUBSET S /\ IsFiniteSet(Below(x))
  <2> SUFFICES ASSUME NEW x \in S PROVE IsFiniteSet(Below(x))
    OBVIOUS
  <2>1. Below(x) \in SUBSET Nat /\ x \in Nat /\ \A s \in Below(x) : s <= x
    OBVIOUS
  <2> HIDE DEF Below
  <2> QED BY <2>1, FS_BoundedSetOfNaturals
<1>2. F \subseteq FiniteSubsetsOf(S) /\ F # {}
  BY <1>1 DEF FiniteSubsetsOf
<1>3. PICK T \in F : \A U \in F : ~ (<<U, T>> \in StrictSubsetOrdering(S))
  <2> HIDE DEF F
  <2> QED BY <1>2, WFMin, FS_StrictSubsetOrderingWellFounded
<1>4. PICK x \in S : T = Below(x)
  BY <1>3
<1>5. \A y \in S : x <= y
  <2> SUFFICES ASSUME NEW y \in S, y < x PROVE FALSE
    OBVIOUS
  <2>1. x \in Int /\ y \in Int /\ \A z \in S : z \in Int
    OBVIOUS
  <2>2. Below(y) \subseteq Below(x)
    <3> SUFFICES ASSUME NEW z \in S, z <= y PROVE z <= x
      OBVIOUS
    <3> QED BY <2>1
  <2>3. x \in Below(x) /\ x \notin Below(y)
    BY <2>1
  <2>4. Below(y) \in F /\ Below(y) \in SUBSET S /\ Below(x) \in SUBSET S
    OBVIOUS
  <2> HIDE DEF Below, F
  <2> QED BY <1>3, <1>4, <2>2, <2>3, <2>4 DEF StrictSubsetOrdering
<1> QED BY <1>5

LEMMA MaxIsGreatest ==
    ASSUME NEW n \in Nat, NEW S \in SUBSET (0..n), S # {}
    PROVE  Max(S) \in S /\ \A y \in S : Max(S) >= y
<1> DEFINE D == {n - x : x \in S}
<1>1. D \in SUBSET Nat /\ D # {}
  <2> SUFFICES ASSUME NEW x \in S PROVE n - x \in Nat
    OBVIOUS
  <2> QED OBVIOUS
<1>2. PICK d \in D : \A y \in D : d <= y
  BY <1>1, LeastExists
<1>3. PICK x \in S : d = n - x
  BY <1>2
<1>4. \A y \in S : x >= y
  <2> TAKE y \in S
  <2>1. n - y \in D /\ x \in Int /\ y \in Int /\ n \in Int
    OBVIOUS
  <2>2. n - x <= n - y
    BY <1>2, <1>3, <2>1
  <2> QED BY <2>1, <2>2
<1> QED BY <1>4 DEF Max

LEMMA DivMod ==
    ASSUME NEW a \in Int, NEW d \in Nat \ {0}
    PROVE  /\ a \div d \in Int /\ a % d \in Int
           /\ a = d * (a \div d) + (a % d)
           /\ 0 <= a % d /\ a % d < d
  OBVIOUS

LEMMA DivUnique ==
    ASSUME NEW q \in Int, NEW d \in Nat \ {0}
    PROVE  (d * q) \div d = q
<1> DEFINE p == (d*q) \div d
           r == (d*q) % d
<1>1. /\ p \in Int /\ r \in Int /\ d*q = d * p + r /\ 0 <= r /\ r < d
  BY DivMod
<1> HIDE DEF p, r
<1>2. d * (q - p) = r
  BY <1>1
<1>3. q - p < 1
  <2>1. SUFFICES ASSUME q - p >= 1 PROVE FALSE
    BY <1>1
  <2>2. d * (q - p) >= d
    BY <1>1, <2>1
  <2> QED BY <1>1, <1>2, <2>2
<1>4. q - p > -1
  <2>1. SUFFICES ASSUME q - p <= -1 PROVE FALSE
    BY <1>1
  <2>2. d * (q - p) <= -d
    BY <1>1, <2>1
  <2> QED BY <1>1, <1>2, <2>2
<1>5. p = q
  BY <1>1, <1>3, <1>4
<1> QED BY <1>5 DEF p

-----------------------------------------------------------------------------

Beyond(id, used) == \A x \in used : x < id

\* As many conflicts as a request has healed at most: one for every setback and one
\* for every row that was stored since.
Conflicts == Setbacks + Cardinality(media)

\* A request that has met all of them draws an id past those in use: the next
\* conflict takes another setback or another row.
HealsWithin(x, n, counter, used) ==
    /\ x.heals \in Nat /\ x.floor \in Nat
    /\ x.at = "find" => x.heals = 0
    /\ x.at \in {"next", "insert"} => x.heals <= n
    /\ x.at \in {"max", "raise"} => x.heals < n
    /\ x.at = "next" /\ x.heals = n => Beyond(LaneId(counter + 1), used)
    /\ x.at = "insert" => x.id \in 1..MaxInt
    /\ x.at = "insert" /\ x.heals = n => Beyond(x.id, used)
    /\ x.at = "raise" /\ x.heals + 1 = n => Beyond(LaneId(x.floor + 1), used)

FinishedUploads == {u \in Uploader : upload[u].at \in Finished}

IdsAreSound ==
    /\ idCounter \in Nat /\ losses \in Nat
    /\ UsedIds \subseteq 1..MaxInt /\ IsFiniteSet(media)

HealInv ==
    /\ UploadsHaveFields
    /\ IdsAreSound
    /\ Cardinality(media) <= Cardinality(FinishedUploads)
    /\ \A u \in Uploader : HealsWithin(upload[u], Conflicts, idCounter, UsedIds)
    /\ HealingSuffices

-----------------------------------------------------------------------------

LEMMA LaneIdGrows ==
    ASSUME NEW c \in Nat, NEW d \in Nat, c <= d
    PROVE  LaneId(c) \in Int /\ LaneId(d) \in Int /\ LaneId(c) <= LaneId(d)
<1>1. Offset \in Int /\ Step \in Nat
  BY MediaAssumption
<1>2. (c - 1) * Step \in Int /\ (d - 1) * Step \in Int
  BY <1>1
<1>3. (d - c) * Step >= 0
  BY <1>1
<1>4. (d - 1) * Step = (c - 1) * Step + (d - c) * Step
  BY <1>1
<1> QED BY <1>1, <1>2, <1>3, <1>4 DEF LaneId

\* What Overflows lets through is an id that fits.
LEMMA LaneIdFits ==
    ASSUME NEW raw \in Nat \ {0}, ~Overflows(raw)
    PROVE  LaneId(raw) \in 1..MaxInt
<1>1. Offset \in Nat \ {0} /\ Step \in Nat \ {0} /\ MaxInt \in Nat
  BY MediaAssumption
<1> DEFINE q == (MaxInt - Offset) \div Step
           r == (MaxInt - Offset) % Step
<1>2. q \in Int /\ r \in Int /\ MaxInt - Offset = Step * q + r /\ 0 <= r
  BY <1>1, DivMod
<1>3. raw - 1 <= q
  BY <1>2 DEF Overflows
<1> HIDE DEF q, r
<1>4. (raw - 1) * Step \in Int /\ (raw - 1) * Step >= 0
  BY <1>1
<1>5. (raw - 1) * Step <= Step * q
  <2>1. (q - (raw - 1)) * Step >= 0
    BY <1>1, <1>2, <1>3
  <2> QED BY <1>1, <1>2, <2>1
<1>6. Step * q \in Int
  BY <1>1, <1>2
<1> QED BY <1>1, <1>2, <1>4, <1>5, <1>6 DEF LaneId

\* The counter is raised to where the next id is past the greatest.
LEMMA NextInLaneIsNext ==
    ASSUME NEW g \in Nat
    PROVE  LET floor == (NextInLane(g) - Offset) \div Step
           IN  floor \in Nat /\ LaneId(floor + 1) > g
<1>1. Offset \in Nat \ {0} /\ Step \in Nat \ {0}
  BY MediaAssumption
<1> DEFINE floor == (NextInLane(g) - Offset) \div Step
<1>2. CASE g < Offset
  <2>1. NextInLane(g) - Offset = Step * 0
    BY <1>1, <1>2 DEF NextInLane
  <2>2. floor = 0
    BY <1>1, <2>1, DivUnique
  <2> QED BY <1>1, <1>2, <2>2 DEF LaneId
<1>3. CASE g >= Offset
  <2> DEFINE q == (g - Offset) \div Step
             r == (g - Offset) % Step
  <2>1. q \in Int /\ r \in Int /\ g - Offset = Step * q + r /\ 0 <= r /\ r < Step
    BY <1>1, DivMod
  <2>2. NextInLane(g) = g + Step - r
    BY <1>1, <1>3 DEF NextInLane
  <2> HIDE DEF q, r
  <2>3. q >= 0
    <3> SUFFICES ASSUME q <= -1 PROVE FALSE
      BY <2>1
    <3>1. Step * q <= -Step
      BY <1>1, <2>1
    <3> QED BY <1>1, <1>3, <2>1, <3>1
  <2>4. NextInLane(g) - Offset = Step * (q + 1)
    BY <1>1, <2>1, <2>2
  <2>5. floor = q + 1
    BY <1>1, <2>1, <2>4, DivUnique
  <2> HIDE DEF floor
  <2>6. LaneId(floor + 1) = Offset + Step * (q + 1)
    BY <1>1, <2>1, <2>5 DEF LaneId
  <2>7. NextInLane(g) \in Int
    BY <1>1, <2>1, <2>2
  <2>8. LaneId(floor + 1) = NextInLane(g)
    BY <1>1, <2>1, <2>4, <2>6, <2>7
  <2>9. floor \in Nat /\ LaneId(floor + 1) > g
    BY <1>1, <2>1, <2>2, <2>3, <2>5, <2>8
  <2> QED BY <2>9 DEF floor
<1> QED BY <1>1, <1>2, <1>3

LEMMA GreatestIdIsGreatest ==
    ASSUME UsedIds \subseteq 1..MaxInt
    PROVE  GreatestId \in Nat /\ \A x \in UsedIds : x <= GreatestId
<1>1. CASE UsedIds = {}
  BY <1>1 DEF GreatestId
<1>2. CASE UsedIds # {}
  <2>1. UsedIds \in SUBSET (0..MaxInt) /\ MaxInt \in Nat
    BY MediaAssumption
  <2>2. Max(UsedIds) \in UsedIds /\ \A y \in UsedIds : Max(UsedIds) >= y
    BY <1>2, <2>1, MaxIsGreatest
  <2>3. GreatestId = Max(UsedIds)
    BY <1>2 DEF GreatestId
  <2> HIDE DEF GreatestId
  <2>4. \A x \in UsedIds : x \in Nat
    BY <2>1
  <2> QED BY <2>2, <2>3, <2>4
<1> QED BY <1>1, <1>2

LEMMA ConflictsAreCounted ==
    ASSUME IdsAreSound
    PROVE  /\ Setbacks \in Nat /\ Cardinality(media) \in Nat /\ Conflicts \in Nat
           /\ Conflicts = 0 => UsedIds = {}
           /\ Cardinality(Uploader) \in Nat /\ IsFiniteSet(FinishedUploads)
           /\ Cardinality(FinishedUploads) \in Nat
<1>1. Setbacks \in Nat
  BY DEF Setbacks, IdsAreSound
<1>2. Cardinality(media) \in Nat /\ Cardinality(Uploader) \in Nat /\ IsFiniteSet(Uploader)
  BY FS_CardinalityType, MediaAssumption DEF IdsAreSound
<1>3. IsFiniteSet(FinishedUploads)
  BY <1>2, FS_Subset DEF FinishedUploads
<1>4. Cardinality(FinishedUploads) \in Nat
  BY <1>3, FS_CardinalityType
<1>5. ASSUME Conflicts = 0 PROVE UsedIds = {}
  <2>1. Setbacks = 0 /\ Cardinality(media) = 0
    BY <1>1, <1>2, <1>5 DEF Conflicts
  <2>2. Imported = {}
    BY <2>1 DEF Setbacks, IdsAreSound
  <2>3. media = {}
    BY <2>1, FS_EmptySet DEF IdsAreSound
  <2> QED BY <2>2, <2>3 DEF UsedIds
<1> QED BY <1>1, <1>2, <1>3, <1>4, <1>5 DEF Conflicts

\* A counter that others have moved on gives a greater id.
LEMMA CounterMayGrow ==
    ASSUME NEW x, NEW n \in Nat, NEW c \in Nat, NEW d \in Nat, c <= d,
           UsedIds \subseteq 1..MaxInt, HealsWithin(x, n, c, UsedIds)
    PROVE  HealsWithin(x, n, d, UsedIds)
<1>1. LaneId(c + 1) \in Int /\ LaneId(d + 1) \in Int /\ LaneId(c + 1) <= LaneId(d + 1)
  BY LaneIdGrows
<1>2. Beyond(LaneId(c + 1), UsedIds) => Beyond(LaneId(d + 1), UsedIds)
  <2> SUFFICES ASSUME NEW y \in UsedIds, y < LaneId(c + 1) PROVE y < LaneId(d + 1)
    BY DEF Beyond
  <2>1. y \in Int
    BY MediaAssumption
  <2> QED BY <1>1, <2>1
<1> QED BY <1>2 DEF HealsWithin

\* After a setback, or when another stored a row, one more conflict is expected.
LEMMA ConflictsMayGrow ==
    ASSUME NEW x, NEW n \in Nat, NEW m \in Nat, n < m, NEW c, NEW d, NEW used, NEW new,
           HealsWithin(x, n, c, used)
    PROVE  HealsWithin(x, m, d, new)
<1>1. x.heals \in Nat
  BY DEF HealsWithin
<1>2. /\ x.heals <= n => x.heals <= m /\ x.heals # m
      /\ x.heals < n => x.heals < m /\ x.heals + 1 # m
  BY <1>1
<1> QED BY <1>2 DEF HealsWithin

-----------------------------------------------------------------------------

LEMMA HealStarts == MediaInit => HealInv
<1> SUFFICES ASSUME MediaInit PROVE HealInv
  OBVIOUS
<1>1. UploadsHaveFields
  BY MediaStarts DEF MediaInv
<1>2. IsFiniteSet(media) /\ Cardinality(media) = 0
  BY FS_EmptySet DEF MediaInit
<1>3. IdsAreSound
  BY <1>2, MediaAssumption DEF MediaInit, IdsAreSound, UsedIds
<1>4. Cardinality(media) <= Cardinality(FinishedUploads)
  BY <1>2, <1>3, ConflictsAreCounted
<1>5. \A u \in Uploader : upload[u].at = "find" /\ upload[u].heals = 0 /\ upload[u].floor = 0
  BY DEF MediaInit
<1>6. \A u \in Uploader : HealsWithin(upload[u], Conflicts, idCounter, UsedIds)
  BY <1>5 DEF HealsWithin
<1>7. HealingSuffices
  BY <1>5 DEF HealingSuffices
<1> QED BY <1>1, <1>3, <1>4, <1>6, <1>7 DEF HealInv

\* A request that goes on alone: it stores nothing and does not start again once
\* it has finished.
LEMMA AloneKeepsHealing ==
    ASSUME HealInv, NEW u \in Uploader, NEW y, IsUpload(y), upload' = [upload EXCEPT ![u] = y],
           UNCHANGED <<media, losses>>, idCounter' \in Nat, idCounter <= idCounter',
           HealsWithin(y, Conflicts, idCounter', UsedIds),
           upload[u].at \in Finished => y.at \in Finished,
           y.at = "exhausted" => upload[u].at = "exhausted" \/ Setbacks + Cardinality(Uploader) > MaxHealingRetries + 1
    PROVE  HealInv'
<1> USE DEF HealInv
<1>1. UsedIds' = UsedIds /\ Conflicts' = Conflicts /\ Setbacks' = Setbacks
  BY DEF UsedIds, Conflicts, Setbacks
<1>2. IdsAreSound'
  BY <1>1 DEF IdsAreSound
<1>3. DOMAIN upload = Uploader /\ DOMAIN upload' = Uploader /\ upload'[u] = y
      /\ \A v \in Uploader : v # u => upload'[v] = upload[v]
  BY DEF UploadsHaveFields
<1>4. UploadsHaveFields'
  BY <1>3 DEF UploadsHaveFields
<1>5. Cardinality(media') <= Cardinality(FinishedUploads')
  <2>1. FinishedUploads \in SUBSET FinishedUploads'
    BY <1>3 DEF FinishedUploads
  <2>2. IsFiniteSet(FinishedUploads') /\ Cardinality(FinishedUploads') \in Nat
    BY <1>2, FS_Subset, FS_CardinalityType, MediaAssumption DEF FinishedUploads
  <2>3. Cardinality(FinishedUploads) <= Cardinality(FinishedUploads')
    BY <2>1, <2>2, FS_Subset
  <2>4. Cardinality(media') = Cardinality(media)
    OBVIOUS
  <2>5. Cardinality(media) \in Nat /\ Cardinality(FinishedUploads) \in Nat
    BY ConflictsAreCounted
  <2> QED BY <2>2, <2>3, <2>4, <2>5
<1>6. ASSUME NEW v \in Uploader PROVE HealsWithin(upload'[v], Conflicts, idCounter', UsedIds)
  <2>1. CASE v = u
    BY <1>3, <2>1
  <2>2. CASE v # u
    <3>1. HealsWithin(upload[v], Conflicts, idCounter, UsedIds) /\ upload'[v] = upload[v]
      BY <1>3, <2>2
    <3> QED BY <3>1, ConflictsAreCounted, CounterMayGrow DEF IdsAreSound
  <2> QED BY <2>1, <2>2
<1>7. \A v \in Uploader : HealsWithin(upload[v], Conflicts, idCounter, UsedIds)'
  BY <1>1, <1>6
<1>8. HealingSuffices'
  <2>1. Setbacks \in Nat /\ Cardinality(Uploader) \in Nat /\ MaxHealingRetries \in Nat
    BY ConflictsAreCounted, MediaAssumption
  <2> QED BY <1>1, <1>3, <2>1 DEF HealingSuffices
<1> QED BY <1>2, <1>4, <1>5, <1>7, <1>8

LEMMA LossKeepsHealing == ASSUME HealInv, LoseCounter PROVE HealInv'
<1> USE DEF HealInv
<1>1. losses' = losses + 1 /\ idCounter' = 0 /\ UNCHANGED <<media, upload>>
  BY DEF LoseCounter
<1>2. UsedIds' = UsedIds /\ FinishedUploads' = FinishedUploads
  BY <1>1 DEF UsedIds, FinishedUploads
<1>3. Setbacks' = Setbacks + 1
  BY <1>1 DEF Setbacks, IdsAreSound
<1>4. Conflicts' = Conflicts + 1
  BY <1>1, <1>3, ConflictsAreCounted DEF Conflicts
<1>5. IdsAreSound' /\ UploadsHaveFields'
  BY <1>1, <1>2 DEF IdsAreSound, UploadsHaveFields
<1>6. ASSUME NEW v \in Uploader PROVE HealsWithin(upload[v], Conflicts, idCounter, UsedIds)'
  <2>1. Conflicts \in Nat /\ Conflicts' \in Nat /\ Conflicts < Conflicts'
    BY <1>4, ConflictsAreCounted
  <2>2. HealsWithin(upload[v], Conflicts', idCounter', UsedIds')
    BY <2>1, ConflictsMayGrow
  <2> QED BY <1>1, <2>2
<1>7. HealingSuffices'
  <2>1. Setbacks \in Nat /\ Cardinality(Uploader) \in Nat /\ MaxHealingRetries \in Nat
    BY ConflictsAreCounted, MediaAssumption
  <2> QED BY <1>1, <1>3, <2>1 DEF HealingSuffices
<1> QED BY <1>1, <1>2, <1>5, <1>6, <1>7

\* The request that stores a row has finished with it.
LEMMA InsertKeepsHealing == ASSUME HealInv, NEW u \in Uploader, InsertRow(u) PROVE HealInv'
<1> USE DEF HealInv
<1>1. IsUpload(upload[u]) /\ DOMAIN upload = Uploader /\ upload[u].at = "insert"
  BY DEF UploadsHaveFields, InsertRow, UploadMoves
<1>2. /\ media' = media \cup {NewRow(u)} /\ NewRow(u).id = upload[u].id
      /\ UNCHANGED <<idCounter, losses>> /\ upload[u].id \notin UsedIds
  BY DEF InsertRow, NewRow, InsertConflict
<1>3. PICK y : /\ upload' = [upload EXCEPT ![u] = y] /\ IsUpload(y)
               /\ y.heals = upload[u].heals /\ y.floor = upload[u].floor /\ y.at \in {"done", "failed"}
  <2>1. ASSUME NEW y, \/ y = [upload[u] EXCEPT !.at = "done", !.answer = NewRow(u)]
                       \/ y = [upload[u] EXCEPT !.at = "failed"]
        PROVE  IsUpload(y) /\ y.heals = upload[u].heals /\ y.floor = upload[u].floor /\ y.at \in {"done", "failed"}
    BY <1>1, <2>1 DEF IsUpload
  <2> QED BY <2>1 DEF InsertRow, UploadMoves
<1>4. upload'[u] = y /\ DOMAIN upload' = Uploader /\ \A v \in Uploader : v # u => upload'[v] = upload[v]
  BY <1>1, <1>3
<1>5. UploadsHaveFields'
  BY <1>3, <1>4 DEF UploadsHaveFields
<1>6. HealsWithin(upload[u], Conflicts, idCounter, UsedIds)
  OBVIOUS
<1>7. IdsAreSound' /\ Cardinality(media') = Cardinality(media) + 1
  <2>1. UsedIds' = UsedIds \cup {upload[u].id} /\ upload[u].id \in 1..MaxInt
    BY <1>1, <1>2, <1>6 DEF UsedIds, HealsWithin
  <2>2. NewRow(u) \notin media
    BY <1>2 DEF UsedIds
  <2>3. IsFiniteSet(media') /\ Cardinality(media') = Cardinality(media) + 1
    BY <1>2, <2>2, FS_AddElement DEF IdsAreSound
  <2> QED BY <1>2, <2>1, <2>3 DEF IdsAreSound
<1>8. Setbacks' = Setbacks /\ Conflicts' = Conflicts + 1
  <2>1. Setbacks' = Setbacks
    BY <1>2 DEF Setbacks
  <2> QED BY <1>7, <2>1, ConflictsAreCounted DEF Conflicts
<1>9. Cardinality(media') <= Cardinality(FinishedUploads')
  <2>1. FinishedUploads' = FinishedUploads \cup {u} /\ u \notin FinishedUploads
    BY <1>1, <1>3, <1>4 DEF FinishedUploads, Finished
  <2>2. Cardinality(FinishedUploads') = Cardinality(FinishedUploads) + 1
    BY <2>1, ConflictsAreCounted, FS_AddElement
  <2> QED BY <1>7, <2>2, ConflictsAreCounted
<1>10. ASSUME NEW v \in Uploader PROVE HealsWithin(upload[v], Conflicts, idCounter, UsedIds)'
  <2>1. CASE v = u
    BY <1>3, <1>4, <1>6, <2>1 DEF HealsWithin
  <2>2. CASE v # u
    <3>1. Conflicts \in Nat /\ Conflicts' \in Nat /\ Conflicts < Conflicts'
      BY <1>8, ConflictsAreCounted
    <3>2. HealsWithin(upload[v], Conflicts', idCounter', UsedIds')
      BY <3>1, ConflictsMayGrow
    <3> QED BY <1>4, <2>2, <3>2
  <2> QED BY <2>1, <2>2
<1>11. HealingSuffices'
  BY <1>3, <1>4, <1>8 DEF HealingSuffices
<1> QED BY <1>5, <1>7, <1>9, <1>10, <1>11

\* An id in use: it takes the bound on the conflicts, and one request that has not finished.
LEMMA ConflictKeepsHealing == ASSUME HealInv, NEW u \in Uploader, IdConflict(u) PROVE HealInv'
<1> USE DEF HealInv
<1>1. IsUpload(upload[u]) /\ upload[u].at = "insert" /\ UNCHANGED <<media, losses, idCounter>>
  BY DEF UploadsHaveFields, IdConflict, UploadMoves
<1>2. HealsWithin(upload[u], Conflicts, idCounter, UsedIds) /\ upload[u].id \in UsedIds
  BY DEF IdConflict, InsertConflict
<1>3. upload[u].heals \in Nat /\ upload[u].heals < Conflicts
  <2>1. upload[u].id \in Int /\ ~Beyond(upload[u].id, UsedIds)
    BY <1>1, <1>2 DEF HealsWithin, Beyond
  <2>2. upload[u].heals <= Conflicts /\ upload[u].heals # Conflicts /\ upload[u].heals \in Nat
    BY <1>1, <1>2, <2>1 DEF HealsWithin
  <2> QED BY <2>2, ConflictsAreCounted
<1>4. idCounter \in Nat /\ idCounter <= idCounter'
  BY <1>1 DEF IdsAreSound
<1>5. ASSUME NEW at \in {"max", "exhausted"}, UploadMoves(u, "insert", [upload[u] EXCEPT !.at = at]),
             at = "exhausted" => Setbacks + Cardinality(Uploader) > MaxHealingRetries + 1
      PROVE  HealInv'
  <2> DEFINE y == [upload[u] EXCEPT !.at = at]
  <2>1. IsUpload(y) /\ y.at = at /\ y.heals = upload[u].heals /\ y.floor = upload[u].floor
    BY <1>1 DEF IsUpload
  <2>2. upload' = [upload EXCEPT ![u] = y]
    BY <1>5 DEF UploadMoves
  <2> HIDE DEF y
  <2>3. HealsWithin(y, Conflicts, idCounter', UsedIds)
    BY <1>2, <1>3, <2>1 DEF HealsWithin
  <2> QED BY <1>1, <1>4, <1>5, <2>1, <2>2, <2>3, AloneKeepsHealing DEF Finished
<1>6. CASE upload[u].heals = MaxHealingRetries
  <2>1. Cardinality(FinishedUploads) < Cardinality(Uploader)
    <3>1. FinishedUploads \in SUBSET Uploader /\ u \notin FinishedUploads
      BY <1>1 DEF FinishedUploads, Finished
    <3> QED BY <3>1, FS_Subset, ConflictsAreCounted, MediaAssumption
  <2>2. Setbacks + Cardinality(Uploader) > MaxHealingRetries + 1
    BY <1>3, <1>6, <2>1, ConflictsAreCounted DEF Conflicts
  <2> QED BY <1>5, <1>6, <2>2 DEF IdConflict
<1>7. CASE upload[u].heals # MaxHealingRetries
  BY <1>5, <1>7 DEF IdConflict
<1> QED BY <1>6, <1>7

LEMMA ReadKeepsHealing == ASSUME HealInv, NEW u \in Uploader, ReadGreatestId(u) PROVE HealInv'
<1> USE DEF HealInv
<1>1. IsUpload(upload[u]) /\ upload[u].at = "max" /\ UNCHANGED <<media, losses, idCounter>>
  BY DEF UploadsHaveFields, ReadGreatestId, UploadMoves
<1>2. upload[u].heals \in Nat /\ upload[u].heals < Conflicts /\ upload[u].floor \in Nat
  BY <1>1 DEF HealsWithin
<1>3. idCounter \in Nat /\ idCounter <= idCounter'
  BY <1>1 DEF IdsAreSound
<1> DEFINE floor == (NextInLane(GreatestId) - Offset) \div Step
<1>4. floor \in Nat /\ Beyond(LaneId(floor + 1), UsedIds)
  <2>1. GreatestId \in Nat /\ \A x \in UsedIds : x <= GreatestId
    BY GreatestIdIsGreatest DEF IdsAreSound
  <2>2. floor \in Nat /\ LaneId(floor + 1) > GreatestId
    BY <2>1, NextInLaneIsNext
  <2> HIDE DEF floor
  <2>3. LaneId(floor + 1) \in Int
    BY <2>2, LaneIdGrows
  <2>4. \A x \in UsedIds : x \in Int
    BY DEF IdsAreSound
  <2> QED BY <2>1, <2>2, <2>3, <2>4 DEF Beyond
<1>5. ASSUME NEW y, upload' = [upload EXCEPT ![u] = y],
             y \in {[upload[u] EXCEPT !.at = "failed"], [upload[u] EXCEPT !.at = "raise", !.floor = floor]}
      PROVE  HealInv'
  <2> HIDE DEF floor
  <2>1. IsUpload(y) /\ y.heals = upload[u].heals
    BY <1>1, <1>5 DEF IsUpload
  <2>2. \/ y.at = "failed" /\ y.floor = upload[u].floor
        \/ y.at = "raise" /\ y.floor = floor
    <3>1. CASE y = [upload[u] EXCEPT !.at = "failed"]
      BY <1>1, <3>1 DEF IsUpload
    <3>2. CASE y = [upload[u] EXCEPT !.at = "raise", !.floor = floor]
      BY <1>1, <3>2 DEF IsUpload
    <3> QED BY <1>5, <3>1, <3>2
  <2>3. HealsWithin(y, Conflicts, idCounter', UsedIds)
    BY <1>2, <1>4, <2>1, <2>2 DEF HealsWithin
  <2> QED BY <1>1, <1>3, <1>5, <2>1, <2>2, <2>3, AloneKeepsHealing DEF Finished
<1> QED BY <1>5 DEF ReadGreatestId, UploadMoves

LEMMA RaiseKeepsHealing == ASSUME HealInv, NEW u \in Uploader, RaiseCounter(u) PROVE HealInv'
<1> USE DEF HealInv
<1> DEFINE x == upload[u]
<1>1. IsUpload(x) /\ x.at = "raise" /\ UNCHANGED <<media, losses>>
  BY DEF UploadsHaveFields, RaiseCounter, UploadMoves
<1>2. /\ x.heals \in Nat /\ x.heals < Conflicts /\ x.floor \in Nat
      /\ x.heals + 1 = Conflicts => Beyond(LaneId(x.floor + 1), UsedIds)
  BY <1>1 DEF HealsWithin
<1>3. idCounter \in Nat /\ idCounter' \in Nat /\ idCounter <= idCounter' /\ x.floor <= idCounter'
  BY <1>2 DEF IdsAreSound, RaiseCounter, Raise
<1>4. PICK y : upload' = [upload EXCEPT ![u] = y] /\ y = [x EXCEPT !.at = "next", !.heals = x.heals + 1]
  BY DEF RaiseCounter, UploadMoves
<1>5. Beyond(LaneId(x.floor + 1), UsedIds) => Beyond(LaneId(idCounter' + 1), UsedIds)
  <2>1. LaneId(x.floor + 1) \in Int /\ LaneId(idCounter' + 1) \in Int /\ LaneId(x.floor + 1) <= LaneId(idCounter' + 1)
    BY <1>2, <1>3, LaneIdGrows
  <2>2. \A i \in UsedIds : i \in Int
    BY DEF IdsAreSound
  <2> QED BY <2>1, <2>2 DEF Beyond
<1> HIDE DEF x
<1>6. IsUpload(y) /\ y.at = "next" /\ y.heals = x.heals + 1 /\ y.floor = x.floor
  BY <1>1, <1>4 DEF IsUpload
<1>7. HealsWithin(y, Conflicts, idCounter', UsedIds)
  <2>1. y.heals <= Conflicts /\ y.heals \in Nat
    BY <1>2, <1>6, ConflictsAreCounted
  <2> QED BY <1>2, <1>5, <1>6, <2>1 DEF HealsWithin
<1>8. x.at \notin Finished /\ y.at # "exhausted"
  BY <1>1, <1>6 DEF Finished
<1> QED BY <1>1, <1>3, <1>4, <1>6, <1>7, <1>8, AloneKeepsHealing DEF x

LEMMA NextKeepsHealing == ASSUME HealInv, NEW u \in Uploader, NextId(u) PROVE HealInv'
<1> USE DEF HealInv
<1> DEFINE x == upload[u]
<1>1. IsUpload(x) /\ x.at = "next" /\ UNCHANGED <<media, losses>> /\ idCounter' = idCounter + 1
  BY DEF UploadsHaveFields, NextId, UploadMoves
<1>2. HealsWithin(x, Conflicts, idCounter, UsedIds)
  OBVIOUS
<1>3. idCounter' \in Nat \ {0} /\ idCounter \in Nat /\ idCounter <= idCounter'
  BY <1>1 DEF IdsAreSound
<1>4. CASE Overflows(idCounter')
  <2> DEFINE y == [x EXCEPT !.at = "failed"]
  <2>1. upload' = [upload EXCEPT ![u] = y]
    BY <1>1, <1>4 DEF NextId, UploadMoves
  <2>2. IsUpload(y) /\ y.at = "failed" /\ y.heals = x.heals /\ y.floor = x.floor
    BY <1>1 DEF IsUpload
  <2> HIDE DEF x, y
  <2>3. HealsWithin(y, Conflicts, idCounter', UsedIds)
    BY <1>2, <2>2 DEF HealsWithin
  <2> QED BY <1>1, <1>3, <2>1, <2>2, <2>3, AloneKeepsHealing DEF Finished, x
<1>5. CASE ~Overflows(idCounter')
  <2> DEFINE drawn == LaneId(idCounter')
  <2>1. PICK y : upload' = [upload EXCEPT ![u] = y] /\ y = [x EXCEPT !.at = "insert", !.id = drawn]
    BY <1>1, <1>5 DEF NextId, UploadMoves
  <2>2. drawn \in 1..MaxInt
    BY <1>3, <1>5, LaneIdFits
  <2>3. x.heals = Conflicts => Beyond(drawn, UsedIds)
    BY <1>1, <1>2 DEF HealsWithin
  <2> HIDE DEF x, drawn
  <2>4. IsUpload(y) /\ y.at = "insert" /\ y.id = drawn /\ y.heals = x.heals /\ y.floor = x.floor
    BY <1>1, <2>1 DEF IsUpload
  <2>5. HealsWithin(y, Conflicts, idCounter', UsedIds)
    BY <1>1, <1>2, <2>2, <2>3, <2>4 DEF HealsWithin
  <2>6. x.at \notin Finished /\ y.at # "exhausted"
    BY <1>1, <2>4 DEF Finished
  <2> QED BY <1>1, <1>3, <2>1, <2>4, <2>5, <2>6, AloneKeepsHealing DEF x
<1> QED BY <1>4, <1>5

\* A file that is looked up, another key, or a call that fails: no id is drawn.
LEMMA OthersKeepHealing ==
    ASSUME HealInv, NEW u \in Uploader,
           FindByGFSFileID(u) \/ PublicKeyConflict(u) \/ GFSFileIDConflict(u) \/ FindConcurrent(u) \/ RegisterFails(u)
    PROVE  HealInv'
<1> USE DEF HealInv
<1> DEFINE x == upload[u]
<1>1. IsUpload(x) /\ UNCHANGED <<media, losses, idCounter>> /\ HealsWithin(x, Conflicts, idCounter, UsedIds)
  BY DEF UploadsHaveFields, FindByGFSFileID, PublicKeyConflict, GFSFileIDConflict, FindConcurrent, RegisterFails
<1>2. idCounter \in Nat /\ idCounter <= idCounter'
  BY <1>1 DEF IdsAreSound
<1>3. ASSUME NEW y, upload' = [upload EXCEPT ![u] = y], x.at \notin Finished,
             \/ \E row : y = [x EXCEPT !.at = "done", !.answer = row]
             \/ \E at \in {"reread", "failed"} : y = [x EXCEPT !.at = at]
      PROVE  HealInv'
  <2>1. IsUpload(y) /\ y.heals = x.heals /\ y.floor = x.floor /\ y.at \in {"done", "reread", "failed"}
    <3>1. ASSUME NEW row, y = [x EXCEPT !.at = "done", !.answer = row]
          PROVE  IsUpload(y) /\ y.heals = x.heals /\ y.floor = x.floor /\ y.at \in {"done", "reread", "failed"}
      BY <1>1, <3>1 DEF IsUpload
    <3>2. ASSUME NEW at \in {"reread", "failed"}, y = [x EXCEPT !.at = at]
          PROVE  IsUpload(y) /\ y.heals = x.heals /\ y.floor = x.floor /\ y.at \in {"done", "reread", "failed"}
      BY <1>1, <3>2 DEF IsUpload
    <3> QED BY <1>3, <3>1, <3>2
  <2> HIDE DEF x
  <2>2. HealsWithin(y, Conflicts, idCounter', UsedIds)
    BY <1>1, <2>1 DEF HealsWithin
  <2> QED BY <1>1, <1>2, <1>3, <2>1, <2>2, AloneKeepsHealing DEF x
<1>4. ASSUME NEW y, upload' = [upload EXCEPT ![u] = y], x.at \notin Finished,
             \/ x.at = "find" /\ y = [x EXCEPT !.at = "next"]
             \/ \E k : y = [x EXCEPT !.at = "next", !.key = k, !.keys = x.keys + 1, !.heals = 0]
      PROVE  HealInv'
  <2>1. IsUpload(y) /\ y.heals = 0 /\ y.floor = x.floor /\ y.at = "next"
    <3>1. CASE x.at = "find" /\ y = [x EXCEPT !.at = "next"]
      BY <1>1, <3>1 DEF IsUpload, HealsWithin
    <3>2. ASSUME NEW k, y = [x EXCEPT !.at = "next", !.key = k, !.keys = x.keys + 1, !.heals = 0]
          PROVE  IsUpload(y) /\ y.heals = 0 /\ y.floor = x.floor /\ y.at = "next"
      BY <1>1, <3>2 DEF IsUpload
    <3> QED BY <1>4, <3>1, <3>2
  <2> HIDE DEF x
  <2>2. Conflicts \in Nat /\ (Conflicts = 0 => UsedIds = {})
    BY ConflictsAreCounted
  <2>3. HealsWithin(y, Conflicts, idCounter', UsedIds)
    BY <1>1, <2>1, <2>2 DEF HealsWithin, Beyond
  <2> QED BY <1>1, <1>2, <1>4, <2>1, <2>3, AloneKeepsHealing DEF x
<1>5. CASE FindByGFSFileID(u)
  <2>1. x.at \notin Finished
    BY <1>5 DEF FindByGFSFileID, UploadMoves, Finished
  <2> QED BY <1>3, <1>4, <1>5, <2>1 DEF FindByGFSFileID, UploadMoves
<1>6. CASE PublicKeyConflict(u)
  <2>1. x.at \notin Finished
    BY <1>6 DEF PublicKeyConflict, UploadMoves, Finished
  <2> QED BY <1>3, <1>4, <1>6, <2>1 DEF PublicKeyConflict, UploadMoves
<1>7. CASE GFSFileIDConflict(u) \/ FindConcurrent(u) \/ RegisterFails(u)
  <2>1. x.at \notin Finished
    BY <1>7 DEF GFSFileIDConflict, FindConcurrent, RegisterFails, UploadMoves, Finished
  <2> QED BY <1>3, <1>7, <2>1 DEF GFSFileIDConflict, FindConcurrent, RegisterFails, UploadMoves
<1> QED BY <1>5, <1>6, <1>7

LEMMA HealStep == HealInv /\ [MediaNext]_mediaVars => HealInv'
<1> SUFFICES ASSUME HealInv, [MediaNext]_mediaVars PROVE HealInv'
  OBVIOUS
<1>1. CASE UNCHANGED mediaVars
  BY <1>1 DEF mediaVars, HealInv, UploadsHaveFields, IdsAreSound, UsedIds, FinishedUploads, Conflicts,
     Setbacks, HealingSuffices
<1>2. CASE LoseCounter
  BY <1>2, LossKeepsHealing
<1>3. ASSUME NEW u \in Uploader, FindByGFSFileID(u) \/ PublicKeyConflict(u) \/ GFSFileIDConflict(u)
                                 \/ FindConcurrent(u) \/ RegisterFails(u)
      PROVE  HealInv'
  BY <1>3, OthersKeepHealing
<1>4. ASSUME NEW u \in Uploader,
             NextId(u) \/ InsertRow(u) \/ IdConflict(u) \/ ReadGreatestId(u) \/ RaiseCounter(u)
      PROVE  HealInv'
  BY <1>4, NextKeepsHealing, InsertKeepsHealing, ConflictKeepsHealing, ReadKeepsHealing, RaiseKeepsHealing
<1> QED BY <1>1, <1>2, <1>3, <1>4 DEF MediaNext

\* idgen/generator.go Insert, Heal: no request runs out of heals unless the counter is lost, or
\* others store rows meanwhile, more often than there are heals; for any lane and ids there were.
THEOREM HealingAlwaysSuffices == MediaSpec => []HealingSuffices
<1>1. HealInv => HealingSuffices
  BY DEF HealInv
<1> QED BY <1>1, HealStarts, HealStep, PTL DEF MediaSpec
=============================================================================
