---------------------------- MODULE TagSnapshots ----------------------------
(***************************************************************************)
(* Tags and the copies of them that revisions and releases keep            *)
(* (tag/service.go, tag/repository_mysql.go, release/bundle.go).  A tag    *)
(* has a name, which Rename changes, and a random slug, which stays.  A    *)
(* draft stores the name and slug its tags had when they were resolved; a  *)
(* version freezes them, a restore copies them back, and a release carries *)
(* those of every article it publishes in one list, a tag once.            *)
(*                                                                         *)
(* Release.tla has the life of a release; here one succeeds in the step    *)
(* that begins it, for nothing that is done to tags and drafts in the      *)
(* meantime reaches a stored snapshot.                                     *)
(***************************************************************************)
EXTENDS Naturals, FiniteSets

CONSTANTS
    TagId, TagName, TagSlug,
    TaggedArticle,
    Nothing,         \* no name, no slug, no save under way, not published
    MaxSelection,    \* bound on the tags of one draft
    MaxRenames       \* bound on the number of renames

ASSUME TagAssumption ==
    /\ TagId \subseteq Nat /\ Nothing \notin TagName \cup TagSlug
    /\ MaxSelection \in Nat /\ MaxRenames \in Nat

VARIABLES
    tagName, tagSlug,   \* the table tags
    renames,            \* how many renames there have been
    draftTags,          \* article_revision_tags of each open draft
    saving,             \* a SaveDraft that has resolved its tags and not stored them
    currentTags         \* the tags of the articles of the current release

tagTable == <<tagName, tagSlug, renames>>
tagVars  == <<tagTable, draftTags, saving, currentTags>>

Known == {t \in TagId : tagName[t] # Nothing}

TagsInit ==
    /\ tagName = [t \in TagId |-> Nothing] /\ tagSlug = [t \in TagId |-> Nothing]
    /\ renames = 0
    /\ draftTags = [a \in TaggedArticle |-> {}]
    /\ saving = Nothing
    /\ currentTags = [a \in TaggedArticle |-> Nothing]

-----------------------------------------------------------------------------

\* Variant: the unique key on the slug is missing.
SlugUnchecked(s) == s \in TagSlug

\* The table keeps slugs apart; a slug that is taken is drawn again.
SlugIsFree(s) == \A t \in Known : tagSlug[t] # s

\* Ids are drawn in increasing order.
CreateTag(t, n, s) ==
    /\ t \notin Known /\ \A u \in TagId : u < t => u \in Known
    /\ \A u \in Known : tagName[u] # n
    /\ SlugIsFree(s)
    /\ tagName' = [tagName EXCEPT ![t] = n]
    /\ tagSlug' = [tagSlug EXCEPT ![t] = s]
    /\ UNCHANGED <<renames, draftTags, saving, currentTags>>

RenameTag(t, n) ==
    /\ t \in Known /\ renames < MaxRenames
    /\ renames' = renames + 1
    /\ \A u \in Known \ {t} : tagName[u] # n
    /\ tagName' = [tagName EXCEPT ![t] = n]
    /\ UNCHANGED <<tagSlug, draftTags, saving, currentTags>>

-----------------------------------------------------------------------------

Snapshots(ids) == {[tag |-> t, name |-> tagName[t], slug |-> tagSlug[t]] : t \in ids}

\* SaveDraft resolves the tags before it opens the transaction that stores them.
ResolveTags(a, ids) ==
    /\ saving = Nothing /\ ids \subseteq Known
    /\ saving' = [article |-> a, tags |-> Snapshots(ids)]
    /\ UNCHANGED <<tagTable, draftTags, currentTags>>

\* The draft is stored, or refused because its lock has moved on.
StoreDraftTags ==
    /\ saving # Nothing
    /\ \/ draftTags' = [draftTags EXCEPT ![saving.article] = saving.tags]
       \/ UNCHANGED draftTags
    /\ saving' = Nothing
    /\ UNCHANGED <<tagTable, currentTags>>

\* A version's rows are copied, not resolved again.  The version restored here
\* is the published one.
RestoreTags(a) ==
    /\ currentTags[a] # Nothing
    /\ draftTags' = [draftTags EXCEPT ![a] = currentTags[a]]
    /\ UNCHANGED <<tagTable, saving, currentTags>>

-----------------------------------------------------------------------------

Carried(release) == UNION {release[a] : a \in {b \in TaggedArticle : release[b] # Nothing}}

\* Two articles must agree on every tag they share, and on whose a slug is.
BundlePayload(release) ==
    \A x, y \in Carried(release) : x.tag = y.tag \/ x.slug = y.slug => x = y

\* PrepareSnapshot: the current release with one article replaced or removed.
WithArticle(a) == [currentTags EXCEPT ![a] = draftTags[a]]

PublishTags(a) ==
    /\ BundlePayload(WithArticle(a))
    /\ currentTags' = WithArticle(a)
    /\ UNCHANGED <<tagTable, draftTags, saving>>

UnpublishTags(a) ==
    /\ currentTags[a] # Nothing
    /\ currentTags' = [currentTags EXCEPT ![a] = Nothing]
    /\ UNCHANGED <<tagTable, draftTags, saving>>

TagsNext ==
    \/ \E t \in TagId, n \in TagName, s \in TagSlug : CreateTag(t, n, s)
    \/ \E t \in TagId, n \in TagName : RenameTag(t, n)
    \/ \E a \in TaggedArticle :
        \/ \E ids \in {i \in SUBSET TagId : Cardinality(i) <= MaxSelection} : ResolveTags(a, ids)
        \/ RestoreTags(a)
        \/ PublishTags(a) \/ UnpublishTags(a)
    \/ StoreDraftTags

TagsSpec == TagsInit /\ [][TagsNext]_tagVars

-----------------------------------------------------------------------------

StoredTags ==
    (UNION {draftTags[a] : a \in TaggedArticle}) \cup Carried(currentTags)

\* A link to a tag's page never comes to mean another tag: whatever was renamed
\* or restored since, every stored copy of a tag still has the slug the
\* tag has now, and no two tags share one.
TagLinksAreStable ==
    \A x \in StoredTags : \A t \in TagId : x.slug = tagSlug[t] <=> x.tag = t

\* "旧版本、Release Bundle 和恢复操作仍能得到当时的完整标签状态": a version keeps the
\* tags of its time and can be released with them, after renames too.
DraftsArePublishable ==
    \A a \in TaggedArticle : BundlePayload(WithArticle(a))
=============================================================================
