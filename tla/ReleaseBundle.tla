---------------------------- MODULE ReleaseBundle ----------------------------
(***************************************************************************)
(* What a release carries, on its way from the draft to the builder:       *)
(* frozen and prepared (release/snapshot_mysql.go), checked and stored in  *)
(* rows (release/repository_mysql.go), read back and assembled into the    *)
(* bundle Jenkins downloads (release/bundle.go, service.go).  The checksum *)
(* is taken before the rows are written and recomputed from the rows that  *)
(* are read, so both sides must put everything into the same order.        *)
(*                                                                         *)
(* Articles, tags and slugs are numbers, for they are ordered; a title     *)
(* stands for the texts and the hash of an article, whose slug is its own  *)
(* (uk_articles_slug), a site for the fields of the settings.  An article  *)
(* is published under the id of the draft it was, and the next draft gets  *)
(* an id of its own.  The clock may stand still or be set back, so an      *)
(* article is published at any of the times.  Release.tla has the life of  *)
(* a release; here an attempt ends in the step that begins it.             *)
(***************************************************************************)
EXTENDS Integers, Sequences, FiniteSets, SequencesExt

CONSTANTS
    BundleArticle, BundleTag,   \* ids, a tag's slug is TagSlugOf
    TagSlugOf,
    BundleTagName, BundleTitle, BundleSite,
    PublishTime,
    BundleRevision,  \* ids of revisions; those no release carries are drawn again
    NoRow,           \* there is no such release
    Refused,         \* ErrInvalidSnapshot, or rows that are not valid
    MaxArticleTags   \* bound on the tags of an article

ASSUME BundleAssumption ==
    /\ BundleArticle \cup BundleTag \cup PublishTime \subseteq Int
    /\ TagSlugOf \in [BundleTag -> Int] /\ IsInjective(TagSlugOf)
    /\ MaxArticleTags \in Nat

VARIABLES
    newestRow,      \* the release created last
    currentRow      \* the one site_state names

bundleVars == <<newestRow, currentRow>>

-----------------------------------------------------------------------------

TagSnapshot == {[id |-> t, name |-> n, slug |-> TagSlugOf[t]] : t \in BundleTag, n \in BundleTagName}

\* The tags of a draft, in the order the author gave them.
DraftTagLists ==
    LET lists == UNION {[1..n -> TagSnapshot] : n \in 0..MaxArticleTags}
    IN  {list \in lists : \A i, j \in DOMAIN list : i # j => list[i].id # list[j].id}

KeyBefore(k, l) == k[1] < l[1] \/ (k[1] = l[1] /\ k[2] < l[2])

\* The places that come before place i, by the key of each place.
Ahead(key, i) == {j \in DOMAIN key : KeyBefore(key[j], key[i]) \/ (key[j] = key[i] /\ j < i)}

NthByKey(key, n) == CHOOSE i \in DOMAIN key : Cardinality(Ahead(key, i)) = n - 1

Sorted(s, key) == [n \in DOMAIN s |-> s[NthByKey(key, n)]]

SlugKey(tag) == <<tag.slug, tag.id>>

\* Variant: articles published at the same time stay in the order they came in.
TimeKey(a) == <<a.publishedAt, 0>>

ArticleKey(a) == <<a.publishedAt, a.id>>

IdKey(a) == <<a.id, 0>>

BySlug(tags)     == Sorted(tags, [i \in DOMAIN tags |-> SlugKey(tags[i])])
ByTime(articles) == Sorted(articles, [i \in DOMAIN articles |-> ArticleKey(articles[i])])
ById(articles)   == Sorted(articles, [i \in DOMAIN articles |-> IdKey(articles[i])])

ValidArticleSnapshot(a) ==
    /\ \A i, j \in DOMAIN a.tags : i # j => a.tags[i].id # a.tags[j].id /\ a.tags[i].slug # a.tags[j].slug
    /\ \A i \in 1 .. Len(a.tags) - 1 : KeyBefore(SlugKey(a.tags[i]), SlugKey(a.tags[i + 1]))

InOrder(a) == [a EXCEPT !.tags = BySlug(@)]

CarriedTags(articles) == UNION {ToSet(a.tags) : a \in ToSet(articles)}

Assemblable(articles) ==
    /\ \A i \in DOMAIN articles : ValidArticleSnapshot(articles[i])
    /\ \A i, j \in DOMAIN articles : i # j => articles[i].id # articles[j].id
    /\ \A x, y \in CarriedTags(articles) : x.id = y.id \/ x.slug = y.slug => x = y

WithSlugs(a) == [a EXCEPT !.tags = [i \in DOMAIN @ |-> @[i].slug]]

\* bundlePayloadFromPrepared
PayloadOf(site, prepared) ==
    LET articles == ByTime([i \in DOMAIN prepared |-> InOrder(prepared[i])])
    IN  IF Assemblable(articles)
        THEN [site     |-> site,
              tags     |-> BySlug(SetToSeq(CarriedTags(articles))),
              articles |-> [i \in DOMAIN articles |-> WithSlugs(articles[i])]]
        ELSE Refused

\* Variant: the ids of the revisions are left out.
ChecksumOfTexts(payload) ==
    [payload EXCEPT !.articles = [i \in DOMAIN @ |-> [@[i] EXCEPT !.revision = NoRow]]]

\* A digest of the canonical JSON: two payloads have the same when they are equal.
ChecksumForPayload(payload) == payload

-----------------------------------------------------------------------------

BaseArticles == IF currentRow = NoRow THEN <<>> ELSE currentRow.articles

StoredRows == {newestRow, currentRow} \ {NoRow}

RevisionsOf(row) == {a.revision : a \in ToSet(row.articles)}

UnusedRevisions == BundleRevision \ UNION {RevisionsOf(row) : row \in StoredRows}

\* freezeArticle: the draft becomes a version under its id, which no release has yet.
FreezeForRelease(a, revision, at, title, tags) ==
    InOrder([id |-> a, revision |-> revision, publishedAt |-> at, title |-> title, tags |-> tags])

\* PrepareSnapshot: an article takes the place it had, or comes last.
WithFrozen(article) ==
    IF \E i \in DOMAIN BaseArticles : BaseArticles[i].id = article.id
    THEN [i \in DOMAIN BaseArticles |->
             IF BaseArticles[i].id = article.id THEN article ELSE BaseArticles[i]]
    ELSE Append(BaseArticles, article)

StoredRow(site, prepared, payload) ==
    [site     |-> site,
     articles |-> ById(prepared),
     checksum |-> ChecksumForPayload(payload)]

\* CreateLocked stores the snapshot; the attempt then succeeds or fails.
StoreRelease(site, prepared) ==
    LET payload == PayloadOf(site, prepared)
    IN  /\ payload # Refused
        /\ \A i \in DOMAIN prepared : ValidArticleSnapshot(prepared[i])
        /\ newestRow' = StoredRow(site, prepared, payload)
        /\ currentRow' \in {currentRow, newestRow'}

\* The site is that of the current release, or what the settings say, if there
\* is none; they may say anything.
BaseSites == IF currentRow = NoRow THEN BundleSite ELSE {currentRow.site}

StoreArticle(a, at, title, tags) ==
    LET revision == CHOOSE r \in UnusedRevisions : TRUE
    IN  /\ UnusedRevisions # {}
        /\ \E site \in BaseSites :
              StoreRelease(site, WithFrozen(FreezeForRelease(a, revision, at, title, tags)))

StoreWithout(a) ==
    \E i \in DOMAIN BaseArticles :
        /\ BaseArticles[i].id = a
        /\ StoreRelease(currentRow.site, RemoveAt(BaseArticles, i))

StoreSettings == \E site \in BundleSite : StoreRelease(site, BaseArticles)

\* The snapshot of a release that failed is built again as it is.
RetryNewest ==
    /\ newestRow # NoRow /\ currentRow' = newestRow
    /\ UNCHANGED newestRow

BundleInit == newestRow = NoRow /\ currentRow = NoRow

BundleNext ==
    \/ StoreSettings \/ RetryNewest
    \/ \E a \in BundleArticle :
        \/ StoreWithout(a)
        \/ \E at \in PublishTime, title \in BundleTitle, tags \in DraftTagLists : StoreArticle(a, at, title, tags)

BundleSpec == BundleInit /\ [][BundleNext]_bundleVars

-----------------------------------------------------------------------------

LoadReleaseArticles(row) == row.articles

\* assembleStoredBundle
AssembleStoredBundle(row) ==
    LET articles == ByTime([i \in DOMAIN row.articles |-> InOrder(LoadReleaseArticles(row)[i])])
    IN  [site     |-> row.site,
         tags     |-> BySlug(SetToSeq(CarriedTags(articles))),
         articles |-> [i \in DOMAIN articles |-> WithSlugs(articles[i])],
         checksum |-> row.checksum]

\* normalizeBundle: the tags of the articles are looked up in the list again.
NormalizeBundle(bundle) ==
    LET slugs == {t.slug : t \in ToSet(bundle.tags)}
        used  == UNION {ToSet(a.tags) : a \in ToSet(bundle.articles)}
        Tag(slug) == CHOOSE t \in ToSet(bundle.tags) : t.slug = slug
        prepared == [i \in DOMAIN bundle.articles |->
                        [bundle.articles[i] EXCEPT !.tags = [j \in DOMAIN @ |-> Tag(@[j])]]]
    IN  IF Cardinality(slugs) = Len(bundle.tags) /\ used = slugs
        THEN PayloadOf(bundle.site, prepared)
        ELSE Refused

\* Service.Bundle of a release that has not failed: what is sent, or Refused.
EncodeCanonicalBundle(row) ==
    LET articles == LoadReleaseArticles(row)
        bundle   == AssembleStoredBundle(row)
        payload  == NormalizeBundle(bundle)
    IN  IF /\ \A i \in DOMAIN articles : ValidArticleSnapshot(articles[i])
           /\ bundle.site = row.site
           /\ payload # Refused /\ ChecksumForPayload(payload) = bundle.checksum
        THEN payload
        ELSE Refused

\* Whatever was released can be built: the rows of a release, read back in the
\* order of the table, give a bundle with the checksum that was computed before
\* they were written, in whatever order articles were published and tags chosen.
BundleVerifies == \A row \in StoredRows : EncodeCanonicalBundle(row) # Refused

\* The checksum, which the builder, the download and the deployed site are
\* compared by, identifies what is released: two releases have the same if and only
\* if they have the same site and carry the same revisions, whatever the order they
\* were put together in.
RevisionsFixChecksum ==
    \A r, s \in StoredRows :
        r.checksum = s.checksum <=> r.site = s.site /\ RevisionsOf(r) = RevisionsOf(s)
=============================================================================
