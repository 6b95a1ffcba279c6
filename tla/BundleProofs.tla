---------------------------- MODULE BundleProofs ----------------------------
(***************************************************************************)
(* Proofs about ReleaseBundle for any articles, tags, names, sites, times  *)
(* and any number of tags of an article.                                   *)
(*                                                                         *)
(* Sorting: the places of a list are put into the order of their keys, so  *)
(* a sorted list has the elements of the list (SortedKeepsElements), and   *)
(* where the keys differ it depends on the elements only, not on the order *)
(* they came in (SortForgetsTheOrder).                                     *)
(*                                                                         *)
(* Releases: a row has every article once, and its checksum is that of the *)
(* articles it has (RowsAreSound).  What is read back, assembled and       *)
(* looked up again has the same contents as what was prepared, and so the  *)
(* same payload.                                                           *)
(***************************************************************************)
EXTENDS ReleaseBundle, FiniteSetTheorems, TLAPS

Key == Int \X Int

LEMMA KeysAreOrdered ==
    ASSUME NEW k \in Key, NEW l \in Key
    PROVE  /\ ~KeyBefore(k, k)
           /\ k # l => KeyBefore(k, l) \/ KeyBefore(l, k)
           /\ \A m \in Key : KeyBefore(k, l) /\ KeyBefore(l, m) => KeyBefore(k, m)
<1>1. k[1] \in Int /\ k[2] \in Int /\ l[1] \in Int /\ l[2] \in Int /\ k = <<k[1], k[2]>> /\ l = <<l[1], l[2]>>
  BY DEF Key
<1>2. ~KeyBefore(k, k)
  BY <1>1 DEF KeyBefore
<1>3. k # l => KeyBefore(k, l) \/ KeyBefore(l, k)
  BY <1>1 DEF KeyBefore
<1>4. ASSUME NEW m \in Key, KeyBefore(k, l), KeyBefore(l, m) PROVE KeyBefore(k, m)
  <2>1. m[1] \in Int /\ m[2] \in Int
    BY DEF Key
  <2> QED BY <1>1, <1>4, <2>1 DEF KeyBefore
<1> QED BY <1>2, <1>3, <1>4

\* Ties are broken by the place, so of two places one comes first.
LEMMA AheadIsOrdered ==
    ASSUME NEW n \in Nat, NEW key \in [1..n -> Key], NEW i \in 1..n, NEW j \in 1..n
    PROVE  /\ Ahead(key, i) \in SUBSET (1..n)
           /\ i \notin Ahead(key, i)
           /\ i # j => i \in Ahead(key, j) \/ j \in Ahead(key, i)
           /\ i \in Ahead(key, j) => Ahead(key, i) \subseteq Ahead(key, j)
<1>1. key[i] \in Key /\ key[j] \in Key /\ i \in Int /\ j \in Int /\ DOMAIN key = 1..n
  OBVIOUS
<1>2. Ahead(key, i) \in SUBSET (1..n)
  BY <1>1 DEF Ahead
<1>3. i \notin Ahead(key, i)
  BY <1>1, KeysAreOrdered DEF Ahead
<1>4. i # j => i \in Ahead(key, j) \/ j \in Ahead(key, i)
  <2>1. i < j \/ j < i \/ i = j
    BY <1>1
  <2> QED BY <1>1, <2>1, KeysAreOrdered DEF Ahead
<1>5. ASSUME i \in Ahead(key, j), NEW m \in Ahead(key, i) PROVE m \in Ahead(key, j)
  <2>1. m \in 1..n /\ key[m] \in Key /\ m \in Int
    BY <1>1 DEF Ahead
  <2>2. KeyBefore(key[m], key[i]) \/ (key[m] = key[i] /\ m < i)
    BY DEF Ahead
  <2>3. KeyBefore(key[i], key[j]) \/ (key[i] = key[j] /\ i < j)
    BY <1>5 DEF Ahead
  <2>4. m < i /\ i < j => m < j
    BY <1>1, <2>1
  <2>5. KeyBefore(key[m], key[j]) \/ (key[m] = key[j] /\ m < j)
    BY <1>1, <2>1, <2>2, <2>3, <2>4, KeysAreOrdered
  <2> QED BY <1>1, <2>1, <2>5 DEF Ahead
<1> QED BY <1>2, <1>3, <1>4, <1>5

\* A place has fewer ahead of it than there are, and no two have the same number.
LEMMA AheadIsCounted ==
    ASSUME NEW n \in Nat, NEW key \in [1..n -> Key], NEW i \in 1..n
    PROVE  /\ IsFiniteSet(Ahead(key, i)) /\ Cardinality(Ahead(key, i)) \in 0..(n - 1)
           /\ \A j \in 1..n : i # j => Cardinality(Ahead(key, i)) # Cardinality(Ahead(key, j))
<1>1. \A m \in 1..n : IsFiniteSet(Ahead(key, m)) /\ Cardinality(Ahead(key, m)) \in Nat
  <2> SUFFICES ASSUME NEW m \in 1..n
               PROVE  IsFiniteSet(Ahead(key, m)) /\ Cardinality(Ahead(key, m)) \in Nat
    OBVIOUS
  <2>1. Ahead(key, m) \in SUBSET (1..n)
    BY AheadIsOrdered
  <2>2. IsFiniteSet(1..n)
    BY FS_Interval
  <2>3. IsFiniteSet(Ahead(key, m))
    BY <2>1, <2>2, FS_Subset
  <2> QED BY <2>3, FS_CardinalityType
<1>2. Cardinality(Ahead(key, i)) < n
  <2>1. IsFiniteSet(1..n) /\ Cardinality(1..n) = n
    BY FS_Interval
  <2>2. Ahead(key, i) \in SUBSET (1..n) /\ Ahead(key, i) # 1..n
    BY AheadIsOrdered
  <2> QED BY <1>1, <2>1, <2>2, FS_Subset
<1>3. ASSUME NEW j \in 1..n, NEW m \in 1..n, j \in Ahead(key, m)
      PROVE  Cardinality(Ahead(key, j)) # Cardinality(Ahead(key, m))
  <2>1. Ahead(key, j) \in SUBSET Ahead(key, m) /\ Ahead(key, j) # Ahead(key, m)
    BY <1>3, AheadIsOrdered
  <2> QED BY <1>1, <2>1, FS_Subset
<1>4. \A j \in 1..n : i # j => Cardinality(Ahead(key, i)) # Cardinality(Ahead(key, j))
  BY <1>3, AheadIsOrdered
<1> QED BY <1>1, <1>2, <1>4

\* Every place is taken by one element.
LEMMA PlacesAreTaken ==
    ASSUME NEW n \in Nat, NEW key \in [1..n -> Key]
    PROVE  /\ \A m \in 1..n : /\ NthByKey(key, m) \in 1..n
                              /\ Cardinality(Ahead(key, NthByKey(key, m))) = m - 1
           /\ \A i \in 1..n : \E m \in 1..n : NthByKey(key, m) = i
<1> DEFINE rank == [i \in 1..n |-> Cardinality(Ahead(key, i)) + 1]
<1>1. rank \in Injection(1..n, 1..n)
  <2>1. \A i \in 1..n : rank[i] \in 1..n
    <3> SUFFICES ASSUME NEW i \in 1..n PROVE rank[i] \in 1..n
      OBVIOUS
    <3>1. Cardinality(Ahead(key, i)) \in 0..(n - 1)
      BY AheadIsCounted
    <3> QED BY <3>1
  <2>2. \A i, j \in 1..n : rank[i] = rank[j] => i = j
    <3> SUFFICES ASSUME NEW i \in 1..n, NEW j \in 1..n, rank[i] = rank[j], i # j PROVE FALSE
      OBVIOUS
    <3>1. /\ Cardinality(Ahead(key, i)) \in Int /\ Cardinality(Ahead(key, j)) \in Int
          /\ Cardinality(Ahead(key, i)) # Cardinality(Ahead(key, j))
      BY AheadIsCounted
    <3> QED BY <3>1
  <2> QED BY <2>1, <2>2 DEF Injection, IsInjective
<1>2. \A m \in 1..n : \E i \in 1..n : rank[i] = m
  <2>1. IsFiniteSet(1..n) /\ Cardinality(1..n) = Cardinality(1..n)
    BY FS_Interval
  <2>2. rank \in Surjection(1..n, 1..n)
    BY <1>1, <2>1, FS_Injection
  <2> QED BY <2>2 DEF Surjection
<1>3. ASSUME NEW m \in 1..n
      PROVE  NthByKey(key, m) \in 1..n /\ Cardinality(Ahead(key, NthByKey(key, m))) = m - 1
  <2>1. PICK i \in 1..n : rank[i] = m
    BY <1>2
  <2>2. Cardinality(Ahead(key, i)) \in Int /\ m \in Int
    BY AheadIsCounted
  <2>3. Cardinality(Ahead(key, i)) = m - 1 /\ DOMAIN key = 1..n
    BY <2>1, <2>2
  <2> QED BY <2>3 DEF NthByKey
<1>4. ASSUME NEW i \in 1..n PROVE \E m \in 1..n : NthByKey(key, m) = i
  <2> DEFINE m == Cardinality(Ahead(key, i)) + 1
  <2>1. m \in 1..n /\ Cardinality(Ahead(key, i)) = m - 1
    BY AheadIsCounted
  <2> HIDE DEF m
  <2>2. NthByKey(key, m) \in 1..n /\ Cardinality(Ahead(key, NthByKey(key, m))) = m - 1
    BY <1>3, <2>1
  <2>3. NthByKey(key, m) = i
    BY <2>1, <2>2, AheadIsCounted
  <2> QED BY <2>1, <2>3
<1> QED BY <1>3, <1>4

\* The n-th element of a sorted list is the one at the n-th place.
LEMMA SortedKeepsElements ==
    ASSUME NEW n \in Nat, NEW key \in [1..n -> Key], NEW s, DOMAIN s = 1..n
    PROVE  /\ DOMAIN Sorted(s, key) = 1..n /\ ToSet(Sorted(s, key)) = ToSet(s)
           /\ \A m \in 1..n : NthByKey(key, m) \in 1..n /\ Sorted(s, key)[m] = s[NthByKey(key, m)]
           /\ \A m, q \in 1..n : NthByKey(key, m) = NthByKey(key, q) => m = q
<1>1. Sorted(s, key) = [m \in 1..n |-> s[NthByKey(key, m)]]
  BY DEF Sorted
<1>2. \A m \in 1..n : NthByKey(key, m) \in 1..n
  BY PlacesAreTaken
<1>3. \A m, q \in 1..n : NthByKey(key, m) = NthByKey(key, q) => m = q
  <2> SUFFICES ASSUME NEW m \in 1..n, NEW q \in 1..n, NthByKey(key, m) = NthByKey(key, q) PROVE m = q
    OBVIOUS
  <2>1. m - 1 = q - 1
    BY PlacesAreTaken
  <2> QED BY <2>1
<1>4. \A i \in 1..n : \E m \in 1..n : NthByKey(key, m) = i
  BY PlacesAreTaken
<1>5. DOMAIN Sorted(s, key) = 1..n /\ \A m \in 1..n : Sorted(s, key)[m] = s[NthByKey(key, m)]
  BY <1>1
<1>6. ToSet(Sorted(s, key)) = ToSet(s)
  BY <1>2, <1>4, <1>5 DEF ToSet
<1> QED BY <1>2, <1>3, <1>5, <1>6

\* Where no two places have the same key, a place has as many ahead of it as
\* there are lesser keys.
LEMMA AheadIsLesserKeys ==
    ASSUME NEW n \in Nat, NEW key \in [1..n -> Key], IsInjective(key), NEW i \in 1..n
    PROVE  Cardinality(Ahead(key, i)) = Cardinality({k \in Range(key) : KeyBefore(k, key[i])})
<1> DEFINE lesser == {k \in Range(key) : KeyBefore(k, key[i])}
           keyOf == [j \in Ahead(key, i) |-> key[j]]
<1>1. Ahead(key, i) = {j \in 1..n : KeyBefore(key[j], key[i])}
  BY DEF Ahead, IsInjective
<1>2. \A j \in Ahead(key, i) : keyOf[j] \in lesser
  BY <1>1 DEF Range
<1>3. \A j, m \in Ahead(key, i) : keyOf[j] = keyOf[m] => j = m
  BY <1>1 DEF IsInjective
<1>4. \A k \in lesser : \E j \in Ahead(key, i) : keyOf[j] = k
  BY <1>1 DEF Range
<1>5. keyOf \in Bijection(Ahead(key, i), lesser)
  BY <1>2, <1>3, <1>4 DEF Bijection, Injection, Surjection, IsInjective
<1> HIDE DEF lesser, keyOf
<1>6. IsFiniteSet(Ahead(key, i))
  BY AheadIsCounted
<1>7. Cardinality(lesser) = Cardinality(Ahead(key, i))
  BY <1>5, <1>6, FS_Bijection DEF ExistsBijection
<1> QED BY <1>7 DEF lesser

\* Every place has a key of its own.
IsKeyed(s, key) ==
    \E n \in Nat : DOMAIN s = 1..n /\ key \in [1..n -> Key] /\ IsInjective(key)

\* Equal keys name equal elements.
Agree(s, ks, t, kt) == \A i \in DOMAIN s, j \in DOMAIN t : ks[i] = kt[j] => s[i] = t[j]

\* Two lists of the same elements, under keys of their own, sort alike.
LEMMA SortForgetsTheOrder ==
    ASSUME NEW s, NEW ks, IsKeyed(s, ks), NEW t, NEW kt, IsKeyed(t, kt),
           Range(ks) = Range(kt), Agree(s, ks, t, kt)
    PROVE  Sorted(s, ks) = Sorted(t, kt)
<1> PICK n \in Nat : DOMAIN s = 1..n /\ ks \in [1..n -> Key] /\ IsInjective(ks)
  BY DEF IsKeyed
<1> PICK m \in Nat : DOMAIN t = 1..m /\ kt \in [1..m -> Key] /\ IsInjective(kt)
  BY DEF IsKeyed
<1>2. n = m
  <2>1. ks \in Bijection(1..n, Range(ks)) /\ kt \in Bijection(1..m, Range(ks))
    BY DEF Bijection, Injection, Surjection, Range
  <2>2. IsFiniteSet(1..n) /\ Cardinality(1..n) = n /\ IsFiniteSet(1..m) /\ Cardinality(1..m) = m
    BY FS_Interval
  <2>3. Cardinality(Range(ks)) = n
    BY <2>1, <2>2, FS_Bijection DEF ExistsBijection
  <2>4. Cardinality(Range(ks)) = m
    BY <2>1, <2>2, FS_Bijection DEF ExistsBijection
  <2> QED BY <2>3, <2>4
<1>3. ASSUME NEW p \in 1..n PROVE s[NthByKey(ks, p)] = t[NthByKey(kt, p)]
  <2> DEFINE i == NthByKey(ks, p)
             j == NthByKey(kt, p)
  <2>1. /\ i \in 1..n /\ Cardinality(Ahead(ks, i)) = p - 1
        /\ j \in 1..n /\ Cardinality(Ahead(kt, j)) = p - 1
    BY <1>2, PlacesAreTaken
  <2> HIDE DEF i, j
  <2>2. PICK q \in 1..n : ks[i] = kt[q]
    <3>1. ks[i] \in Range(kt)
      BY <2>1 DEF Range
    <3> QED BY <1>2, <3>1 DEF Range
  <2>3. Cardinality(Ahead(kt, q)) = Cardinality(Ahead(ks, i))
    <3>1. Cardinality(Ahead(kt, q)) = Cardinality({k \in Range(kt) : KeyBefore(k, kt[q])})
      BY <1>2, AheadIsLesserKeys
    <3>2. Cardinality(Ahead(ks, i)) = Cardinality({k \in Range(ks) : KeyBefore(k, ks[i])})
      BY <2>1, AheadIsLesserKeys
    <3> QED BY <2>2, <3>1, <3>2
  <2>4. q = j
    BY <1>2, <2>1, <2>3, AheadIsCounted
  <2>5. s[i] = t[j]
    BY <1>2, <2>1, <2>2, <2>4 DEF Agree
  <2> QED BY <2>5 DEF i, j
<1> QED BY <1>2, <1>3 DEF Sorted

-----------------------------------------------------------------------------

Tag == [id : Int, name : BundleTagName, slug : Int]

Article ==
    [id : Int, revision : BundleRevision, publishedAt : Int, title : BundleTitle, tags : Seq(Tag)]

TagsAreDistinct(tags) == \A i, j \in DOMAIN tags : i # j => tags[i].id # tags[j].id

\* The articles of a snapshot: no two are the same one, and none has a tag twice.
IsSnapshot(articles) ==
    /\ articles \in Seq(Article)
    /\ \A i \in DOMAIN articles : TagsAreDistinct(articles[i].tags)
    /\ \A i, j \in DOMAIN articles : i # j => articles[i].id # articles[j].id

\* What an article shows, in whatever order its tags are.
Content(a) == [a EXCEPT !.tags = ToSet(@)]

Contents(articles) == {Content(a) : a \in ToSet(articles)}

\* The articles of a payload.
Ordered(articles) == ByTime([i \in DOMAIN articles |-> InOrder(articles[i])])

LEMMA SortedIsAList ==
    ASSUME NEW S, NEW s \in Seq(S), NEW key \in [1..Len(s) -> Key]
    PROVE  /\ Sorted(s, key) \in Seq(S) /\ Len(Sorted(s, key)) = Len(s) /\ ToSet(Sorted(s, key)) = ToSet(s)
           /\ \A m \in 1..Len(s) : NthByKey(key, m) \in 1..Len(s) /\ Sorted(s, key)[m] = s[NthByKey(key, m)]
           /\ \A m, q \in 1..Len(s) : NthByKey(key, m) = NthByKey(key, q) => m = q
<1> DEFINE sorted == Sorted(s, key)
<1>1. Len(s) \in Nat /\ DOMAIN s = 1..Len(s)
  OBVIOUS
<1>2. sorted = [m \in 1..Len(s) |-> s[NthByKey(key, m)]]
  BY <1>1 DEF Sorted
<1>3. /\ DOMAIN sorted = 1..Len(s) /\ ToSet(sorted) = ToSet(s)
      /\ \A m \in 1..Len(s) : NthByKey(key, m) \in 1..Len(s) /\ sorted[m] = s[NthByKey(key, m)]
      /\ \A m, q \in 1..Len(s) : NthByKey(key, m) = NthByKey(key, q) => m = q
  BY <1>1, SortedKeepsElements
<1> HIDE DEF sorted
<1>4. sorted \in Seq(S) /\ Len(sorted) = Len(s)
  <2>1. \A m \in 1..Len(s) : s[NthByKey(key, m)] \in S
    BY <1>1, <1>3
  <2> QED BY <1>1, <1>2, <2>1
<1> QED BY <1>3, <1>4 DEF sorted

SlugKeys(tags) == [i \in DOMAIN tags |-> SlugKey(tags[i])]

LEMMA TagKeys ==
    ASSUME NEW tags \in Seq(Tag), TagsAreDistinct(tags)
    PROVE  /\ Len(tags) \in Nat /\ DOMAIN tags = 1..Len(tags) /\ \A i \in 1..Len(tags) : tags[i] \in Tag
           /\ SlugKeys(tags) \in [1..Len(tags) -> Key] /\ IsKeyed(tags, SlugKeys(tags))
           /\ Range(SlugKeys(tags)) = {SlugKey(tag) : tag \in ToSet(tags)}
           /\ BySlug(tags) = Sorted(tags, SlugKeys(tags))
<1>1. Len(tags) \in Nat /\ DOMAIN tags = 1..Len(tags) /\ \A i \in 1..Len(tags) : tags[i] \in Tag
  OBVIOUS
<1>2. \A i \in DOMAIN tags : tags[i].slug \in Int /\ tags[i].id \in Int
  BY <1>1 DEF Tag
<1>3. SlugKeys(tags) \in [1..Len(tags) -> Key]
  BY <1>1, <1>2 DEF SlugKeys, SlugKey, Key
<1>4. IsInjective(SlugKeys(tags))
  BY <1>1 DEF IsInjective, SlugKeys, SlugKey, TagsAreDistinct
<1>5. IsKeyed(tags, SlugKeys(tags))
  BY <1>1, <1>3, <1>4 DEF IsKeyed
<1>6. Range(SlugKeys(tags)) = {SlugKey(tag) : tag \in ToSet(tags)}
  BY DEF SlugKeys, Range, ToSet
<1> QED BY <1>1, <1>3, <1>5, <1>6 DEF BySlug, SlugKeys

\* The order of the tags of an article depends on its tags only.
LEMMA TagsSort ==
    ASSUME NEW tags \in Seq(Tag), TagsAreDistinct(tags)
    PROVE  /\ BySlug(tags) \in Seq(Tag) /\ Len(BySlug(tags)) = Len(tags)
           /\ ToSet(BySlug(tags)) = ToSet(tags) /\ TagsAreDistinct(BySlug(tags))
           /\ \A other \in Seq(Tag) :
                 TagsAreDistinct(other) /\ ToSet(other) = ToSet(tags) => BySlug(other) = BySlug(tags)
<1>1. /\ Len(tags) \in Nat /\ DOMAIN tags = 1..Len(tags)
      /\ SlugKeys(tags) \in [1..Len(tags) -> Key] /\ IsKeyed(tags, SlugKeys(tags))
      /\ BySlug(tags) = Sorted(tags, SlugKeys(tags))
  BY TagKeys
<1>2. /\ BySlug(tags) \in Seq(Tag) /\ Len(BySlug(tags)) = Len(tags) /\ ToSet(BySlug(tags)) = ToSet(tags)
      /\ \A m \in 1..Len(tags) : /\ NthByKey(SlugKeys(tags), m) \in 1..Len(tags)
                                  /\ BySlug(tags)[m] = tags[NthByKey(SlugKeys(tags), m)]
      /\ \A m, q \in 1..Len(tags) : NthByKey(SlugKeys(tags), m) = NthByKey(SlugKeys(tags), q) => m = q
  BY <1>1, SortedIsAList
<1>3. TagsAreDistinct(BySlug(tags))
  <2> SUFFICES ASSUME NEW m \in 1..Len(tags), NEW q \in 1..Len(tags), m # q
               PROVE  BySlug(tags)[m].id # BySlug(tags)[q].id
    BY <1>2 DEF TagsAreDistinct
  <2> DEFINE i == NthByKey(SlugKeys(tags), m)
             j == NthByKey(SlugKeys(tags), q)
  <2>1. i \in DOMAIN tags /\ j \in DOMAIN tags /\ i # j /\ BySlug(tags)[m] = tags[i] /\ BySlug(tags)[q] = tags[j]
    BY <1>1, <1>2
  <2> HIDE DEF i, j
  <2> QED BY <2>1 DEF TagsAreDistinct
<1>4. ASSUME NEW other \in Seq(Tag), TagsAreDistinct(other), ToSet(other) = ToSet(tags)
      PROVE  BySlug(other) = BySlug(tags)
  <2>1. /\ Len(other) \in Nat /\ DOMAIN other = 1..Len(other)
        /\ SlugKeys(other) \in [1..Len(other) -> Key] /\ IsKeyed(other, SlugKeys(other))
        /\ Range(SlugKeys(other)) = {SlugKey(tag) : tag \in ToSet(other)}
        /\ BySlug(other) = Sorted(other, SlugKeys(other))
    BY <1>4, TagKeys
  <2>2. Range(SlugKeys(tags)) = {SlugKey(tag) : tag \in ToSet(tags)}
    BY TagKeys
  <2>3. Range(SlugKeys(other)) = Range(SlugKeys(tags))
    BY <1>4, <2>1, <2>2
  <2>4. Agree(other, SlugKeys(other), tags, SlugKeys(tags))
    <3> SUFFICES ASSUME NEW i \in 1..Len(other), NEW j \in 1..Len(tags),
                        SlugKeys(other)[i] = SlugKeys(tags)[j]
                 PROVE  other[i] = tags[j]
      BY <1>1, <2>1 DEF Agree
    <3>1. PICK h \in 1..Len(tags) : other[i] = tags[h]
      BY <1>1, <1>4, <2>1 DEF ToSet
    <3>2. tags[h].id = tags[j].id
      BY <1>1, <2>1, <3>1 DEF SlugKeys, SlugKey
    <3> QED BY <1>1, <3>1, <3>2 DEF TagsAreDistinct
  <2>5. Sorted(other, SlugKeys(other)) = Sorted(tags, SlugKeys(tags))
    BY <1>1, <2>1, <2>3, <2>4, SortForgetsTheOrder
  <2> QED BY <1>1, <2>1, <2>5
<1> QED BY <1>2, <1>3, <1>4

LEMMA ArticleInOrder ==
    ASSUME NEW a \in Article, TagsAreDistinct(a.tags)
    PROVE  /\ InOrder(a) \in Article /\ TagsAreDistinct(InOrder(a).tags)
           /\ InOrder(a).id = a.id /\ InOrder(a).publishedAt = a.publishedAt
           /\ InOrder(a).revision = a.revision
           /\ Content(InOrder(a)) = Content(a)
           /\ \A b \in Article : TagsAreDistinct(b.tags) /\ Content(b) = Content(a) => InOrder(b) = InOrder(a)
<1>1. a.tags \in Seq(Tag)
  BY DEF Article
<1>2. InOrder(a) = [a EXCEPT !.tags = BySlug(a.tags)]
  BY DEF InOrder
<1>3. BySlug(a.tags) \in Seq(Tag) /\ ToSet(BySlug(a.tags)) = ToSet(a.tags) /\ TagsAreDistinct(BySlug(a.tags))
  BY <1>1, TagsSort
<1>4. InOrder(a).tags = BySlug(a.tags)
  BY <1>2 DEF Article
<1>5. /\ InOrder(a) \in Article /\ InOrder(a).id = a.id /\ InOrder(a).publishedAt = a.publishedAt
      /\ InOrder(a).revision = a.revision
  BY <1>2, <1>3 DEF Article
<1>6. Content(InOrder(a)) = Content(a)
  BY <1>2, <1>3, <1>4 DEF Content, Article
<1>7. ASSUME NEW b \in Article, TagsAreDistinct(b.tags), Content(b) = Content(a) PROVE InOrder(b) = InOrder(a)
  <2>1. /\ b.id = a.id /\ b.revision = a.revision /\ b.publishedAt = a.publishedAt /\ b.title = a.title
        /\ ToSet(b.tags) = ToSet(a.tags) /\ b.tags \in Seq(Tag)
    BY <1>7 DEF Content, Article
  <2>2. BySlug(b.tags) = BySlug(a.tags)
    BY <1>1, <1>7, <2>1, TagsSort
  <2> QED BY <2>1, <2>2 DEF InOrder, Article
<1> QED BY <1>3, <1>4, <1>5, <1>6, <1>7

\* However it is sorted, a snapshot stays one.
LEMMA SnapshotSorts ==
    ASSUME NEW articles, IsSnapshot(articles), NEW key \in [1..Len(articles) -> Key]
    PROVE  IsSnapshot(Sorted(articles, key)) /\ ToSet(Sorted(articles, key)) = ToSet(articles)
<1> DEFINE sorted == Sorted(articles, key)
<1>1. articles \in Seq(Article) /\ Len(articles) \in Nat /\ DOMAIN articles = 1..Len(articles)
  BY DEF IsSnapshot
<1>2. /\ sorted \in Seq(Article) /\ Len(sorted) = Len(articles) /\ ToSet(sorted) = ToSet(articles)
      /\ \A m \in 1..Len(articles) : /\ NthByKey(key, m) \in 1..Len(articles)
                                     /\ sorted[m] = articles[NthByKey(key, m)]
      /\ \A m, q \in 1..Len(articles) : NthByKey(key, m) = NthByKey(key, q) => m = q
  BY <1>1, SortedIsAList
<1> HIDE DEF sorted
<1>3. ASSUME NEW m \in DOMAIN sorted
      PROVE  /\ NthByKey(key, m) \in DOMAIN articles /\ sorted[m] = articles[NthByKey(key, m)]
             /\ \A q \in DOMAIN sorted : m # q => NthByKey(key, m) # NthByKey(key, q)
  BY <1>1, <1>2
<1>4. \A m \in DOMAIN sorted : TagsAreDistinct(sorted[m].tags)
  BY <1>3 DEF IsSnapshot
<1>5. ASSUME NEW m \in DOMAIN sorted, NEW q \in DOMAIN sorted, m # q PROVE sorted[m].id # sorted[q].id
  <2> DEFINE i == NthByKey(key, m)
             j == NthByKey(key, q)
  <2>1. i \in DOMAIN articles /\ j \in DOMAIN articles /\ i # j /\ sorted[m] = articles[i] /\ sorted[q] = articles[j]
    BY <1>3, <1>5
  <2> HIDE DEF i, j
  <2> QED BY <2>1 DEF IsSnapshot
<1>6. IsSnapshot(sorted)
  BY <1>2, <1>4, <1>5 DEF IsSnapshot
<1> QED BY <1>2, <1>6 DEF sorted

TagsInOrder(articles) == [i \in DOMAIN articles |-> InOrder(articles[i])]

LEMMA TagsAreOrdered ==
    ASSUME NEW articles, IsSnapshot(articles)
    PROVE  IsSnapshot(TagsInOrder(articles)) /\ Contents(TagsInOrder(articles)) = Contents(articles)
<1> DEFINE ordered == TagsInOrder(articles)
<1>1. Len(articles) \in Nat /\ DOMAIN articles = 1..Len(articles) /\ \A i \in 1..Len(articles) : articles[i] \in Article
  <2>1. articles \in Seq(Article)
    BY DEF IsSnapshot
  <2> QED BY <2>1
<1>2. ASSUME NEW i \in 1..Len(articles)
      PROVE  /\ ordered[i] = InOrder(articles[i]) /\ ordered[i] \in Article
             /\ TagsAreDistinct(ordered[i].tags) /\ ordered[i].id = articles[i].id
             /\ Content(ordered[i]) = Content(articles[i])
  <2>1. ordered[i] = InOrder(articles[i])
    BY <1>1 DEF TagsInOrder
  <2>2. articles[i] \in Article /\ TagsAreDistinct(articles[i].tags)
    BY <1>1 DEF IsSnapshot
  <2>3. /\ InOrder(articles[i]) \in Article /\ TagsAreDistinct(InOrder(articles[i]).tags)
        /\ InOrder(articles[i]).id = articles[i].id /\ Content(InOrder(articles[i])) = Content(articles[i])
    BY <2>2, ArticleInOrder
  <2> QED BY <2>1, <2>3
<1>3. ordered = [i \in 1..Len(articles) |-> ordered[i]]
  BY <1>1 DEF TagsInOrder
<1> HIDE DEF ordered
<1>4. ordered \in Seq(Article) /\ DOMAIN ordered = 1..Len(articles)
  <2>1. \A i \in 1..Len(articles) : ordered[i] \in Article
    BY <1>2
  <2> QED BY <1>1, <1>3, <2>1
<1>5. IsSnapshot(ordered)
  BY <1>1, <1>2, <1>4 DEF IsSnapshot
<1>6. Contents(ordered) = Contents(articles)
  BY <1>1, <1>2, <1>4 DEF Contents, ToSet
<1> QED BY <1>5, <1>6 DEF ordered

TimeKeys(articles) == [i \in DOMAIN articles |-> ArticleKey(articles[i])]

LEMMA SnapshotKeys ==
    ASSUME NEW articles, IsSnapshot(articles)
    PROVE  /\ TimeKeys(articles) \in [1..Len(articles) -> Key] /\ IsKeyed(articles, TimeKeys(articles))
           /\ Range(TimeKeys(articles)) = {ArticleKey(a) : a \in ToSet(articles)}
           /\ ByTime(articles) = Sorted(articles, TimeKeys(articles))
           /\ \E key \in [1..Len(articles) -> Key] : ById(articles) = Sorted(articles, key)
<1>1. Len(articles) \in Nat /\ DOMAIN articles = 1..Len(articles) /\ \A i \in 1..Len(articles) : articles[i] \in Article
  <2>1. articles \in Seq(Article)
    BY DEF IsSnapshot
  <2> QED BY <2>1
<1>2. \A i \in DOMAIN articles : articles[i].publishedAt \in Int /\ articles[i].id \in Int
  BY <1>1 DEF Article
<1>3. TimeKeys(articles) \in [1..Len(articles) -> Key]
  BY <1>1, <1>2 DEF TimeKeys, ArticleKey, Key
<1>4. IsInjective(TimeKeys(articles))
  BY <1>1 DEF IsInjective, TimeKeys, ArticleKey, IsSnapshot
<1>5. IsKeyed(articles, TimeKeys(articles))
  BY <1>1, <1>3, <1>4 DEF IsKeyed
<1>6. Range(TimeKeys(articles)) = {ArticleKey(a) : a \in ToSet(articles)}
  BY DEF TimeKeys, Range, ToSet
<1>7. ByTime(articles) = Sorted(articles, TimeKeys(articles))
  BY DEF ByTime, TimeKeys
<1>8. \E key \in [1..Len(articles) -> Key] : ById(articles) = Sorted(articles, key)
  <2> DEFINE key == [i \in DOMAIN articles |-> IdKey(articles[i])]
  <2>1. key \in [1..Len(articles) -> Key]
    BY <1>1, <1>2 DEF IdKey, Key
  <2>2. ById(articles) = Sorted(articles, key)
    BY DEF ById
  <2> HIDE DEF key
  <2> QED BY <2>1, <2>2
<1> QED BY <1>3, <1>5, <1>6, <1>7, <1>8

LEMMA OrderedIsASnapshot ==
    ASSUME NEW articles, IsSnapshot(articles)
    PROVE  IsSnapshot(Ordered(articles)) /\ Contents(Ordered(articles)) = Contents(articles)
<1> DEFINE o == TagsInOrder(articles)
<1>1. IsSnapshot(o) /\ Contents(o) = Contents(articles)
  BY TagsAreOrdered
<1>2. Ordered(articles) = ByTime(o)
  BY DEF Ordered, TagsInOrder
<1> HIDE DEF o
<1>3. TimeKeys(o) \in [1..Len(o) -> Key] /\ ByTime(o) = Sorted(o, TimeKeys(o))
  BY <1>1, SnapshotKeys
<1>4. IsSnapshot(ByTime(o)) /\ ToSet(ByTime(o)) = ToSet(o)
  BY <1>1, <1>3, SnapshotSorts
<1> QED BY <1>1, <1>2, <1>4 DEF Contents

\* The order of the table.
LEMMA RowsAreASnapshot ==
    ASSUME NEW articles, IsSnapshot(articles)
    PROVE  IsSnapshot(ById(articles)) /\ ToSet(ById(articles)) = ToSet(articles)
<1>1. PICK key \in [1..Len(articles) -> Key] : ById(articles) = Sorted(articles, key)
  BY SnapshotKeys
<1> QED BY <1>1, SnapshotSorts

\* The order in which a release is put together depends on its contents only.
LEMMA OrderIsOfTheContents ==
    ASSUME NEW a, IsSnapshot(a), NEW b, IsSnapshot(b), Contents(a) = Contents(b)
    PROVE  Ordered(a) = Ordered(b)
<1> DEFINE s == TagsInOrder(a)
           t == TagsInOrder(b)
<1>1. IsSnapshot(s) /\ IsSnapshot(t)
  BY TagsAreOrdered
<1>2. ToSet(s) \subseteq ToSet(t) /\ ToSet(t) \subseteq ToSet(s)
  <2>1. ASSUME NEW x, IsSnapshot(x), NEW y, IsSnapshot(y), Contents(x) = Contents(y), NEW i \in DOMAIN x
        PROVE  TagsInOrder(x)[i] \in ToSet(TagsInOrder(y))
    <3>6. x \in Seq(Article) /\ y \in Seq(Article)
      BY <2>1 DEF IsSnapshot
    <3>1. Content(x[i]) \in Contents(y)
      BY <2>1 DEF Contents, ToSet
    <3>2. PICK j \in DOMAIN y : Content(x[i]) = Content(y[j])
      BY <3>1 DEF Contents, ToSet
    <3>3. x[i] \in Article /\ y[j] \in Article /\ TagsAreDistinct(x[i].tags) /\ TagsAreDistinct(y[j].tags)
      BY <2>1, <3>6 DEF IsSnapshot
    <3>4. InOrder(x[i]) = InOrder(y[j])
      BY <3>2, <3>3, ArticleInOrder
    <3>5. DOMAIN TagsInOrder(y) = DOMAIN y /\ TagsInOrder(y)[j] = InOrder(y[j]) /\ TagsInOrder(x)[i] = InOrder(x[i])
      BY DEF TagsInOrder
    <3> QED BY <3>4, <3>5 DEF ToSet
  <2>2. DOMAIN s = DOMAIN a /\ DOMAIN t = DOMAIN b
    BY DEF TagsInOrder
  <2>3. \A i \in DOMAIN s : s[i] \in ToSet(t)
    BY <2>1, <2>2
  <2>4. \A i \in DOMAIN t : t[i] \in ToSet(s)
    BY <2>1, <2>2
  <2> HIDE DEF s, t
  <2> QED BY <2>3, <2>4 DEF ToSet
<1>3. Ordered(a) = ByTime(s) /\ Ordered(b) = ByTime(t)
  BY DEF Ordered, TagsInOrder
<1> HIDE DEF s, t
<1>4. /\ IsKeyed(s, TimeKeys(s)) /\ ByTime(s) = Sorted(s, TimeKeys(s))
      /\ IsKeyed(t, TimeKeys(t)) /\ ByTime(t) = Sorted(t, TimeKeys(t))
      /\ Range(TimeKeys(s)) = {ArticleKey(x) : x \in ToSet(s)}
      /\ Range(TimeKeys(t)) = {ArticleKey(x) : x \in ToSet(t)}
  BY <1>1, SnapshotKeys
<1>5. Range(TimeKeys(s)) = Range(TimeKeys(t))
  BY <1>2, <1>4
<1>6. Agree(s, TimeKeys(s), t, TimeKeys(t))
  <2> SUFFICES ASSUME NEW i \in DOMAIN s, NEW j \in DOMAIN t, TimeKeys(s)[i] = TimeKeys(t)[j]
               PROVE  s[i] = t[j]
    BY DEF Agree
  <2>1. PICK h \in DOMAIN t : s[i] = t[h]
    BY <1>2 DEF ToSet
  <2>2. t[h].id = t[j].id
    BY <2>1 DEF TimeKeys, ArticleKey
  <2> QED BY <1>1, <2>1, <2>2 DEF IsSnapshot
<1>7. IsKeyed(s, TimeKeys(s)) /\ IsKeyed(t, TimeKeys(t))
  BY <1>4
<1>8. Sorted(s, TimeKeys(s)) = Sorted(t, TimeKeys(t))
  BY <1>5, <1>6, <1>7, SortForgetsTheOrder
<1> QED BY <1>3, <1>4, <1>8

-----------------------------------------------------------------------------

\* The payload of a snapshot, once its articles are in their order.
PayloadInOrder(site, articles) ==
    IF Assemblable(articles)
    THEN [site     |-> site,
          tags     |-> BySlug(SetToSeq(CarriedTags(articles))),
          articles |-> [i \in DOMAIN articles |-> WithSlugs(articles[i])]]
    ELSE Refused

\* Two snapshots that show the same have the same payload, or are refused alike.
LEMMA PayloadIsOfTheContents ==
    ASSUME NEW site, NEW a, IsSnapshot(a), NEW b, IsSnapshot(b), Contents(a) = Contents(b)
    PROVE  PayloadOf(site, a) = PayloadOf(site, b)
<1>1. PayloadOf(site, a) = PayloadInOrder(site, Ordered(a)) /\ PayloadOf(site, b) = PayloadInOrder(site, Ordered(b))
  BY DEF PayloadOf, PayloadInOrder, Ordered
<1>2. Ordered(a) = Ordered(b)
  BY OrderIsOfTheContents
<1> QED BY <1>1, <1>2

LEMMA CarriedTagsAreFinite ==
    ASSUME NEW articles, IsSnapshot(articles)
    PROVE  CarriedTags(articles) \in SUBSET Tag /\ IsFiniteSet(CarriedTags(articles))
<1>1. /\ Len(articles) \in Nat /\ DOMAIN articles = 1..Len(articles)
      /\ \A i \in 1..Len(articles) : articles[i] \in Article
  <2>1. articles \in Seq(Article)
    BY DEF IsSnapshot
  <2> QED BY <2>1
<1>2. ASSUME NEW i \in 1..Len(articles)
      PROVE  ToSet(articles[i].tags) \in SUBSET Tag /\ IsFiniteSet(ToSet(articles[i].tags))
  <2> DEFINE tags == articles[i].tags
             n == Len(tags)
  <2>1. tags \in Seq(Tag)
    BY <1>1 DEF Article
  <2> HIDE DEF tags
  <2>2. n \in Nat /\ DOMAIN tags = 1..n /\ tags \in [1..n -> Tag]
    BY <2>1
  <2> HIDE DEF n
  <2>3. tags \in Surjection(1..n, ToSet(tags))
    BY <2>2 DEF Surjection, ToSet
  <2>4. IsFiniteSet(1..n)
    BY <2>2, FS_Interval
  <2>5. IsFiniteSet(ToSet(tags))
    BY <2>3, <2>4, FS_Surjection
  <2>6. ToSet(tags) \in SUBSET Tag
    BY <2>2 DEF ToSet
  <2> QED BY <2>5, <2>6 DEF tags
<1> DEFINE n == Len(articles)
           tagsOf == [i \in 1..n |-> ToSet(articles[i].tags)]
           carried == {tagsOf[i] : i \in 1..n}
<1>3. CarriedTags(articles) = UNION carried
  BY <1>1 DEF CarriedTags, ToSet
<1>4. \A set \in carried : set \in SUBSET Tag /\ IsFiniteSet(set)
  BY <1>2
<1>5. tagsOf \in Surjection(1..n, carried)
  BY DEF Surjection
<1>6. IsFiniteSet(1..n)
  BY <1>1, FS_Interval
<1> HIDE DEF tagsOf, n, carried
<1>7. IsFiniteSet(carried)
  BY <1>5, <1>6, FS_Surjection
<1>8. IsFiniteSet(UNION carried)
  BY <1>4, <1>7, FS_UNION
<1> QED BY <1>3, <1>4, <1>8

\* The list of tags of a payload has each tag once.
LEMMA BundleTagsAreCarried ==
    ASSUME NEW C \in SUBSET Tag, IsFiniteSet(C), \A x, y \in C : x.id = y.id => x = y
    PROVE  LET tags == BySlug(SetToSeq(C))
           IN  tags \in Seq(Tag) /\ ToSet(tags) = C /\ Len(tags) = Cardinality(C)
<1> DEFINE seq == SetToSeq(C)
           n == Cardinality(C)
<1>1. n \in Nat /\ \E f \in [1..n -> C] : IsInjective(f) /\ \A c \in C : \E i \in 1..n : f[i] = c
  BY FS_CardinalityType DEF ExistsBijection, Bijection, Injection, Surjection
<1>2. seq \in [1..n -> C] /\ IsInjective(seq)
  BY <1>1 DEF SetToSeq
<1>3. IsFiniteSet(1..n) /\ Cardinality(1..n) = n
  BY <1>1, FS_Interval
<1> HIDE DEF seq
<1>4. seq \in Injection(1..n, C)
  BY <1>2 DEF Injection
<1>5. seq \in Surjection(1..n, C)
  BY <1>3, <1>4, FS_Injection
<1> HIDE DEF n
<1>6. seq \in Seq(Tag) /\ Len(seq) = n /\ DOMAIN seq = 1..n
  BY <1>1, <1>2
<1>7. ToSet(seq) = C
  BY <1>2, <1>5 DEF Surjection, ToSet
<1>8. TagsAreDistinct(seq)
  BY <1>2, <1>6 DEF TagsAreDistinct, IsInjective
<1>9. BySlug(seq) \in Seq(Tag) /\ Len(BySlug(seq)) = Len(seq) /\ ToSet(BySlug(seq)) = ToSet(seq)
  BY <1>6, <1>8, TagsSort
<1> QED BY <1>6, <1>7, <1>9 DEF seq, n

\* What normalizeBundle makes of an assembled bundle: its articles, with their tags.
LEMMA TagsAreFoundAgain ==
    ASSUME NEW articles, IsSnapshot(articles), Assemblable(articles), NEW site, NEW checksum
    PROVE  NormalizeBundle([site     |-> site,
                            tags     |-> BySlug(SetToSeq(CarriedTags(articles))),
                            articles |-> [i \in DOMAIN articles |-> WithSlugs(articles[i])],
                            checksum |-> checksum])
           = PayloadOf(site, articles)
<1> DEFINE C == CarriedTags(articles)
           tags == BySlug(SetToSeq(C))
           short == [i \in DOMAIN articles |-> WithSlugs(articles[i])]
           bundle == [site |-> site, tags |-> tags, articles |-> short, checksum |-> checksum]
           slugs == {t.slug : t \in C}
           Named(slug) == CHOOSE t \in C : t.slug = slug
           used == UNION {ToSet(a.tags) : a \in ToSet(short)}
           prepared == [i \in DOMAIN short |-> [short[i] EXCEPT !.tags = [j \in DOMAIN @ |-> Named(@[j])]]]
<1>1. C \in SUBSET Tag /\ IsFiniteSet(C)
  BY CarriedTagsAreFinite
<1>2. \A x, y \in C : x.id = y.id \/ x.slug = y.slug => x = y
  BY DEF Assemblable
<1>3. tags \in Seq(Tag) /\ ToSet(tags) = C /\ Len(tags) = Cardinality(C)
  <2> HIDE DEF C
  <2> QED BY <1>1, <1>2, BundleTagsAreCarried
<1>4. /\ Len(articles) \in Nat /\ DOMAIN articles = 1..Len(articles)
      /\ \A i \in DOMAIN articles : articles[i] \in Article
  <2>1. articles \in Seq(Article)
    BY DEF IsSnapshot
  <2> QED BY <2>1
<1>5. \A i \in DOMAIN articles : \A j \in DOMAIN articles[i].tags : articles[i].tags[j] \in C
  BY DEF CarriedTags, ToSet
<1>6. Cardinality(slugs) = Cardinality(C)
  <2> HIDE DEF C
  <2> DEFINE slugOf == [t \in C |-> t.slug]
  <2>1. slugOf \in Bijection(C, slugs)
    BY <1>2 DEF Bijection, Injection, Surjection, IsInjective
  <2> HIDE DEF slugOf, slugs
  <2> QED BY <1>1, <2>1, FS_Bijection DEF ExistsBijection
<1>7. \A i \in DOMAIN articles : /\ short[i] = [articles[i] EXCEPT !.tags = [j \in DOMAIN @ |-> @[j].slug]]
                                 /\ short[i].tags = [j \in DOMAIN articles[i].tags |-> articles[i].tags[j].slug]
  BY <1>4 DEF WithSlugs, Article
<1>8. used = slugs
  <2> HIDE DEF short
  <2>0. DOMAIN short = DOMAIN articles
    BY DEF short
  <2>1. ASSUME NEW slug \in used PROVE slug \in slugs
    <3>1. PICK i \in DOMAIN articles : slug \in ToSet(short[i].tags)
      BY <2>0 DEF ToSet
    <3>2. PICK j \in DOMAIN short[i].tags : slug = short[i].tags[j]
      BY <3>1 DEF ToSet
    <3>3. j \in DOMAIN articles[i].tags /\ slug = articles[i].tags[j].slug
      BY <1>7, <3>2
    <3> QED BY <1>5, <3>3
  <2>2. ASSUME NEW t \in C PROVE t.slug \in used
    <3>1. PICK i \in DOMAIN articles : \E j \in DOMAIN articles[i].tags : t = articles[i].tags[j]
      BY DEF CarriedTags, ToSet
    <3>2. PICK j \in DOMAIN articles[i].tags : t = articles[i].tags[j]
      BY <3>1
    <3>3. j \in DOMAIN short[i].tags /\ short[i].tags[j] = t.slug
      BY <1>7, <3>2
    <3> QED BY <2>0, <3>3 DEF ToSet
  <2> HIDE DEF C, used
  <2> QED BY <2>1, <2>2
<1>9. \A t \in C : Named(t.slug) = t
  <2> HIDE DEF C
  <2> QED BY <1>2
<1>10. prepared = articles
  <2> HIDE DEF C, Named
  <2>1. ASSUME NEW i \in DOMAIN articles PROVE prepared[i] = articles[i]
    <3>1. articles[i] \in Article /\ articles[i].tags \in Seq(Tag)
      BY <1>4 DEF Article
    <3>2. prepared[i] = [short[i] EXCEPT !.tags = [j \in DOMAIN short[i].tags |-> Named(short[i].tags[j])]]
      OBVIOUS
    <3>3. [j \in DOMAIN short[i].tags |-> Named(short[i].tags[j])]
          = [j \in DOMAIN articles[i].tags |-> articles[i].tags[j]]
      <4> HIDE DEF short
      <4> QED BY <1>5, <1>7, <1>9
    <3>4. [j \in DOMAIN articles[i].tags |-> articles[i].tags[j]] = articles[i].tags
      BY <3>1
    <3>5. prepared[i] = [short[i] EXCEPT !.tags = articles[i].tags]
      BY <3>2, <3>3, <3>4
    <3> HIDE DEF prepared, short
    <3> QED BY <1>7, <3>1, <3>5 DEF Article
  <2>2. prepared = [i \in DOMAIN articles |-> prepared[i]]
    OBVIOUS
  <2>3. articles = [i \in DOMAIN articles |-> articles[i]]
    BY DEF IsSnapshot
  <2> HIDE DEF prepared
  <2> QED BY <2>1, <2>2, <2>3
<1>11. NormalizeBundle(bundle) = IF Cardinality(slugs) = Len(tags) /\ used = slugs
                                 THEN PayloadOf(site, prepared) ELSE Refused
  <2>1. bundle.site = site /\ bundle.tags = tags /\ bundle.articles = short
    OBVIOUS
  <2> HIDE DEF C, tags, short, bundle
  <2>2. NormalizeBundle(bundle) =
          IF Cardinality({t.slug : t \in ToSet(tags)}) = Len(tags)
             /\ UNION {ToSet(a.tags) : a \in ToSet(short)} = {t.slug : t \in ToSet(tags)}
          THEN PayloadOf(site,
                 [i \in DOMAIN short |->
                    [short[i] EXCEPT !.tags = [j \in DOMAIN @ |-> CHOOSE t \in ToSet(tags) : t.slug = @[j]]]])
          ELSE Refused
    BY <2>1 DEF NormalizeBundle
  <2> QED BY <1>3, <2>2
<1> HIDE DEF slugs, used, prepared, tags, bundle
<1>12. NormalizeBundle(bundle) = PayloadOf(site, articles)
  BY <1>3, <1>6, <1>8, <1>10, <1>11
<1> QED BY <1>12 DEF bundle, tags, short, C

-----------------------------------------------------------------------------

\* What is true of a stored release.
RowIsSound(row) ==
    /\ IsSnapshot(row.articles)
    /\ \A i \in DOMAIN row.articles : ValidArticleSnapshot(row.articles[i])
    /\ row.checksum = PayloadOf(row.site, row.articles) /\ row.checksum # Refused

RowsAreSound ==
    /\ newestRow # NoRow => RowIsSound(newestRow)
    /\ currentRow # NoRow => RowIsSound(currentRow)

LEMMA FrozenIsAnArticle ==
    ASSUME NEW a \in BundleArticle, NEW revision \in BundleRevision, NEW at \in PublishTime,
           NEW title \in BundleTitle, NEW tags \in DraftTagLists
    PROVE  LET frozen == FreezeForRelease(a, revision, at, title, tags)
           IN  frozen \in Article /\ frozen.revision = revision /\ TagsAreDistinct(frozen.tags)
<1> DEFINE draft == [id |-> a, revision |-> revision, publishedAt |-> at, title |-> title, tags |-> tags]
<1>1. TagSnapshot \subseteq Tag
  BY BundleAssumption DEF TagSnapshot, Tag
<1>2. PICK n \in 0..MaxArticleTags : tags \in [1..n -> TagSnapshot]
  BY DEF DraftTagLists
<1>3. n \in Nat
  BY BundleAssumption
<1>4. tags \in Seq(Tag)
  <2>1. tags \in [1..n -> Tag]
    BY <1>1, <1>2
  <2> QED BY <1>3, <2>1
<1>5. TagsAreDistinct(tags)
  BY DEF DraftTagLists, TagsAreDistinct
<1>6. draft \in Article /\ draft.tags = tags /\ draft.revision = revision
  BY <1>4, BundleAssumption DEF Article
<1>7. FreezeForRelease(a, revision, at, title, tags) = InOrder(draft)
  BY DEF FreezeForRelease
<1> HIDE DEF draft
<1> QED BY <1>5, <1>6, <1>7, ArticleInOrder

\* The article that is published has a revision of its own.
LEMMA StoredArticle ==
    ASSUME NEW a \in BundleArticle, NEW at \in PublishTime, NEW title \in BundleTitle,
           NEW tags \in DraftTagLists, StoreArticle(a, at, title, tags)
    PROVE  \E site \in BaseSites, article \in Article :
               /\ StoreRelease(site, WithFrozen(article)) /\ TagsAreDistinct(article.tags)
               /\ article.revision \in UnusedRevisions
<1> DEFINE revision == CHOOSE r \in UnusedRevisions : TRUE
           frozen == FreezeForRelease(a, revision, at, title, tags)
<1>1. revision \in UnusedRevisions /\ revision \in BundleRevision
  BY DEF StoreArticle, UnusedRevisions
<1>2. PICK site \in BaseSites : StoreRelease(site, WithFrozen(frozen))
  BY DEF StoreArticle
<1> HIDE DEF revision
<1>3. frozen \in Article /\ frozen.revision = revision /\ TagsAreDistinct(frozen.tags)
  BY <1>1, FrozenIsAnArticle
<1> HIDE DEF frozen
<1> QED BY <1>1, <1>2, <1>3

LEMMA BaseIsASnapshot ==
    ASSUME RowsAreSound
    PROVE  IsSnapshot(BaseArticles)
<1>1. CASE currentRow = NoRow
  BY <1>1 DEF BaseArticles, IsSnapshot
<1>2. CASE currentRow # NoRow
  BY <1>2 DEF BaseArticles, RowsAreSound, RowIsSound
<1> QED BY <1>1, <1>2

\* An article that is published again replaces itself.
LEMMA FrozenTakesItsPlace ==
    ASSUME IsSnapshot(BaseArticles), NEW article \in Article, TagsAreDistinct(article.tags)
    PROVE  IsSnapshot(WithFrozen(article))
<1> DEFINE base == BaseArticles
           next == WithFrozen(article)
           replaced == [i \in DOMAIN base |-> IF base[i].id = article.id THEN article ELSE base[i]]
<1>1. base \in Seq(Article) /\ Len(base) \in Nat /\ DOMAIN base = 1..Len(base)
  BY DEF IsSnapshot
<1>2. \A i \in DOMAIN base : base[i] \in Article /\ TagsAreDistinct(base[i].tags)
  BY <1>1 DEF IsSnapshot
<1>3. \A i, j \in DOMAIN base : i # j => base[i].id # base[j].id
  BY DEF IsSnapshot
<1>4. CASE \E i \in DOMAIN base : base[i].id = article.id
  <2>1. next = replaced
    BY <1>4 DEF WithFrozen
  <2>2. \A i \in DOMAIN base : replaced[i] \in {article, base[i]} /\ replaced[i].id = base[i].id
    OBVIOUS
  <2>3. \A i \in DOMAIN base : replaced[i] \in Article /\ TagsAreDistinct(replaced[i].tags)
    BY <1>2
  <2>4. replaced \in Seq(Article) /\ DOMAIN replaced = DOMAIN base
    <3>1. replaced \in [1..Len(base) -> Article]
      BY <1>1, <1>2
    <3> HIDE DEF base
    <3> QED BY <1>1, <3>1
  <2> HIDE DEF base, replaced
  <2>5. IsSnapshot(replaced)
    BY <1>3, <2>2, <2>3, <2>4 DEF IsSnapshot
  <2> QED BY <2>1, <2>5
<1>5. CASE \A i \in DOMAIN base : base[i].id # article.id
  <2>1. next = Append(base, article)
    BY <1>5 DEF WithFrozen
  <2> HIDE DEF base, next
  <2>2. /\ next \in Seq(Article) /\ DOMAIN next = 1 .. Len(base) + 1
        /\ \A i \in 1..Len(base) : next[i] = base[i]
        /\ next[Len(base) + 1] = article
    BY <1>1, <2>1
  <2>3. \A i \in DOMAIN next : i \in DOMAIN base \/ i = Len(base) + 1
    BY <1>1, <2>2
  <2>4. \A i \in DOMAIN next : TagsAreDistinct(next[i].tags)
    BY <1>1, <1>2, <2>2, <2>3
  <2>5. \A i, j \in DOMAIN next : i # j => next[i].id # next[j].id
    BY <1>1, <1>3, <1>5, <2>2, <2>3
  <2>6. IsSnapshot(next)
    BY <2>2, <2>4, <2>5 DEF IsSnapshot
  <2> QED BY <2>6 DEF next
<1> QED BY <1>4, <1>5

LEMMA RemovedLeavesASnapshot ==
    ASSUME NEW articles, IsSnapshot(articles), NEW i \in DOMAIN articles
    PROVE  IsSnapshot(RemoveAt(articles, i)) /\ ToSet(RemoveAt(articles, i)) \subseteq ToSet(articles)
<1> DEFINE left == RemoveAt(articles, i)
           Old(j) == IF j < i THEN j ELSE j + 1
<1>1. articles \in Seq(Article) /\ Len(articles) \in Nat /\ DOMAIN articles = 1..Len(articles)
  BY DEF IsSnapshot
<1>2. /\ left \in Seq(Article) /\ Len(left) = Len(articles) - 1
      /\ \A j \in 1 .. Len(articles) - 1 : left[j] = articles[Old(j)]
  <2> DEFINE before == SubSeq(articles, 1, i - 1)
             after == SubSeq(articles, i + 1, Len(articles))
  <2>1. i \in Int /\ 1 <= i /\ i <= Len(articles)
    BY <1>1
  <2>2. /\ before \in Seq(Article) /\ Len(before) = i - 1
        /\ \A j \in 1 .. i - 1 : before[j] = articles[j]
    BY <1>1, <2>1
  <2>3. /\ after \in Seq(Article) /\ Len(after) = Len(articles) - i
        /\ \A j \in 1 .. Len(articles) - i : after[j] = articles[j + i]
    BY <1>1, <2>1
  <2>4. left = before \o after
    BY DEF RemoveAt
  <2> HIDE DEF before, after, left
  <2>5. left \in Seq(Article) /\ Len(left) = Len(articles) - 1
    <3>1. left \in Seq(Article) /\ Len(left) = Len(before) + Len(after)
      BY <2>2, <2>3, <2>4
    <3>2. (i - 1) + (Len(articles) - i) = Len(articles) - 1
      BY <1>1, <2>1
    <3> QED BY <2>2, <2>3, <3>1, <3>2
  <2>6. ASSUME NEW j \in 1 .. Len(articles) - 1 PROVE left[j] = articles[Old(j)]
    <3>1. CASE j < i
      <4>1. j \in 1..Len(before) /\ left[j] = before[j]
        BY <1>1, <2>1, <2>2, <2>3, <2>4, <3>1
      <4> QED BY <2>2, <3>1, <4>1
    <3>2. CASE i <= j
      <4>1. j - Len(before) \in 1 .. Len(articles) - i /\ left[j] = after[j - Len(before)]
        BY <1>1, <2>1, <2>2, <2>3, <2>4, <3>2
      <4>2. (j - Len(before)) + i = j + 1
        BY <1>1, <2>1, <2>2
      <4>3. left[j] = articles[j + 1]
        BY <2>3, <4>1, <4>2
      <4> QED BY <1>1, <2>1, <3>2, <4>3
    <3> QED BY <1>1, <2>1, <3>1, <3>2
  <2> QED BY <2>5, <2>6
<1> HIDE DEF left
<1>3. DOMAIN left = 1 .. Len(articles) - 1
  BY <1>1, <1>2
<1>4. /\ \A j \in DOMAIN left : Old(j) \in DOMAIN articles /\ left[j] = articles[Old(j)]
      /\ \A j, k \in DOMAIN left : j # k => Old(j) # Old(k)
  BY <1>1, <1>2, <1>3
<1> HIDE DEF Old
<1>5. ToSet(left) \subseteq ToSet(articles)
  BY <1>4 DEF ToSet
<1> QED BY <1>2, <1>4, <1>5 DEF IsSnapshot, left

\* The checksum, taken before the rows are written, is that of the rows.
LEMMA StoredIsSound ==
    ASSUME NEW site, NEW prepared, IsSnapshot(prepared), StoreRelease(site, prepared), RowsAreSound
    PROVE  RowsAreSound'
<1> DEFINE payload == PayloadOf(site, prepared)
           row == StoredRow(site, prepared, payload)
<1>1. payload # Refused /\ newestRow' = row /\ currentRow' \in {currentRow, row}
  BY DEF StoreRelease
<1>2. row.site = site /\ row.articles = ById(prepared) /\ row.checksum = payload
  BY DEF StoredRow, ChecksumForPayload
<1>3. \A i \in DOMAIN prepared : ValidArticleSnapshot(prepared[i])
  BY DEF StoreRelease
<1> HIDE DEF payload, row
<1>4. IsSnapshot(row.articles) /\ ToSet(row.articles) = ToSet(prepared)
  BY <1>2, RowsAreASnapshot
<1>5. \A i \in DOMAIN row.articles : ValidArticleSnapshot(row.articles[i])
  BY <1>3, <1>4 DEF ToSet
<1>6. Contents(row.articles) = Contents(prepared)
  BY <1>4 DEF Contents
<1>7. PayloadOf(site, row.articles) = payload
  BY <1>4, <1>6, PayloadIsOfTheContents DEF payload
<1>8. RowIsSound(row)
  BY <1>1, <1>2, <1>4, <1>5, <1>7 DEF RowIsSound
<1> QED BY <1>1, <1>8 DEF RowsAreSound

LEMMA RowsStaySound == BundleSpec => []RowsAreSound
<1>1. BundleInit => RowsAreSound
  BY DEF BundleInit, RowsAreSound
<1>2. ASSUME RowsAreSound, [BundleNext]_bundleVars PROVE RowsAreSound'
  <2>6. IsSnapshot(BaseArticles)
    BY <1>2, BaseIsASnapshot
  <2>1. CASE StoreSettings
    BY <1>2, <2>6, <2>1, StoredIsSound DEF StoreSettings
  <2>2. CASE RetryNewest
    BY <1>2, <2>2 DEF RetryNewest, RowsAreSound, RowIsSound
  <2>3. ASSUME NEW a \in BundleArticle, StoreWithout(a) PROVE RowsAreSound'
    <3>1. PICK i \in DOMAIN BaseArticles : StoreRelease(currentRow.site, RemoveAt(BaseArticles, i))
      BY <2>3 DEF StoreWithout
    <3>2. IsSnapshot(RemoveAt(BaseArticles, i))
      BY <2>6, RemovedLeavesASnapshot
    <3> QED BY <1>2, <3>1, <3>2, StoredIsSound
  <2>4. ASSUME NEW a \in BundleArticle, NEW at \in PublishTime, NEW title \in BundleTitle,
               NEW tags \in DraftTagLists, StoreArticle(a, at, title, tags)
        PROVE  RowsAreSound'
    <3>1. PICK site \in BaseSites, article \in Article :
             /\ StoreRelease(site, WithFrozen(article)) /\ TagsAreDistinct(article.tags)
             /\ article.revision \in UnusedRevisions
      BY <2>4, StoredArticle
    <3>2. IsSnapshot(WithFrozen(article))
      BY <2>6, <3>1, FrozenTakesItsPlace
    <3> QED BY <1>2, <3>1, <3>2, StoredIsSound
  <2>5. CASE UNCHANGED bundleVars
    BY <1>2, <2>5 DEF bundleVars, RowsAreSound, RowIsSound
  <2> QED BY <1>2, <2>1, <2>2, <2>3, <2>4, <2>5 DEF BundleNext
<1> QED BY <1>1, <1>2, PTL DEF BundleSpec

LEMMA SoundRowsVerify ==
    ASSUME NEW row, RowIsSound(row)
    PROVE  EncodeCanonicalBundle(row) # Refused
<1> DEFINE articles == Ordered(row.articles)
<1>1. IsSnapshot(row.articles) /\ row.checksum = PayloadOf(row.site, row.articles) /\ row.checksum # Refused
  BY DEF RowIsSound
<1>2. IsSnapshot(articles) /\ Contents(articles) = Contents(row.articles)
  BY <1>1, OrderedIsASnapshot
<1>3. Assemblable(articles)
  BY <1>1 DEF PayloadOf, Ordered, TagsInOrder
<1>4. AssembleStoredBundle(row) = [site     |-> row.site,
                                   tags     |-> BySlug(SetToSeq(CarriedTags(articles))),
                                   articles |-> [i \in DOMAIN articles |-> WithSlugs(articles[i])],
                                   checksum |-> row.checksum]
  BY DEF AssembleStoredBundle, LoadReleaseArticles, Ordered, TagsInOrder
<1> HIDE DEF articles
<1>5. NormalizeBundle(AssembleStoredBundle(row)) = PayloadOf(row.site, articles)
  BY <1>2, <1>3, <1>4, TagsAreFoundAgain
<1>6. PayloadOf(row.site, articles) = row.checksum
  BY <1>1, <1>2, PayloadIsOfTheContents
<1>7. AssembleStoredBundle(row).site = row.site /\ AssembleStoredBundle(row).checksum = row.checksum
  BY <1>4
<1>8. \A i \in DOMAIN LoadReleaseArticles(row) : ValidArticleSnapshot(LoadReleaseArticles(row)[i])
  BY DEF RowIsSound, LoadReleaseArticles
<1> QED BY <1>1, <1>5, <1>6, <1>7, <1>8 DEF EncodeCanonicalBundle, ChecksumForPayload

\* release/bundle.go, service.go Bundle: the bundle of a stored release, read back in the
\* order of the table, is never refused, and its checksum is the stored one.
THEOREM ReleasesCanBeBuilt == BundleSpec => []BundleVerifies
<1>1. RowsAreSound => BundleVerifies
  BY SoundRowsVerify DEF RowsAreSound, BundleVerifies, StoredRows
<1> QED BY <1>1, RowsStaySound, PTL

\* The payload gives back the articles, for a slug names one tag of the list.
LEMMA PayloadTellsTheArticles ==
    ASSUME NEW p, IsSnapshot(p), Assemblable(p), NEW q, IsSnapshot(q), Assemblable(q),
           BySlug(SetToSeq(CarriedTags(p))) = BySlug(SetToSeq(CarriedTags(q))),
           [i \in DOMAIN p |-> WithSlugs(p[i])] = [i \in DOMAIN q |-> WithSlugs(q[i])]
    PROVE  p = q
<1> DEFINE C == CarriedTags(p)
           D == CarriedTags(q)
<1>1. C \in SUBSET Tag /\ IsFiniteSet(C) /\ D \in SUBSET Tag /\ IsFiniteSet(D)
  BY CarriedTagsAreFinite
<1>2. /\ \A x, y \in C : x.id = y.id \/ x.slug = y.slug => x = y
      /\ \A x, y \in D : x.id = y.id \/ x.slug = y.slug => x = y
  BY DEF Assemblable
<1>3. C = D
  <2> DEFINE c == BySlug(SetToSeq(C))
             d == BySlug(SetToSeq(D))
  <2>1. c = d
    OBVIOUS
  <2> HIDE DEF C, D
  <2>2. ToSet(c) = C /\ ToSet(d) = D
    BY <1>1, <1>2, BundleTagsAreCarried
  <2> QED BY <2>1, <2>2
<1>4. DOMAIN p = DOMAIN q
  OBVIOUS
<1>5. /\ \A i \in DOMAIN p : \A j \in DOMAIN p[i].tags : p[i].tags[j] \in C
      /\ \A i \in DOMAIN q : \A j \in DOMAIN q[i].tags : q[i].tags[j] \in D
  BY DEF CarriedTags, ToSet
<1>6. \A i \in DOMAIN p : WithSlugs(p[i]) = WithSlugs(q[i])
  BY <1>4
<1>7. \A i \in DOMAIN p : p[i] \in Article /\ q[i] \in Article
  <2>1. p \in Seq(Article) /\ q \in Seq(Article)
    BY DEF IsSnapshot
  <2> QED BY <1>4, <2>1
<1> HIDE DEF C, D
<1>8. ASSUME NEW i \in DOMAIN p PROVE p[i] = q[i]
  <2> DEFINE a == p[i]
             b == q[i]
  <2>1. a \in Article /\ b \in Article /\ WithSlugs(a) = WithSlugs(b)
    BY <1>6, <1>7
  <2>2. /\ \A j \in DOMAIN a.tags : a.tags[j] \in C
        /\ \A j \in DOMAIN b.tags : b.tags[j] \in C
    BY <1>3, <1>4, <1>5
  <2> HIDE DEF a, b
  <2>3. /\ a.id = b.id /\ a.revision = b.revision /\ a.publishedAt = b.publishedAt /\ a.title = b.title
        /\ [j \in DOMAIN a.tags |-> a.tags[j].slug] = [j \in DOMAIN b.tags |-> b.tags[j].slug]
    BY <2>1 DEF WithSlugs, Article
  <2>4. DOMAIN a.tags = DOMAIN b.tags /\ \A j \in DOMAIN a.tags : a.tags[j].slug = b.tags[j].slug
    BY <2>3
  <2>5. \A j \in DOMAIN a.tags : a.tags[j] = b.tags[j]
    BY <1>2, <2>2, <2>4
  <2>6. a.tags = b.tags
    <3>1. a.tags \in Seq(Tag) /\ b.tags \in Seq(Tag)
      BY <2>1 DEF Article
    <3> QED BY <2>4, <2>5, <3>1
  <2>7. a = b
    BY <2>1, <2>3, <2>6 DEF Article
  <2> QED BY <2>7 DEF a, b
<1>9. p \in Seq(Article) /\ q \in Seq(Article)
  BY DEF IsSnapshot
<1> QED BY <1>4, <1>8, <1>9

LEMMA ChecksumIsOfTheContents ==
    ASSUME NEW r, RowIsSound(r), NEW s, RowIsSound(s)
    PROVE  r.checksum = s.checksum <=> r.site = s.site /\ Contents(r.articles) = Contents(s.articles)
<1> DEFINE p == Ordered(r.articles)
           q == Ordered(s.articles)
<1>1. /\ IsSnapshot(r.articles) /\ r.checksum = PayloadOf(r.site, r.articles) /\ r.checksum # Refused
      /\ IsSnapshot(s.articles) /\ s.checksum = PayloadOf(s.site, s.articles) /\ s.checksum # Refused
  BY DEF RowIsSound
<1>2. ASSUME r.site = s.site, Contents(r.articles) = Contents(s.articles) PROVE r.checksum = s.checksum
  BY <1>1, <1>2, PayloadIsOfTheContents
<1>3. ASSUME r.checksum = s.checksum PROVE r.site = s.site /\ Contents(r.articles) = Contents(s.articles)
  <2>1. /\ IsSnapshot(p) /\ Contents(p) = Contents(r.articles)
        /\ IsSnapshot(q) /\ Contents(q) = Contents(s.articles)
    BY <1>1, OrderedIsASnapshot
  <2>2. /\ r.checksum = PayloadInOrder(r.site, p) /\ s.checksum = PayloadInOrder(s.site, q)
    BY <1>1 DEF PayloadOf, PayloadInOrder, Ordered
  <2> HIDE DEF p, q
  <2>3. Assemblable(p) /\ Assemblable(q)
    BY <1>1, <2>2 DEF PayloadInOrder
  <2>4. /\ r.checksum = [site |-> r.site, tags |-> BySlug(SetToSeq(CarriedTags(p))),
                         articles |-> [i \in DOMAIN p |-> WithSlugs(p[i])]]
        /\ s.checksum = [site |-> s.site, tags |-> BySlug(SetToSeq(CarriedTags(q))),
                         articles |-> [i \in DOMAIN q |-> WithSlugs(q[i])]]
    BY <2>2, <2>3 DEF PayloadInOrder
  <2>5. /\ r.site = s.site /\ BySlug(SetToSeq(CarriedTags(p))) = BySlug(SetToSeq(CarriedTags(q)))
        /\ [i \in DOMAIN p |-> WithSlugs(p[i])] = [i \in DOMAIN q |-> WithSlugs(q[i])]
    <3> DEFINE tp == BySlug(SetToSeq(CarriedTags(p)))
               tq == BySlug(SetToSeq(CarriedTags(q)))
               ap == [i \in DOMAIN p |-> WithSlugs(p[i])]
               aq == [i \in DOMAIN q |-> WithSlugs(q[i])]
    <3>1. [site |-> r.site, tags |-> tp, articles |-> ap] = [site |-> s.site, tags |-> tq, articles |-> aq]
      BY <1>3, <2>4
    <3> HIDE DEF tp, tq, ap, aq
    <3>2. r.site = s.site /\ tp = tq /\ ap = aq
      BY <3>1
    <3> QED BY <3>2 DEF tp, tq, ap, aq
  <2>6. p = q
    BY <2>1, <2>3, <2>5, PayloadTellsTheArticles
  <2> QED BY <2>1, <2>5, <2>6
<1> QED BY <1>2, <1>3

-----------------------------------------------------------------------------

\* The articles of the stored releases: a revision is that of one of them.
Published == UNION {ToSet(row.articles) : row \in StoredRows}

RevisionsAreFresh == \A a, b \in Published : a.revision = b.revision => a = b

LEMMA UnusedIsNotPublished ==
    ASSUME NEW a \in Published
    PROVE  a.revision \notin UnusedRevisions
BY DEF Published, UnusedRevisions, RevisionsOf

LEMMA BaseIsPublished == ToSet(BaseArticles) \subseteq Published
<1>1. CASE currentRow = NoRow
  BY <1>1 DEF BaseArticles, ToSet
<1>2. CASE currentRow # NoRow
  BY <1>2 DEF BaseArticles, Published, StoredRows
<1> QED BY <1>1, <1>2

\* What is stored is what was published before and what is added.
LEMMA StoringKeepsFresh ==
    ASSUME NEW site, NEW prepared, IsSnapshot(prepared), StoreRelease(site, prepared),
           NEW new, ToSet(prepared) \subseteq Published \cup new,
           \A a \in new : a.revision \in UnusedRevisions,
           \A a, b \in new : a = b,
           RevisionsAreFresh
    PROVE  RevisionsAreFresh'
<1>1. PICK row : /\ newestRow' = row /\ currentRow' \in {currentRow, row}
                 /\ row.articles = ById(prepared)
  BY DEF StoreRelease, StoredRow
<1>2. ToSet(row.articles) = ToSet(prepared)
  BY <1>1, RowsAreASnapshot
<1>3. Published' \subseteq Published \cup new
  <2> SUFFICES ASSUME NEW a \in Published' PROVE a \in Published \cup new
    OBVIOUS
  <2>1. PICK stored \in StoredRows' : a \in ToSet(stored.articles)
    BY DEF Published
  <2>2. stored = row \/ (stored = currentRow /\ stored # NoRow)
    BY <1>1, <2>1 DEF StoredRows
  <2>3. CASE stored = row
    BY <1>2, <2>1, <2>3
  <2>4. CASE stored = currentRow /\ stored # NoRow
    BY <2>1, <2>4 DEF Published, StoredRows
  <2> QED BY <2>2, <2>3, <2>4
<1>4. ASSUME NEW a \in Published', NEW b \in Published', a.revision = b.revision PROVE a = b
  <2>1. CASE a \in Published /\ b \in Published
    BY <1>4, <2>1 DEF RevisionsAreFresh
  <2>2. CASE a \in new /\ b \in new
    BY <2>2
  <2>3. CASE a \in new /\ b \in Published
    BY <1>4, <2>3, UnusedIsNotPublished
  <2>4. CASE a \in Published /\ b \in new
    BY <1>4, <2>4, UnusedIsNotPublished
  <2> QED BY <1>3, <2>1, <2>2, <2>3, <2>4
<1> QED BY <1>4 DEF RevisionsAreFresh

LEMMA FrozenIsAdded ==
    ASSUME IsSnapshot(BaseArticles), NEW article
    PROVE  ToSet(WithFrozen(article)) \subseteq ToSet(BaseArticles) \cup {article}
<1> DEFINE base == BaseArticles
           next == WithFrozen(article)
<1>1. base \in Seq(Article) /\ Len(base) \in Nat /\ DOMAIN base = 1..Len(base)
  BY DEF IsSnapshot
<1>2. CASE \E i \in DOMAIN base : base[i].id = article.id
  <2>1. next = [i \in DOMAIN base |-> IF base[i].id = article.id THEN article ELSE base[i]]
    BY <1>2 DEF WithFrozen
  <2> HIDE DEF base, next
  <2>2. \A i \in DOMAIN next : next[i] = article \/ (i \in DOMAIN base /\ next[i] = base[i])
    BY <2>1
  <2> QED BY <2>2 DEF ToSet, base, next
<1>3. CASE \A i \in DOMAIN base : base[i].id # article.id
  <2>1. next = Append(base, article)
    BY <1>3 DEF WithFrozen
  <2> HIDE DEF base, next
  <2>2. DOMAIN next = 1 .. Len(base) + 1
    BY <1>1, <2>1
  <2>3. \A i \in DOMAIN next : next[i] = article \/ (i \in DOMAIN base /\ next[i] = base[i])
    BY <1>1, <2>1, <2>2
  <2> QED BY <2>3 DEF ToSet, base, next
<1> QED BY <1>2, <1>3

\* An article shows its revision.
LEMMA RevisionsAreShown ==
    ASSUME NEW row, IsSnapshot(row.articles)
    PROVE  RevisionsOf(row) = {c.revision : c \in Contents(row.articles)}
<1>1. \A a \in ToSet(row.articles) : a \in Article
  BY DEF IsSnapshot, ToSet
<1>2. \A a \in ToSet(row.articles) : Content(a).revision = a.revision
  BY <1>1 DEF Content, Article
<1> QED BY <1>2 DEF RevisionsOf, Contents

LEMMA StoringOldKeepsFresh ==
    ASSUME NEW site, NEW prepared, IsSnapshot(prepared), StoreRelease(site, prepared),
           ToSet(prepared) \subseteq ToSet(BaseArticles), RevisionsAreFresh
    PROVE  RevisionsAreFresh'
<1> DEFINE new == {}
<1>1. /\ \A a \in new : a.revision \in UnusedRevisions
      /\ \A a, b \in new : a = b
  OBVIOUS
<1>2. ToSet(prepared) \subseteq Published \cup new
  BY BaseIsPublished
<1> HIDE DEF new
<1> QED BY <1>1, <1>2, StoringKeepsFresh

LEMMA StoringNewKeepsFresh ==
    ASSUME NEW site, NEW prepared, IsSnapshot(prepared), StoreRelease(site, prepared),
           NEW article, article.revision \in UnusedRevisions,
           ToSet(prepared) \subseteq ToSet(BaseArticles) \cup {article}, RevisionsAreFresh
    PROVE  RevisionsAreFresh'
<1> DEFINE new == {article}
<1>1. /\ \A a \in new : a.revision \in UnusedRevisions
      /\ \A a, b \in new : a = b
  OBVIOUS
<1>2. ToSet(prepared) \subseteq Published \cup new
  BY BaseIsPublished
<1> HIDE DEF new
<1> QED BY <1>1, <1>2, StoringKeepsFresh

LEMMA RevisionsStayFresh == BundleSpec => []RevisionsAreFresh
<1>1. BundleInit => RevisionsAreFresh
  BY DEF BundleInit, RevisionsAreFresh, Published, StoredRows
<1>2. ASSUME RowsAreSound, RevisionsAreFresh, [BundleNext]_bundleVars PROVE RevisionsAreFresh'
  <2>1. IsSnapshot(BaseArticles)
    BY <1>2, BaseIsASnapshot
  <2>2. CASE StoreSettings
    BY <1>2, <2>1, <2>2, StoringOldKeepsFresh DEF StoreSettings
  <2>3. CASE RetryNewest
    <3>1. Published' \subseteq Published
      BY <2>3 DEF RetryNewest, Published, StoredRows
    <3> QED BY <1>2, <3>1 DEF RevisionsAreFresh
  <2>4. ASSUME NEW a \in BundleArticle, StoreWithout(a) PROVE RevisionsAreFresh'
    <3>1. PICK i \in DOMAIN BaseArticles : StoreRelease(currentRow.site, RemoveAt(BaseArticles, i))
      BY <2>4 DEF StoreWithout
    <3>2. IsSnapshot(RemoveAt(BaseArticles, i)) /\ ToSet(RemoveAt(BaseArticles, i)) \subseteq ToSet(BaseArticles)
      BY <2>1, RemovedLeavesASnapshot
    <3> QED BY <1>2, <3>1, <3>2, StoringOldKeepsFresh
  <2>5. ASSUME NEW a \in BundleArticle, NEW at \in PublishTime, NEW title \in BundleTitle,
               NEW tags \in DraftTagLists, StoreArticle(a, at, title, tags)
        PROVE  RevisionsAreFresh'
    <3>1. PICK site \in BaseSites, article \in Article :
             /\ StoreRelease(site, WithFrozen(article)) /\ TagsAreDistinct(article.tags)
             /\ article.revision \in UnusedRevisions
      BY <2>5, StoredArticle
    <3>2. IsSnapshot(WithFrozen(article))
      BY <2>1, <3>1, FrozenTakesItsPlace
    <3>3. ToSet(WithFrozen(article)) \subseteq ToSet(BaseArticles) \cup {article}
      BY <2>1, <3>1, FrozenIsAdded
    <3> QED BY <1>2, <3>1, <3>2, <3>3, StoringNewKeepsFresh
  <2>6. CASE UNCHANGED bundleVars
    BY <1>2, <2>6 DEF bundleVars, RevisionsAreFresh, Published, StoredRows
  <2> QED BY <1>2, <2>2, <2>3, <2>4, <2>5, <2>6 DEF BundleNext
<1> QED BY <1>1, <1>2, RowsStaySound, PTL DEF BundleSpec

\* release/bundle.go preparedSnapshotChecksum, snapshot_mysql.go freezeArticle: two stored
\* releases have the same checksum if and only if they have the same site and carry the
\* same revisions.
THEOREM ChecksumTellsReleasesApart == BundleSpec => []RevisionsFixChecksum
<1>1. ASSUME RowsAreSound, RevisionsAreFresh, NEW r \in StoredRows, NEW s \in StoredRows
      PROVE  r.checksum = s.checksum <=> r.site = s.site /\ RevisionsOf(r) = RevisionsOf(s)
  <2>1. RowIsSound(r) /\ RowIsSound(s)
    BY <1>1 DEF RowsAreSound, StoredRows
  <2>2. r.checksum = s.checksum <=> r.site = s.site /\ Contents(r.articles) = Contents(s.articles)
    BY <2>1, ChecksumIsOfTheContents
  <2>3. RevisionsOf(r) = RevisionsOf(s) => Contents(r.articles) = Contents(s.articles)
    <3>1. ToSet(r.articles) \subseteq Published /\ ToSet(s.articles) \subseteq Published
      BY DEF Published
    <3>2. RevisionsOf(r) = RevisionsOf(s) => ToSet(r.articles) = ToSet(s.articles)
      BY <1>1, <3>1 DEF RevisionsOf, RevisionsAreFresh
    <3> QED BY <3>2 DEF Contents
  <2>4. Contents(r.articles) = Contents(s.articles) => RevisionsOf(r) = RevisionsOf(s)
    <3>1. /\ RevisionsOf(r) = {c.revision : c \in Contents(r.articles)}
          /\ RevisionsOf(s) = {c.revision : c \in Contents(s.articles)}
      BY <2>1, RevisionsAreShown DEF RowIsSound
    <3> QED BY <3>1
  <2> QED BY <2>2, <2>3, <2>4
<1>2. RowsAreSound /\ RevisionsAreFresh => RevisionsFixChecksum
  BY <1>1 DEF RevisionsFixChecksum
<1> QED BY <1>2, RowsStaySound, RevisionsStayFresh, PTL
=============================================================================
