--------------------------- MODULE SettingsProofs ---------------------------
(***************************************************************************)
(* Proofs about what is configured: BuilderConfig, whose saves lock the    *)
(* row; SiteForm, whose saves send the version they have seen; the hotlink *)
(* policy and its cache.  For any number of saves, pages, contents,        *)
(* requests and policies.                                                  *)
(*                                                                         *)
(* BuilderConfig: a save under way knows the row as it is, because it      *)
(* holds its lock, or has found no row (SavesKnowTheRow); what a job has   *)
(* written of its target is what was prepared (TargetIsAsPrepared).        *)
(*                                                                         *)
(* SiteForm: whatever the page holds or has sent names a lock version      *)
(* together with what the row held at it (Seen, Based), and rows are only  *)
(* added, so a save that finds its version replaces what its page had      *)
(* seen.                                                                   *)
(*                                                                         *)
(* HotlinkCache: a load is good while no Put has returned since it began,  *)
(* that is while its generation is the present one.  Such a load is the    *)
(* registered flight (LeaderIsRegistered), so there is one of them, and    *)
(* what it has read is no older than the last acknowledged policy          *)
(* (GoodLoads).                                                            *)
(***************************************************************************)
EXTENDS BuilderConfig, SiteForm, HotlinkCache, TLAPS

SavesKnowTheRow ==
    \A s \in BuilderSave :
        builderSaves[s] # NoConfig /\ builderSaves[s].found # NoConfig =>
            rowHolder = s /\ builderSaves[s].found = builderRow

ConfigInv ==
    /\ DOMAIN builderSaves = BuilderSave
    /\ SavesKnowTheRow
    /\ TokenIsNewest

-----------------------------------------------------------------------------

LEMMA ConfigInit == BuilderInit => ConfigInv
BY DEF BuilderInit, ConfigInv, SavesKnowTheRow, TokenIsNewest

\* The lock of a row that is there is given to one save.
LEMMA BeginKeepsInv ==
    ASSUME ConfigInv, NEW s \in BuilderSave, NEW fields, NEW token,
           BeginBuilderSave(s, fields, token)
    PROVE  ConfigInv'
<1> USE DEF BeginBuilderSave, ConfigInv
<1>1. TokenIsNewest' /\ DOMAIN builderSaves' = BuilderSave
  BY DEF TokenIsNewest
<1>2. SavesKnowTheRow'
  <2> SUFFICES ASSUME NEW q \in BuilderSave,
                      builderSaves'[q] # NoConfig, builderSaves'[q].found # NoConfig
               PROVE  rowHolder' = q /\ builderSaves'[q].found = builderRow'
    BY DEF SavesKnowTheRow
  <2>1. CASE q = s
    <3>1. builderSaves'[q].found = builderRow
      BY <2>1
    <3> QED BY <2>1, <3>1
  <2>2. CASE q # s
    <3>1. builderSaves'[q] = builderSaves[q]
      BY <2>2
    <3>2. rowHolder = q
      BY <3>1 DEF SavesKnowTheRow
    <3> QED BY <3>2, BuilderAssumption DEF RowIsFree
  <2> QED BY <2>1, <2>2
<1> QED BY <1>1, <1>2

\* A save that is over leaves the others as they were: none of them holds the row.
LEMMA EndKeepsSaves ==
    ASSUME ConfigInv, NEW s \in BuilderSave, EndBuilderSave(s),
           \/ UNCHANGED builderRow
           \/ builderSaves[s].found = NoConfig /\ builderRow = NoConfig
           \/ builderSaves[s] # NoConfig /\ builderSaves[s].found # NoConfig
    PROVE  SavesKnowTheRow' /\ DOMAIN builderSaves' = BuilderSave
<1> USE DEF EndBuilderSave, ConfigInv
<1>1. DOMAIN builderSaves' = BuilderSave
  OBVIOUS
<1> SUFFICES ASSUME NEW q \in BuilderSave,
                    builderSaves'[q] # NoConfig, builderSaves'[q].found # NoConfig
             PROVE  rowHolder' = q /\ builderSaves'[q].found = builderRow'
  BY <1>1 DEF SavesKnowTheRow
<1>2. q # s /\ builderSaves'[q] = builderSaves[q]
  OBVIOUS
<1>3. rowHolder = q /\ builderSaves[q].found = builderRow
  BY <1>2 DEF SavesKnowTheRow
<1>4. rowHolder' = q
  BY <1>2, <1>3
<1>5. builderRow # NoConfig
  BY <1>2, <1>3
<1>6. ~(builderSaves[s] # NoConfig /\ builderSaves[s].found # NoConfig)
  BY <1>2, <1>3 DEF SavesKnowTheRow
<1> QED BY <1>2, <1>3, <1>4, <1>5, <1>6

LEMMA CommitKeepsInv ==
    ASSUME ConfigInv, NEW s \in BuilderSave, CommitBuilderSave(s)
    PROVE  ConfigInv'
<1> USE DEF CommitBuilderSave
<1>1. SavesKnowTheRow' /\ DOMAIN builderSaves' = BuilderSave
  BY EndKeepsSaves DEF InsertBuilder, UpdateBuilder
<1>2. TokenIsNewest'
  <2>1. CASE InsertBuilder(builderSaves[s])
    <3>1. builderRow'.token = newestToken'
      BY <2>1 DEF InsertBuilder
    <3> QED BY <3>1 DEF TokenIsNewest
  <2>2. CASE UpdateBuilder(builderSaves[s])
    <3>1. builderSaves[s].found = builderRow /\ builderRow # NoConfig
      BY <2>2 DEF UpdateBuilder, ConfigInv, SavesKnowTheRow
    <3>2. builderRow'.token = newestToken'
      BY <2>2, <3>1 DEF UpdateBuilder, ConfigInv, TokenIsNewest
    <3> QED BY <3>2 DEF TokenIsNewest
  <2> QED BY <2>1, <2>2
<1> QED BY <1>1, <1>2 DEF ConfigInv

LEMMA RollBackKeepsInv ==
    ASSUME ConfigInv, NEW s \in BuilderSave, RollBackBuilderSave(s)
    PROVE  ConfigInv'
<1>1. SavesKnowTheRow' /\ DOMAIN builderSaves' = BuilderSave
  BY EndKeepsSaves DEF RollBackBuilderSave
<1>2. TokenIsNewest'
  BY DEF ConfigInv, TokenIsNewest, RollBackBuilderSave
<1> QED BY <1>1, <1>2 DEF ConfigInv

LEMMA ConfigStep == ConfigInv /\ [BuilderNext]_builderVars => ConfigInv'
<1> SUFFICES ASSUME ConfigInv, [BuilderNext]_builderVars PROVE ConfigInv'
  OBVIOUS
<1>1. ASSUME NEW s \in BuilderSave, NEW fields \in Target, NEW token \in BuilderToken \cup {KeepToken},
             BeginBuilderSave(s, fields, token)
      PROVE  ConfigInv'
  BY <1>1, BeginKeepsInv
<1>2. ASSUME NEW s \in BuilderSave, CommitBuilderSave(s) \/ RollBackBuilderSave(s) PROVE ConfigInv'
  BY <1>2, CommitKeepsInv, RollBackKeepsInv
<1>3. CASE PrepareTarget \/ RecordTarget \/ TriggerTarget \/ AttemptEnds \/ UNCHANGED builderVars
  BY <1>3 DEF PrepareTarget, RecordTarget, TriggerTarget, AttemptEnds, builderVars,
     ConfigInv, SavesKnowTheRow, TokenIsNewest
<1> QED BY <1>1, <1>2, <1>3 DEF BuilderNext

\* builder/repository_mysql.go Save: a save without a token writes back the token of
\* the save before it, however many saves run at once, fail or wait for the row.
THEOREM TokenStaysNewest == BuilderSpec => []TokenIsNewest
<1>1. ConfigInv => TokenIsNewest
  BY DEF ConfigInv
<1> QED BY <1>1, ConfigInit, ConfigStep, PTL DEF BuilderSpec

TargetIsAsPrepared ==
    /\ target # NoConfig => target = [config |-> target.config, job |-> target.job]
    /\ target # NoConfig /\ target.job # NoConfig => target.job = target.config.fields
    /\ BuildsRunWhereRecorded

LEMMA TargetStep == TargetIsAsPrepared /\ [BuilderNext]_builderVars => TargetIsAsPrepared'
<1> SUFFICES ASSUME TargetIsAsPrepared, [BuilderNext]_builderVars PROVE TargetIsAsPrepared'
  OBVIOUS
<1> USE DEF TargetIsAsPrepared, BuildsRunWhereRecorded
<1>1. CASE PrepareTarget
  BY <1>1 DEF PrepareTarget
<1>2. CASE RecordTarget
  <2>1. target' = [config |-> target.config, job |-> target.config.fields]
    <3>1. target = [config |-> target.config, job |-> target.job]
      BY <1>2 DEF RecordTarget
    <3>2. target' = [target EXCEPT !.job = target.config.fields]
      BY <1>2 DEF RecordTarget
    <3> QED BY <3>1, <3>2
  <2>2. lastBuild' = lastBuild
    BY <1>2 DEF RecordTarget
  <2> QED BY <2>1, <2>2
<1>3. CASE TriggerTarget
  BY <1>3 DEF TriggerTarget, PreparedConfig
<1>4. CASE AttemptEnds
  BY <1>4 DEF AttemptEnds
<1>5. ASSUME NEW s \in BuilderSave PROVE
        /\ \A fields, token : BeginBuilderSave(s, fields, token) => UNCHANGED <<target, lastBuild>>
        /\ CommitBuilderSave(s) \/ RollBackBuilderSave(s) => UNCHANGED <<target, lastBuild>>
  BY DEF BeginBuilderSave, CommitBuilderSave, RollBackBuilderSave
<1>6. CASE UNCHANGED <<target, lastBuild>>
  BY <1>6
<1> QED BY <1>1, <1>2, <1>3, <1>4, <1>5, <1>6 DEF BuilderNext, builderVars

\* builder/callback.go Prepare, release/service.go: a build is started at the target its
\* job has in the database, whatever is saved or switched off in between.
THEOREM BuildsRunAsRecorded == BuilderSpec => []BuildsRunWhereRecorded
<1>1. BuilderInit => TargetIsAsPrepared
  BY DEF BuilderInit, TargetIsAsPrepared, BuildsRunWhereRecorded
<1>2. TargetIsAsPrepared => BuildsRunWhereRecorded
  BY DEF TargetIsAsPrepared
<1> QED BY <1>1, <1>2, TargetStep, PTL DEF BuilderSpec

-----------------------------------------------------------------------------

SiteRow   == [content : SiteContent, base : SiteContent]
FormDraft == [lock : Nat, content : SiteContent, base : SiteContent]
FormPut   == [draft : FormDraft, answer : {"none", "saved", "conflict", "problem"}]

\* What the row held at lock version n.
HeldAt(held, n) == IF n = 0 THEN DefaultContent ELSE held[n].content

Seen(held, view) ==
    view.lock \in 0..Len(held) /\ view.content \in SiteContent /\ view.content = HeldAt(held, view.lock)

Based(held, draft) ==
    draft \in FormDraft /\ draft.lock \in 0..Len(held) /\ draft.base = HeldAt(held, draft.lock)

SaveIsStored(held, p) ==
    p.answer = "saved" =>
        p.draft.lock + 1 <= Len(held) /\ held[p.draft.lock + 1].content = NormalContent[p.draft.content]

SiteInv ==
    /\ rows \in Seq(SiteRow)
    /\ Seen(rows, siteData)
    /\ Based(rows, siteDraft)
    /\ put = NoRequest \/ (put \in FormPut /\ Based(rows, put.draft) /\ SaveIsStored(rows, put))
    /\ siteRefetch \in {NoRequest, Sent} \/ Seen(rows, siteRefetch)
    /\ siteReload \in {NoRequest, Sent} \/ Seen(rows, siteReload)
    /\ EverySaveSawWhatItReplaced

-----------------------------------------------------------------------------

LEMMA ViewIsSeen ==
    ASSUME rows \in Seq(SiteRow)
    PROVE  Seen(rows, View) /\ View.lock = Len(rows)
<1>1. CASE rows = <<>>
  BY <1>1, SiteAssumption DEF View, Seen, HeldAt
<1>2. CASE rows # <<>>
  <2>1. Len(rows) \in Nat \ {0} /\ rows[Len(rows)] \in SiteRow
    BY <1>2
  <2> QED BY <1>2, <2>1 DEF View, Seen, HeldAt, SiteRow
<1> QED BY <1>1, <1>2

LEMMA SeenIsBased ==
    ASSUME NEW held, NEW view, Seen(held, view)
    PROVE  Based(held, DraftFromView(view))
<1>1. view.lock \in Nat /\ view.content \in SiteContent
  BY DEF Seen
<1> QED BY <1>1 DEF Seen, Based, DraftFromView, FormDraft

\* A row that is added changes nothing that was seen before.
LEMMA SeenStays ==
    ASSUME NEW held \in Seq(SiteRow), NEW row \in SiteRow
    PROVE  /\ \A view : Seen(held, view) => Seen(Append(held, row), view)
           /\ \A draft : Based(held, draft) => Based(Append(held, row), draft)
           /\ \A p : Based(held, p.draft) /\ SaveIsStored(held, p) => SaveIsStored(Append(held, row), p)
<1> DEFINE longer == Append(held, row)
<1>1. Len(held) \in Nat /\ Len(longer) = Len(held) + 1 /\ \A n \in 1..Len(held) : longer[n] = held[n]
  OBVIOUS
<1>2. \A n \in 0..Len(held) : HeldAt(longer, n) = HeldAt(held, n) /\ n \in 0..Len(longer)
  BY <1>1 DEF HeldAt
<1> HIDE DEF longer
<1>3. ASSUME NEW p, Based(held, p.draft), SaveIsStored(held, p) PROVE SaveIsStored(longer, p)
  BY <1>1, <1>3 DEF SaveIsStored, Based
<1>4. (\A view : Seen(held, view) => Seen(longer, view)) /\ (\A draft : Based(held, draft) => Based(longer, draft))
  BY <1>2 DEF Seen, Based
<1> QED BY <1>3, <1>4 DEF longer

LEMMA SiteStarts == SiteInit => SiteInv
<1> SUFFICES ASSUME SiteInit PROVE SiteInv
  OBVIOUS
<1>1. rows \in Seq(SiteRow) /\ EverySaveSawWhatItReplaced
  BY DEF SiteInit, EverySaveSawWhatItReplaced
<1>2. Seen(rows, View) /\ Based(rows, DraftFromView(View))
  BY <1>1, ViewIsSeen, SeenIsBased
<1> QED BY <1>1, <1>2 DEF SiteInit, SiteInv

\* The next version is made from the last one.
LEMMA AppendKeepsHistory ==
    ASSUME rows \in Seq(SiteRow), EverySaveSawWhatItReplaced, NEW row \in SiteRow,
           row.base = HeldAt(rows, Len(rows)), rows' = Append(rows, row)
    PROVE  EverySaveSawWhatItReplaced'
<1> SUFFICES ASSUME NEW n \in 1..Len(rows')
             PROVE  rows'[n].base = IF n = 1 THEN DefaultContent ELSE rows'[n - 1].content
  BY DEF EverySaveSawWhatItReplaced
<1>1. Len(rows) \in Nat /\ Len(rows') = Len(rows) + 1
  OBVIOUS
<1>2. CASE n = Len(rows) + 1
  <2>1. rows'[n] = row
    BY <1>2
  <2>2. CASE n = 1
    BY <2>1, <2>2, <1>1, <1>2 DEF HeldAt
  <2>3. CASE n # 1
    <3>1. n - 1 = Len(rows) /\ n - 1 \in 1..Len(rows) /\ Len(rows) # 0
      BY <1>1, <1>2, <2>3
    <3>2. rows'[n - 1] = rows[n - 1]
      BY <3>1
    <3> QED BY <2>1, <2>3, <3>1, <3>2 DEF HeldAt
  <2> QED BY <2>2, <2>3
<1>3. CASE n \in 1..Len(rows)
  <2>1. rows'[n] = rows[n]
    BY <1>3
  <2>2. n # 1 => n - 1 \in 1..Len(rows)
    BY <1>1, <1>3
  <2>3. n # 1 => rows'[n - 1] = rows[n - 1]
    BY <2>2
  <2> QED BY <1>3, <2>1, <2>3 DEF EverySaveSawWhatItReplaced
<1> QED BY <1>1, <1>2, <1>3

\* What a step that adds a row leaves alone stays true of the rows.
LEMMA AppendKeepsPage ==
    ASSUME SiteInv, NEW row \in SiteRow, row.base = HeldAt(rows, Len(rows)),
           rows' = Append(rows, row), UNCHANGED <<sitePage, siteRefetch, siteReload>>
    PROVE  /\ rows' \in Seq(SiteRow)
           /\ Seen(rows', siteData')
           /\ Based(rows', siteDraft')
           /\ siteRefetch' \in {NoRequest, Sent} \/ Seen(rows', siteRefetch')
           /\ siteReload' \in {NoRequest, Sent} \/ Seen(rows', siteReload')
           /\ EverySaveSawWhatItReplaced'
<1> USE DEF SiteInv, sitePage
<1>1. rows' \in Seq(SiteRow)
  OBVIOUS
<1>2. EverySaveSawWhatItReplaced'
  BY AppendKeepsHistory
<1>3. \A view : Seen(rows, view) => Seen(rows', view)
  BY SeenStays
<1>4. \A draft : Based(rows, draft) => Based(rows', draft)
  BY SeenStays
<1> QED BY <1>1, <1>2, <1>3, <1>4

LEMMA StoreKeepsInv ==
    ASSUME SiteInv, put # NoRequest, put.answer = "none", Stores(put.draft),
           put' \in {[put EXCEPT !.answer = "saved"], [put EXCEPT !.answer = "problem"]},
           UNCHANGED <<sitePage, siteRefetch, siteReload>>
    PROVE  SiteInv'
<1> DEFINE draft == put.draft
           row == [content |-> NormalContent[draft.content], base |-> draft.base]
<1>1. rows \in Seq(SiteRow) /\ Based(rows, draft) /\ draft.lock = Len(rows)
  BY DEF SiteInv, Stores, IsPresentVersion
<1>2. row \in SiteRow /\ row.base = HeldAt(rows, Len(rows))
  BY <1>1, SiteAssumption DEF SiteRow, Based, FormDraft
<1>3. rows' = Append(rows, row)
  BY DEF Stores, NormalizeSite
<1>4. Based(rows', draft)
  BY <1>1, <1>2, <1>3, SeenStays
<1>5. draft.lock + 1 = Len(rows') /\ rows'[draft.lock + 1].content = NormalContent[draft.content]
  BY <1>1, <1>2, <1>3
<1>6. put \in FormPut
  BY DEF SiteInv
<1>7. put' \in FormPut /\ put'.draft = draft
  BY <1>6 DEF FormPut
<1>8. Based(rows', put'.draft) /\ SaveIsStored(rows', put')
  BY <1>4, <1>5, <1>7, <1>1 DEF SaveIsStored
<1> QED BY <1>2, <1>3, <1>7, <1>8, AppendKeepsPage DEF SiteInv

LEMMA OtherPageKeepsInv ==
    ASSUME SiteInv, NEW c \in SiteContent, OtherPagePuts(c)
    PROVE  SiteInv'
<1> DEFINE row == [content |-> NormalContent[c], base |-> View.content]
<1>1. rows \in Seq(SiteRow) /\ Seen(rows, View) /\ View.lock = Len(rows)
  BY ViewIsSeen DEF SiteInv
<1>2. row \in SiteRow /\ row.base = HeldAt(rows, Len(rows))
  BY <1>1, SiteAssumption DEF SiteRow, Seen
<1>3. rows' = Append(rows, row) /\ UNCHANGED <<sitePage, put, siteRefetch, siteReload>>
  BY DEF OtherPagePuts, NormalizeSite
<1>4. put' = NoRequest \/ (put' \in FormPut /\ Based(rows', put'.draft) /\ SaveIsStored(rows', put'))
  BY <1>1, <1>2, <1>3, SeenStays DEF SiteInv
<1> QED BY <1>2, <1>3, <1>4, AppendKeepsPage DEF SiteInv

LEMMA PutKeepsInv ==
    ASSUME SiteInv, Submit \/ ServePut \/ PutAnswered
    PROVE  SiteInv'
<1>1. CASE Submit
  <2>1. put' \in FormPut /\ put'.draft = siteDraft /\ put'.answer = "none"
    BY <1>1 DEF Submit, SiteInv, Based, FormPut
  <2> QED BY <1>1, <2>1 DEF Submit, SiteInv, sitePage, SaveIsStored, EverySaveSawWhatItReplaced
<1>2. CASE ServePut
  <2>1. CASE UNCHANGED rows
    <3>1. put' \in {[put EXCEPT !.answer = "conflict"], [put EXCEPT !.answer = "problem"]}
      BY <1>2, <2>1 DEF ServePut, Stores, SiteInv
    <3>2. put' \in FormPut /\ put'.draft = put.draft /\ put'.answer # "saved"
      BY <1>2, <3>1 DEF ServePut, SiteInv, FormPut
    <3>3. Based(rows', put'.draft) /\ SaveIsStored(rows', put')
      BY <1>2, <2>1, <3>2 DEF ServePut, SiteInv, SaveIsStored
    <3>4. UNCHANGED <<siteData, siteDraft, siteRefetch, siteReload>>
      BY <1>2 DEF ServePut, sitePage
    <3> QED BY <2>1, <3>2, <3>3, <3>4 DEF SiteInv, EverySaveSawWhatItReplaced
  <2>2. CASE rows' # rows
    BY <1>2, <2>2, StoreKeepsInv DEF ServePut
  <2> QED BY <2>1, <2>2
<1>3. CASE PutAnswered
  <2> USE <1>3 DEF PutAnswered
  <2>1. put # NoRequest /\ put' = NoRequest /\ UNCHANGED <<rows, siteRefetch, siteReload>>
    OBVIOUS
  <2>2. CASE put.answer = "saved"
    <3>1. Based(rows, put.draft) /\ SaveIsStored(rows, put)
      BY <2>1 DEF SiteInv
    <3>2. Seen(rows, SavedView(put.draft))
      <4>1. put.draft.lock + 1 \in 1..Len(rows)
        BY <3>1, <2>2 DEF Based, SaveIsStored, SiteInv
      <4> QED BY <3>1, <2>2, <4>1, SiteAssumption DEF Seen, SavedView, NormalizeSite, HeldAt, Based, FormDraft, SaveIsStored
    <3>3. siteData' = SavedView(put.draft) /\ siteDraft' = DraftFromView(siteData')
      BY <2>2
    <3>4. Based(rows, DraftFromView(SavedView(put.draft)))
      BY <3>2, SeenIsBased
    <3> QED BY <2>1, <3>2, <3>3, <3>4 DEF SiteInv, EverySaveSawWhatItReplaced
  <2>3. CASE put.answer # "saved"
    <3>1. UNCHANGED <<siteData, siteDraft>>
      BY <2>3 DEF sitePage
    <3> QED BY <2>1, <3>1 DEF SiteInv, EverySaveSawWhatItReplaced
  <2> QED BY <2>2, <2>3
<1> QED BY <1>1, <1>2, <1>3

LEMMA PageKeepsInv ==
    ASSUME SiteInv,
           \/ \E c \in SiteContent : EditContent(c)
           \/ KeepMyChanges \/ AskSiteReload \/ ServeSiteReload \/ SiteReloaded
           \/ AskSiteRefetch \/ ServeSiteRefetch \/ SiteRefetched
           \/ UNCHANGED siteVars
    PROVE  SiteInv'
<1> USE DEF SiteInv, sitePage
<1>1. UNCHANGED <<rows, put>>
  BY DEF EditContent, KeepMyChanges, AskSiteReload, ServeSiteReload, SiteReloaded,
     AskSiteRefetch, ServeSiteRefetch, SiteRefetched, siteVars
<1>2. Seen(rows, View) /\ \A view : Seen(rows, view) => Based(rows, DraftFromView(view))
  BY ViewIsSeen, SeenIsBased
<1>3. siteRefetch' \in {NoRequest, Sent} \/ Seen(rows, siteRefetch')
  BY <1>2 DEF EditContent, KeepMyChanges, AskSiteReload, ServeSiteReload, SiteReloaded,
     AskSiteRefetch, ServeSiteRefetch, SiteRefetched, siteVars
<1>4. siteReload' \in {NoRequest, Sent} \/ Seen(rows, siteReload')
  BY <1>2 DEF EditContent, KeepMyChanges, AskSiteReload, ServeSiteReload, SiteReloaded,
     AskSiteRefetch, ServeSiteRefetch, SiteRefetched, siteVars
<1>5. Seen(rows, siteData')
  BY DEF EditContent, KeepMyChanges, AskSiteReload, ServeSiteReload, SiteReloaded,
     AskSiteRefetch, ServeSiteRefetch, SiteRefetched, siteVars
<1>6. Based(rows, siteDraft')
  <2>1. ASSUME NEW c \in SiteContent, EditContent(c) PROVE Based(rows, siteDraft')
    <3>1. siteDraft' = [siteDraft EXCEPT !.content = c] /\ Based(rows, siteDraft)
      BY <2>1 DEF EditContent
    <3>2. /\ siteDraft' \in FormDraft
          /\ siteDraft'.lock = siteDraft.lock /\ siteDraft'.base = siteDraft.base
      BY <3>1 DEF Based, FormDraft
    <3> QED BY <3>1, <3>2 DEF Based
  <2>2. CASE KeepMyChanges \/ AskSiteReload \/ ServeSiteReload \/ SiteReloaded
    BY <2>2, <1>2 DEF KeepMyChanges, AskSiteReload, ServeSiteReload, SiteReloaded
  <2>3. CASE AskSiteRefetch \/ ServeSiteRefetch \/ SiteRefetched \/ UNCHANGED siteVars
    BY <2>3, <1>2 DEF AskSiteRefetch, ServeSiteRefetch, SiteRefetched, siteVars
  <2> QED BY <2>1, <2>2, <2>3
<1> QED BY <1>1, <1>3, <1>4, <1>5, <1>6 DEF EverySaveSawWhatItReplaced

LEMMA SiteStep == SiteInv /\ [SiteNext]_siteVars => SiteInv'
BY StoreKeepsInv, OtherPageKeepsInv, PutKeepsInv, PageKeepsInv DEF SiteNext

\* settings/repository_mysql.go UpdateSite with SiteSettingsPage.tsx: each version was
\* made by a page that had been shown the one before it, for any number of pages,
\* saves, lost answers, refetches and conflicts.
THEOREM SavesSeeWhatTheyReplace == SiteSpec => []EverySaveSawWhatItReplaced
<1>1. SiteInv => EverySaveSawWhatItReplaced
  BY DEF SiteInv
<1> QED BY <1>1, SiteStarts, SiteStep, PTL DEF SiteSpec

-----------------------------------------------------------------------------

Leaders == {r \in Reader : readerAt[r] \in {"load", "loaded"}}

AcknowledgedIsStored ==
    /\ acknowledged <= policy
    /\ \A p \in replaced : p <= policy
    /\ \A r \in Reader : asked[r] <= acknowledged

CacheIsFresh == cacheValid => cache >= acknowledged

GenerationsPass == \A r \in Leaders : loadGeneration[r] <= cacheGeneration

LeaderIsRegistered ==
    \A r \in Leaders : loadGeneration[r] = cacheGeneration => loadFlight = r

GoodLoads ==
    \A r \in Reader :
        /\ readerAt[r] = "loaded" /\ heard[r].err = "none" /\ loadGeneration[r] = cacheGeneration
        => heard[r].policy >= acknowledged

GoodFlights ==
    \A r \in Reader :
        /\ readerAt[r] = "woken" /\ heard[r].err = "none" /\ ~heard[r].invalidated
        => heard[r].policy >= asked[r]

CacheInv ==
    /\ HotlinkTypeOK
    /\ AcknowledgedIsStored
    /\ CacheIsFresh
    /\ GenerationsPass
    /\ LeaderIsRegistered
    /\ GoodLoads
    /\ GoodFlights
    /\ LoadsAreShared
    /\ AnswersAreFresh

-----------------------------------------------------------------------------

LEMMA LoadsAreTyped ==
    /\ \A p \in 0..MaxPolicy : Loaded(p) \in HotlinkLoad
    /\ \A e \in {"none", "dependency", "context"} : NotLoaded(e) \in HotlinkLoad
    /\ NoFlight \notin Reader /\ MaxPolicy \in Nat
BY HotlinkAssumption DEF Loaded, NotLoaded, HotlinkLoad

LEMMA CacheInit == HotlinkInit => CacheInv
<1> SUFFICES ASSUME HotlinkInit PROVE CacheInv
  OBVIOUS
<1>1. HotlinkTypeOK
  <2>1. Loaded(0) \in HotlinkLoad
    BY LoadsAreTyped
  <2>2. heard \in [Reader -> HotlinkLoad]
    BY <2>1 DEF HotlinkInit
  <2>3. policy \in 0..MaxPolicy /\ acknowledged \in 0..MaxPolicy /\ cache \in 0..MaxPolicy /\ cacheGeneration \in Nat
    BY HotlinkAssumption DEF HotlinkInit
  <2>4. asked \in [Reader -> 0..MaxPolicy] /\ loadGeneration \in [Reader -> Nat]
    BY HotlinkAssumption DEF HotlinkInit
  <2>5. cacheValid \in BOOLEAN /\ replaced \subseteq 1..MaxPolicy
    BY DEF HotlinkInit
  <2>6. readerAt \in [Reader -> ReaderState] /\ flightOf \in [Reader -> Reader \cup {NoFlight}]
    BY DEF HotlinkInit, ReaderState
  <2>7. loadFlight \in Reader \cup {NoFlight} /\ cancelled \subseteq Reader
    BY DEF HotlinkInit
  <2> QED BY <2>2, <2>3, <2>4, <2>5, <2>6, <2>7 DEF HotlinkTypeOK
<1>2. AcknowledgedIsStored /\ CacheIsFresh
  BY DEF HotlinkInit, AcknowledgedIsStored, CacheIsFresh
<1>3. GenerationsPass /\ LeaderIsRegistered /\ GoodLoads /\ GoodFlights
  BY DEF HotlinkInit, GenerationsPass, LeaderIsRegistered, GoodLoads, GoodFlights, Leaders
<1>4. LoadsAreShared /\ AnswersAreFresh
  BY DEF HotlinkInit, LoadsAreShared, AnswersAreFresh
<1> QED BY <1>1, <1>2, <1>3, <1>4 DEF CacheInv

\* The two halves of a Put.  Its return starts a generation no load belongs to.
LEMMA PutsKeepInv ==
    ASSUME CacheInv,
           ReplaceHotlinkPolicy \/ \E p \in replaced : PutReturns(p)
    PROVE  CacheInv'
<1> USE DEF CacheInv
<1>1. CASE ReplaceHotlinkPolicy
  <2>1. policy' \in 0..MaxPolicy
    BY <1>1, HotlinkAssumption DEF ReplaceHotlinkPolicy, HotlinkTypeOK
  <2>2. ASSUME NEW p \in replaced' PROVE p \in 1..MaxPolicy /\ p <= policy'
    <3>1. policy \in Nat /\ policy' = policy + 1 /\ policy < MaxPolicy /\ MaxPolicy \in Nat
      BY <1>1, HotlinkAssumption DEF ReplaceHotlinkPolicy, HotlinkTypeOK
    <3>2. CASE p = policy + 1
      BY <3>1, <3>2
    <3>3. CASE p \in replaced
      <4>1. p \in 1..MaxPolicy /\ p <= policy
        BY <3>3 DEF HotlinkTypeOK, AcknowledgedIsStored
      <4> QED BY <3>1, <4>1
    <3>4. p = policy + 1 \/ p \in replaced
      BY <1>1, <2>2 DEF ReplaceHotlinkPolicy
    <3> QED BY <3>2, <3>3, <3>4
  <2>3. HotlinkTypeOK'
    BY <1>1, <2>1, <2>2 DEF ReplaceHotlinkPolicy, HotlinkTypeOK, hotlinkCache, hotlinkReaders
  <2>4. AcknowledgedIsStored'
    BY <1>1, <2>1, <2>2, HotlinkAssumption DEF ReplaceHotlinkPolicy, HotlinkTypeOK, AcknowledgedIsStored,
       hotlinkCache, hotlinkReaders
  <2>5. (CacheIsFresh /\ GenerationsPass /\ LeaderIsRegistered /\ GoodLoads /\ GoodFlights)'
    BY <1>1 DEF ReplaceHotlinkPolicy, hotlinkCache, hotlinkReaders, CacheIsFresh, GenerationsPass,
       LeaderIsRegistered, GoodLoads, GoodFlights, Leaders
  <2>6. (LoadsAreShared /\ AnswersAreFresh)'
    BY <1>1 DEF ReplaceHotlinkPolicy, hotlinkCache, hotlinkReaders, LoadsAreShared, AnswersAreFresh
  <2> QED BY <2>3, <2>4, <2>5, <2>6
<1>2. ASSUME NEW p \in replaced, PutReturns(p) PROVE CacheInv'
  <2> USE <1>2 DEF PutReturns, InvalidateCache, hotlinkReaders
  <2>1. HotlinkTypeOK'
    <3>1. acknowledged' \in 0..MaxPolicy /\ replaced' \subseteq 1..MaxPolicy /\ cache' \in 0..MaxPolicy
      BY HotlinkAssumption DEF HotlinkTypeOK
    <3>2. cacheGeneration' \in Nat
      BY DEF HotlinkTypeOK
    <3>3. cacheValid' \in BOOLEAN /\ loadFlight' \in Reader \cup {NoFlight}
      OBVIOUS
    <3> QED BY <3>1, <3>2, <3>3 DEF HotlinkTypeOK
  <2>2. AcknowledgedIsStored'
    BY LoadsAreTyped DEF HotlinkTypeOK, AcknowledgedIsStored
  <2>3. \A r \in Leaders : loadGeneration'[r] < cacheGeneration'
    BY DEF HotlinkTypeOK, GenerationsPass, Leaders
  <2>4. (CacheIsFresh /\ GenerationsPass /\ LeaderIsRegistered /\ GoodLoads /\ GoodFlights)'
    BY <2>3 DEF HotlinkTypeOK, CacheIsFresh, GenerationsPass, LeaderIsRegistered, GoodLoads, GoodFlights, Leaders
  <2>5. (LoadsAreShared /\ AnswersAreFresh)'
    BY DEF LoadsAreShared, AnswersAreFresh
  <2> QED BY <2>1, <2>2, <2>4, <2>5
<1> QED BY <1>1, <1>2

\* A reader that begins, looks at the cache, or waits.
LEMMA EntriesKeepInv ==
    ASSUME CacheInv, NEW r \in Reader,
           BeginCurrent(r) \/ Enter(r)
    PROVE  CacheInv'
<1> USE DEF CacheInv, Moves
<1>1. CASE BeginCurrent(r)
  <2> USE <1>1 DEF BeginCurrent, hotlinkCache
  <2>1. HotlinkTypeOK' /\ AcknowledgedIsStored' /\ CacheIsFresh'
    BY LoadsAreTyped DEF HotlinkTypeOK, ReaderState, AcknowledgedIsStored, CacheIsFresh
  <2>2. (GenerationsPass /\ LeaderIsRegistered /\ GoodLoads /\ GoodFlights)'
    BY DEF HotlinkTypeOK, GenerationsPass, LeaderIsRegistered, GoodLoads, GoodFlights, Leaders
  <2>3. (LoadsAreShared /\ AnswersAreFresh)'
    BY DEF HotlinkTypeOK, LoadsAreShared, AnswersAreFresh
  <2> QED BY <2>1, <2>2, <2>3
<1>2. CASE Enter(r)
  <2>1. CASE AnswerFromCache(r)
    <3> USE <1>2, <2>1 DEF Enter, AnswerFromCache, hotlinkCache
    <3>1. HotlinkTypeOK' /\ AcknowledgedIsStored' /\ CacheIsFresh'
      BY LoadsAreTyped DEF HotlinkTypeOK, ReaderState, AcknowledgedIsStored, CacheIsFresh
    <3>2. (GenerationsPass /\ LeaderIsRegistered /\ GoodLoads /\ GoodFlights)'
      BY DEF HotlinkTypeOK, GenerationsPass, LeaderIsRegistered, GoodLoads, GoodFlights, Leaders
    <3>3. LoadsAreShared'
      BY DEF HotlinkTypeOK, LoadsAreShared
    <3>4. heard'[r].policy >= asked[r]
      BY DEF HotlinkTypeOK, CacheIsFresh, AcknowledgedIsStored, Loaded
    <3>5. AnswersAreFresh'
      BY <3>4 DEF HotlinkTypeOK, AnswersAreFresh
    <3> QED BY <3>1, <3>2, <3>3, <3>5
  <2>2. CASE JoinFlight(r)
    <3> USE <1>2, <2>2 DEF Enter, JoinFlight, hotlinkCache
    <3>1. HotlinkTypeOK' /\ AcknowledgedIsStored' /\ CacheIsFresh'
      BY LoadsAreTyped DEF HotlinkTypeOK, ReaderState, AcknowledgedIsStored, CacheIsFresh
    <3>2. (GenerationsPass /\ LeaderIsRegistered /\ GoodLoads /\ GoodFlights)'
      BY DEF HotlinkTypeOK, GenerationsPass, LeaderIsRegistered, GoodLoads, GoodFlights, Leaders
    <3>3. (LoadsAreShared /\ AnswersAreFresh)'
      BY DEF HotlinkTypeOK, LoadsAreShared, AnswersAreFresh
    <3> QED BY <3>1, <3>2, <3>3
  <2>3. CASE LeadFlight(r)
    <3> USE <1>2, <2>3 DEF Enter, LeadFlight, hotlinkCache
    <3>1. HotlinkTypeOK' /\ AcknowledgedIsStored' /\ CacheIsFresh'
      BY LoadsAreTyped DEF HotlinkTypeOK, ReaderState, AcknowledgedIsStored, CacheIsFresh
    <3>2. \A q \in Leaders : loadGeneration[q] # cacheGeneration
      BY LoadsAreTyped DEF LeaderIsRegistered, Leaders
    <3>3. (GenerationsPass /\ LeaderIsRegistered /\ GoodLoads /\ GoodFlights)'
      BY <3>2 DEF HotlinkTypeOK, GenerationsPass, LeaderIsRegistered, GoodLoads, GoodFlights, Leaders
    <3>4. (LoadsAreShared /\ AnswersAreFresh)'
      BY <3>2 DEF HotlinkTypeOK, LoadsAreShared, AnswersAreFresh, Leaders
    <3> QED BY <3>1, <3>3, <3>4
  <2> QED BY <1>2, <2>1, <2>2, <2>3 DEF Enter
<1> QED BY <1>1, <1>2

\* What is read now is no older than any acknowledged policy.
LEMMA LoadKeepsInv ==
    ASSUME CacheInv, NEW r \in Reader, LoadHotlinkPolicy(r)
    PROVE  CacheInv'
<1> USE DEF CacheInv, Moves, LoadHotlinkPolicy, hotlinkCache
<1>1. HotlinkTypeOK' /\ AcknowledgedIsStored' /\ CacheIsFresh'
  BY LoadsAreTyped DEF HotlinkTypeOK, ReaderState, AcknowledgedIsStored, CacheIsFresh
<1>2. heard'[r].err = "none" => heard'[r].policy = policy
  BY DEF HotlinkTypeOK, Loaded, NotLoaded
<1>3. (GenerationsPass /\ LeaderIsRegistered /\ GoodLoads /\ GoodFlights)'
  BY <1>2 DEF HotlinkTypeOK, GenerationsPass, LeaderIsRegistered, GoodLoads, GoodFlights, Leaders, AcknowledgedIsStored
<1>4. (LoadsAreShared /\ AnswersAreFresh)'
  BY DEF HotlinkTypeOK, LoadsAreShared, AnswersAreFresh
<1> QED BY <1>1, <1>3, <1>4

\* The leader's answer is good when its generation is, and so is the flight's.
LEMMA CloseKeepsInv ==
    ASSUME CacheInv, NEW r \in Reader, CloseFlight(r)
    PROVE  CacheInv'
<1> DEFINE flight == [heard[r] EXCEPT !.invalidated = GenerationChanged(r)]
<1> USE DEF CacheInv, CloseFlight, Woken, Waiters
<1>1. /\ flight \in HotlinkLoad
      /\ flight.policy = heard[r].policy /\ flight.err = heard[r].err
      /\ flight.invalidated = GenerationChanged(r)
  BY DEF HotlinkTypeOK, HotlinkLoad, GenerationChanged
<1>2. HotlinkTypeOK'
  <2>1. heard' \in [Reader -> HotlinkLoad]
    BY <1>1 DEF HotlinkTypeOK
  <2>2. readerAt' \in [Reader -> ReaderState]
    BY DEF HotlinkTypeOK, ReaderState
  <2>3. cache' \in 0..MaxPolicy /\ cacheValid' \in BOOLEAN
    BY DEF PublishLoad, HotlinkTypeOK, HotlinkLoad
  <2> QED BY <2>1, <2>2, <2>3 DEF HotlinkTypeOK
<1>3. ~GenerationChanged(r) /\ heard[r].err = "none" => heard[r].policy >= acknowledged
  BY DEF GoodLoads, GenerationChanged
<1>4. AcknowledgedIsStored' /\ CacheIsFresh'
  BY <1>3 DEF AcknowledgedIsStored, CacheIsFresh, PublishLoad
<1>5. \A q \in Reader : readerAt'[q] \in {"load", "loaded"} =>
          /\ readerAt'[q] = readerAt[q] /\ q # r
          /\ heard'[q] = heard[q] /\ loadGeneration'[q] = loadGeneration[q]
  BY DEF HotlinkTypeOK
<1>6. (GenerationsPass /\ LeaderIsRegistered /\ GoodLoads)'
  BY <1>5 DEF GenerationsPass, LeaderIsRegistered, GoodLoads, Leaders, HotlinkTypeOK
<1>7. LoadsAreShared'
  BY <1>5 DEF LoadsAreShared
<1>8. GoodFlights'
  <2> SUFFICES ASSUME NEW q \in Reader, readerAt'[q] = "woken", heard'[q].err = "none", ~heard'[q].invalidated
               PROVE  heard'[q].policy >= asked[q]
    BY DEF GoodFlights
  <2>1. CASE q \in Woken(r)
    <3>1. heard'[q] = flight
      BY <2>1 DEF HotlinkTypeOK
    <3>2. heard[r].policy >= acknowledged
      BY <3>1, <1>1, <1>3
    <3> QED BY <3>1, <3>2, <1>1 DEF AcknowledgedIsStored, HotlinkTypeOK, HotlinkLoad
  <2>2. CASE q \notin Woken(r)
    BY <2>2 DEF GoodFlights
  <2> QED BY <2>1, <2>2
<1>9. AnswersAreFresh'
  <2> SUFFICES ASSUME NEW q \in Reader, readerAt'[q] = "done", heard'[q].err = "none"
               PROVE  heard'[q].policy >= asked[q]
    BY DEF AnswersAreFresh
  <2>1. q \notin Woken(r) /\ heard'[q] = heard[q]
    BY DEF HotlinkTypeOK
  <2>2. CASE q = r
    BY <1>3, <2>1, <2>2 DEF AcknowledgedIsStored, HotlinkTypeOK, HotlinkLoad
  <2>3. CASE q # r
    BY <2>1, <2>3 DEF AnswersAreFresh
  <2> QED BY <2>2, <2>3
<1> QED BY <1>2, <1>4, <1>6, <1>7, <1>8, <1>9

\* The other steps of a reader load nothing.
LEMMA WaitsKeepInv ==
    ASSUME CacheInv, NEW r \in Reader,
           WakeUp(r) \/ StopWaiting(r) \/ CancelReader(r)
    PROVE  CacheInv'
<1> USE DEF CacheInv, Moves, hotlinkCache
<1>1. CASE WakeUp(r)
  <2> USE <1>1 DEF WakeUp
  <2>1. HotlinkTypeOK' /\ AcknowledgedIsStored' /\ CacheIsFresh'
    BY LoadsAreTyped DEF HotlinkTypeOK, ReaderState, AcknowledgedIsStored, CacheIsFresh
  <2>2. (GenerationsPass /\ LeaderIsRegistered /\ GoodLoads /\ GoodFlights)'
    BY DEF HotlinkTypeOK, GenerationsPass, LeaderIsRegistered, GoodLoads, GoodFlights, Leaders
  <2>3. (LoadsAreShared /\ AnswersAreFresh)'
    BY DEF HotlinkTypeOK, LoadsAreShared, AnswersAreFresh, GoodFlights, MustRetry
  <2> QED BY <2>1, <2>2, <2>3
<1>2. CASE StopWaiting(r)
  <2> USE <1>2 DEF StopWaiting
  <2>1. HotlinkTypeOK' /\ AcknowledgedIsStored' /\ CacheIsFresh'
    BY LoadsAreTyped DEF HotlinkTypeOK, ReaderState, AcknowledgedIsStored, CacheIsFresh
  <2>2. (GenerationsPass /\ LeaderIsRegistered /\ GoodLoads /\ GoodFlights)'
    BY DEF HotlinkTypeOK, GenerationsPass, LeaderIsRegistered, GoodLoads, GoodFlights, Leaders
  <2>3. (LoadsAreShared /\ AnswersAreFresh)'
    BY DEF HotlinkTypeOK, LoadsAreShared, AnswersAreFresh, NotLoaded
  <2> QED BY <2>1, <2>2, <2>3
<1>3. CASE CancelReader(r)
  BY <1>3 DEF CancelReader, HotlinkTypeOK, AcknowledgedIsStored, CacheIsFresh, GenerationsPass,
     LeaderIsRegistered, GoodLoads, GoodFlights, Leaders, LoadsAreShared, AnswersAreFresh
<1> QED BY <1>1, <1>2, <1>3

LEMMA CacheStep == CacheInv /\ [HotlinkNext]_hotlinkVars => CacheInv'
<1> SUFFICES ASSUME CacheInv, [HotlinkNext]_hotlinkVars PROVE CacheInv'
  OBVIOUS
<1>1. CASE UNCHANGED hotlinkVars
  BY <1>1 DEF hotlinkVars, hotlinkCache, hotlinkReaders, CacheInv, HotlinkTypeOK, AcknowledgedIsStored,
     CacheIsFresh, GenerationsPass, LeaderIsRegistered, GoodLoads, GoodFlights, Leaders,
     LoadsAreShared, AnswersAreFresh
<1>2. CASE ReplaceHotlinkPolicy \/ \E p \in replaced : PutReturns(p)
  BY <1>2, PutsKeepInv
<1>3. ASSUME NEW r \in Reader, BeginCurrent(r) \/ ReaderStep(r) \/ StopWaiting(r) \/ CancelReader(r)
      PROVE  CacheInv'
  BY <1>3, EntriesKeepInv, LoadKeepsInv, CloseKeepsInv, WaitsKeepInv DEF ReaderStep
<1> QED BY <1>1, <1>2, <1>3 DEF HotlinkNext

-----------------------------------------------------------------------------

\* The invariant holds whatever requests, Puts, failures and cancellations do.
THEOREM HotlinkInvariance == HotlinkSpec => []CacheInv
BY CacheInit, CacheStep, PTL DEF HotlinkSpec

\* hotlink.go Current: an answer is never older than a Put that had returned when
\* the request began, for any number of requests and policies.
THEOREM AnswersStayFresh == HotlinkSpec => []AnswersAreFresh
<1>1. CacheInv => AnswersAreFresh
  BY DEF CacheInv
<1> QED BY <1>1, HotlinkInvariance, PTL

\* hotlink.go Current: loads of one generation are one load.
THEOREM LoadsStayShared == HotlinkSpec => []LoadsAreShared
<1>1. CacheInv => LoadsAreShared
  BY DEF CacheInv
<1> QED BY <1>1, HotlinkInvariance, PTL
=============================================================================
