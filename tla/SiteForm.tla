------------------------------ MODULE SiteForm ------------------------------
(***************************************************************************)
(* The site settings and the page that edits them: the row with its lock   *)
(* version (settings/site_service.go, repository_mysql.go, model.go) and   *)
(* the form, its query, its conflict (admin/src/settings/SiteSettingsPage, *)
(* site-model.ts, site-release.ts).  rows[n] is what the row held at lock  *)
(* version n; there is no row before the first save, and the page is shown *)
(* the defaults.  Requests are served when the server gets to them and     *)
(* answered later; handlers and answers run one at a time.                 *)
(*                                                                         *)
(* base belongs to the model: what the server had when the page took over  *)
(* the lock version it sends.                                              *)
(***************************************************************************)
EXTENDS Naturals, Sequences

CONSTANTS
    SiteContent,     \* the fields of the form
    DefaultContent,  \* DefaultSite
    NormalContent,   \* normalizeSite: the fields without the space around them
    NoRequest, Sent, \* no request, one that has not been served
    MaxRows          \* bound on the lock version

ASSUME SiteAssumption ==
    /\ NormalContent \in [SiteContent -> SiteContent]
    /\ \A c \in SiteContent : NormalContent[NormalContent[c]] = NormalContent[c]
    /\ DefaultContent \in SiteContent /\ NormalContent[DefaultContent] = DefaultContent
    /\ NoRequest # Sent /\ MaxRows \in Nat

VARIABLES
    rows,           \* site_settings
    siteData,       \* the query's data
    siteDraft,      \* the form
    siteConflict,   \* the page says that the settings have changed
    put,            \* save
    siteRefetch,    \* a refetch of the query
    siteReload      \* "Reload confirmed settings"

sitePage == <<siteData, siteDraft, siteConflict>>
siteVars == <<rows, sitePage, put, siteRefetch, siteReload>>

\* GetSite
View ==
    IF rows = <<>> THEN [lock |-> 0, content |-> DefaultContent]
    ELSE [lock |-> Len(rows), content |-> rows[Len(rows)].content]

DraftFromView(view) == [lock |-> view.lock, content |-> view.content, base |-> view.content]

SiteInit ==
    /\ rows = <<>>
    /\ siteData = View /\ siteDraft = DraftFromView(View) /\ siteConflict = FALSE
    /\ put = NoRequest /\ siteRefetch = NoRequest /\ siteReload = NoRequest

-----------------------------------------------------------------------------

EditContent(c) ==
    /\ siteDraft' = [siteDraft EXCEPT !.content = c]
    /\ UNCHANGED <<rows, siteData, siteConflict, put, siteRefetch, siteReload>>

Submit ==
    /\ put = NoRequest /\ put' = [draft |-> siteDraft, answer |-> "none"]
    /\ UNCHANGED <<rows, sitePage, siteRefetch, siteReload>>

\* What is stored of the fields, when they are not refused.
NormalizeSite(content) == NormalContent[content]

\* Variant: the row is inserted or, where there is one, replaced.
AnyVersion(lock) == TRUE

\* CreateSite when no lock is sent, UpdateSite otherwise.
IsPresentVersion(lock) == lock = Len(rows)

Stores(draft) ==
    /\ IsPresentVersion(draft.lock) /\ Len(rows) < MaxRows
    /\ rows' = Append(rows, [content |-> NormalizeSite(draft.content), base |-> draft.base])

\* PutSite.  Its answer may be lost, and it may refuse the fields or the image.
ServePut ==
    /\ put # NoRequest /\ put.answer = "none"
    /\ \/ Stores(put.draft) /\ put' \in {[put EXCEPT !.answer = "saved"], [put EXCEPT !.answer = "problem"]}
       \/ ~IsPresentVersion(put.draft.lock) /\ put' = [put EXCEPT !.answer = "conflict"] /\ UNCHANGED rows
       \/ put' = [put EXCEPT !.answer = "problem"] /\ UNCHANGED rows
    /\ UNCHANGED <<sitePage, siteRefetch, siteReload>>

\* What the save that was made with this draft has stored.
SavedView(draft) == [lock |-> draft.lock + 1, content |-> NormalizeSite(draft.content)]

\* The answer replaces the form, whatever was typed since.
PutAnswered ==
    /\ put # NoRequest /\ put.answer # "none" /\ put' = NoRequest
    /\ CASE put.answer = "saved" ->
                /\ siteData' = SavedView(put.draft) /\ siteDraft' = DraftFromView(siteData')
                /\ siteConflict' = FALSE
         [] put.answer = "conflict" -> siteConflict' = TRUE /\ UNCHANGED <<siteData, siteDraft>>
         [] OTHER -> UNCHANGED sitePage
    /\ UNCHANGED <<rows, siteRefetch, siteReload>>

\* Somebody else's save.
OtherPagePuts(c) ==
    /\ Len(rows) < MaxRows
    /\ rows' = Append(rows, [content |-> NormalizeSite(c), base |-> View.content])
    /\ UNCHANGED <<sitePage, put, siteRefetch, siteReload>>

-----------------------------------------------------------------------------

\* "Keep my changes": the fields are set, then the effect, which depends on the
\* conflict too, sets the form to the query's data.
KeepMyChanges ==
    /\ siteConflict /\ siteConflict' = FALSE
    /\ siteDraft' = DraftFromView(siteData)
    /\ UNCHANGED <<rows, siteData, put, siteRefetch, siteReload>>

AskSiteReload ==
    /\ siteConflict /\ siteReload = NoRequest /\ siteReload' = Sent
    /\ UNCHANGED <<rows, sitePage, put, siteRefetch>>

ServeSiteReload ==
    /\ siteReload = Sent /\ siteReload' \in {View, NoRequest}
    /\ UNCHANGED <<rows, sitePage, put, siteRefetch>>

SiteReloaded ==
    /\ siteReload \notin {NoRequest, Sent} /\ siteReload' = NoRequest
    /\ siteData' = siteReload /\ siteDraft' = DraftFromView(siteReload) /\ siteConflict' = FALSE
    /\ UNCHANGED <<rows, put, siteRefetch>>

AskSiteRefetch ==
    /\ siteRefetch = NoRequest /\ siteRefetch' = Sent
    /\ UNCHANGED <<rows, sitePage, put, siteReload>>

ServeSiteRefetch ==
    /\ siteRefetch = Sent /\ siteRefetch' \in {View, NoRequest}
    /\ UNCHANGED <<rows, sitePage, put, siteReload>>

\* Data that differ replace the form, unless there is a conflict.
SiteRefetched ==
    /\ siteRefetch \notin {NoRequest, Sent} /\ siteRefetch' = NoRequest
    /\ siteData' = siteRefetch
    /\ IF siteRefetch = siteData \/ siteConflict
       THEN UNCHANGED siteDraft
       ELSE siteDraft' = DraftFromView(siteRefetch)
    /\ UNCHANGED <<rows, siteConflict, put, siteReload>>

SiteNext ==
    \/ \E c \in SiteContent : EditContent(c) \/ OtherPagePuts(c)
    \/ Submit \/ ServePut \/ PutAnswered
    \/ KeepMyChanges \/ AskSiteReload \/ ServeSiteReload \/ SiteReloaded
    \/ AskSiteRefetch \/ ServeSiteRefetch \/ SiteRefetched

SiteSpec == SiteInit /\ [][SiteNext]_siteVars

-----------------------------------------------------------------------------

\* Nobody overwrites settings they have not seen: each version was made from the
\* one before it, whatever was saved elsewhere, answered late or not at all,
\* refetched or kept after a conflict.
EverySaveSawWhatItReplaced ==
    \A n \in 1..Len(rows) :
        rows[n].base = IF n = 1 THEN DefaultContent ELSE rows[n - 1].content
=============================================================================
