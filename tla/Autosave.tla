------------------------------ MODULE Autosave ------------------------------
(***************************************************************************)
(* The editor's autosave (admin/src/editor/useAutosave.ts) with the query  *)
(* that feeds it (ArticleEditorPage.tsx, AppProviders.tsx) and the draft   *)
(* on the server, which another tab may save too.                          *)
(*                                                                         *)
(* A document is the number of the edit that made it, so two edits differ; *)
(* stored[n] is the document the server had at lock version n.  Handlers,  *)
(* timers and answers run one at a time; a request is served when the      *)
(* server gets to it, and answered later.  A new epoch abandons the        *)
(* requests of the one before, which the server may still serve.           *)
(***************************************************************************)
EXTENDS Naturals, Sequences

CONSTANTS
    InvalidDocument,   \* documents validateEditorDocument refuses
    OtherTab,          \* TRUE: the article is open in another tab, too
    NoDetail, Asked,   \* no request, one that has not been served
    MaxEdits,          \* bound on the edits of this editor and of the other tab
    MaxLock            \* bound on the lock version of the draft

ASSUME AutosaveAssumption ==
    /\ InvalidDocument \subseteq Nat /\ MaxEdits \in Nat /\ MaxLock \in Nat
    /\ OtherTab \in BOOLEAN
    /\ NoDetail # Asked

VARIABLES
    stored,       \* the server's draft at each lock version, the last is the present one
    edits,        \* documents made so far
    document, generation, kind, lockVersion,    \* AutosaveState
    epoch, inFlight, timer,                     \* the refs of the hook
    flights,      \* save requests that have not been answered
    initial,      \* the query data the editor was started from
    refetch,      \* a refetch of the article
    reload        \* the reload of a conflict

editorState  == <<document, generation, kind, lockVersion>>
editorRefs   == <<epoch, inFlight, timer>>
autosaveVars == <<stored, edits, editorState, editorRefs, flights, initial, refetch, reload>>

Detail == [lock |-> Len(stored), document |-> stored[Len(stored)]]

AutosaveInit ==
    /\ stored = <<0>> /\ edits = 0
    /\ document = 0 /\ generation = 0 /\ kind = "saved" /\ lockVersion = 1
    /\ epoch = 0 /\ inFlight = FALSE /\ timer = FALSE
    /\ flights = {}
    /\ initial = Detail /\ refetch = NoDetail /\ reload = NoDetail

-----------------------------------------------------------------------------

Edit ==
    /\ edits < MaxEdits
    /\ edits' = edits + 1
    /\ document' = edits + 1 /\ generation' = generation + 1 /\ kind' = "dirty"
    /\ timer' = TRUE
    /\ UNCHANGED <<stored, lockVersion, epoch, inFlight, flights, initial, refetch, reload>>

\* "Save draft" and "Retry saving".
Retry ==
    /\ ~inFlight /\ kind # "saving" /\ document \notin InvalidDocument
    /\ timer' = TRUE
    /\ UNCHANGED <<stored, edits, editorState, epoch, inFlight, flights, initial, refetch, reload>>

\* The timer fires.
Run ==
    /\ timer /\ timer' = FALSE
    /\ IF inFlight \/ kind \in {"saved", "saving", "conflict", "invalid"}
       THEN UNCHANGED <<kind, inFlight, flights>>
       ELSE IF document \in InvalidDocument
       THEN kind' = "invalid" /\ UNCHANGED <<inFlight, flights>>
       ELSE /\ kind' = "saving" /\ inFlight' = TRUE
            /\ flights' = flights \cup {[epoch |-> epoch, generation |-> generation, lock |-> lockVersion,
                                         document |-> document, answer |-> "none"]}
    /\ UNCHANGED <<stored, edits, document, generation, lockVersion, epoch, initial, refetch, reload>>

\* PUT draft: the optimistic lock of the server.  Its answer may be lost.
ServeSave(f) ==
    /\ f.answer = "none"
    /\ \/ /\ f.lock = Len(stored) /\ Len(stored) < MaxLock
          /\ stored' = Append(stored, f.document)
          /\ \E answer \in {"success", "failure"} : flights' = (flights \ {f}) \cup {[f EXCEPT !.answer = answer]}
       \/ /\ f.lock # Len(stored)
          /\ flights' = (flights \ {f}) \cup {[f EXCEPT !.answer = "conflict"]}
          /\ UNCHANGED stored
       \/ /\ flights' = (flights \ {f}) \cup {[f EXCEPT !.answer = "failure"]}
          /\ UNCHANGED stored
    /\ UNCHANGED <<edits, editorState, editorRefs, initial, refetch, reload>>

\* Variant: what was saved is taken for what is shown.
SavedAnyGeneration(f) == TRUE

SavedThisGeneration(f) == f.generation = generation

Reduce(f) ==
    CASE f.answer = "success" ->
             /\ lockVersion' = f.lock + 1
             /\ IF SavedThisGeneration(f) THEN kind' = "saved" ELSE kind' = "dirty"
      [] f.answer = "failure"  -> kind' = "failed" /\ UNCHANGED lockVersion
      [] f.answer = "conflict" -> kind' = "conflict" /\ UNCHANGED lockVersion

\* Variant: an edit made during the save waits for the next one.
NotRearmed(f) == FALSE

Rearmed(f) == kind' = "dirty" /\ generation # f.generation

\* then, catch and finally of one request.
SaveAnswered(f) ==
    /\ f.answer # "none"
    /\ flights' = flights \ {f}
    /\ IF f.epoch = epoch
       THEN /\ Reduce(f)
            /\ inFlight' = FALSE
            /\ timer' = (timer \/ Rearmed(f))
       ELSE UNCHANGED <<kind, lockVersion, inFlight, timer>>
    /\ UNCHANGED <<stored, edits, document, generation, epoch, initial, refetch, reload>>

\* An aborted request need not have reached the server.
AbortedInTime(f) ==
    /\ f.epoch # epoch /\ flights' = flights \ {f}
    /\ UNCHANGED <<stored, edits, editorState, editorRefs, initial, refetch, reload>>

OtherTabSaves ==
    /\ OtherTab
    /\ edits < MaxEdits /\ Len(stored) < MaxLock
    /\ edits' = edits + 1 /\ stored' = Append(stored, edits + 1)
    /\ UNCHANGED <<editorState, editorRefs, flights, initial, refetch, reload>>

-----------------------------------------------------------------------------

\* The conflict dialog, after its question has been confirmed.
AskReload ==
    /\ kind = "conflict" /\ reload = NoDetail
    /\ reload' = Asked
    /\ UNCHANGED <<stored, edits, editorState, editorRefs, flights, initial, refetch>>

ServeReload ==
    /\ reload = Asked /\ reload' = Detail
    /\ UNCHANGED <<stored, edits, editorState, editorRefs, flights, initial, refetch>>

Reload ==
    /\ reload \notin {NoDetail, Asked}
    /\ document' = reload.document /\ lockVersion' = reload.lock /\ kind' = "saved"
    /\ generation' = generation + 1
    /\ reload' = NoDetail
    /\ UNCHANGED <<stored, edits, editorRefs, flights, initial, refetch>>

ReloadFails ==
    /\ reload # NoDetail /\ reload' = NoDetail
    /\ kind' = IF kind = "conflict" THEN "conflict" ELSE "failed"
    /\ UNCHANGED <<stored, edits, document, generation, lockVersion, editorRefs, flights, initial, refetch>>

\* The window gets the focus, or the network is back.  editorRouteIsDirty asks for
\* an attribute that no code of the editor sets, so nothing suppresses it.
AskRefetch ==
    /\ refetch = NoDetail /\ refetch' = Asked
    /\ UNCHANGED <<stored, edits, editorState, editorRefs, flights, initial, reload>>

ServeRefetch ==
    /\ refetch = Asked /\ refetch' \in {Detail, NoDetail}
    /\ UNCHANGED <<stored, edits, editorState, editorRefs, flights, initial, reload>>

\* The effect of useAutosave: data with another key starts the editor again.
Refetched ==
    /\ refetch \notin {NoDetail, Asked}
    /\ refetch' = NoDetail /\ initial' = refetch
    /\ IF refetch = initial
       THEN UNCHANGED <<editorState, editorRefs, reload>>
       ELSE /\ document' = refetch.document /\ lockVersion' = refetch.lock
            /\ kind' = "saved" /\ generation' = 0
            /\ epoch' = epoch + 1 /\ inFlight' = FALSE /\ timer' = FALSE
            /\ reload' = NoDetail
    /\ UNCHANGED <<stored, edits, flights>>

AutosaveNext ==
    \/ Edit \/ Retry \/ Run \/ OtherTabSaves
    \/ \E f \in flights : ServeSave(f) \/ SaveAnswered(f) \/ AbortedInTime(f)
    \/ AskReload \/ ServeReload \/ Reload \/ ReloadFails
    \/ AskRefetch \/ ServeRefetch \/ Refetched

AutosaveSpec == AutosaveInit /\ [][AutosaveNext]_autosaveVars

\* A save of the present epoch is served, answered or fails.
SaveProceeds == \E f \in flights : f.epoch = epoch /\ (ServeSave(f) \/ SaveAnswered(f))

\* Timers fire, and requests end.
AutosaveFairness == WF_autosaveVars(Run) /\ WF_autosaveVars(SaveProceeds)

-----------------------------------------------------------------------------

\* "Saved" is true: the document shown is the one the server stored at the lock
\* version shown, whatever was typed, reloaded or refetched while it was saved.
\* Publishing, previewing and versions are offered on the strength of it.
SavedMeansStored ==
    kind = "saved" => lockVersion \in 1..Len(stored) /\ stored[lockVersion] = document

\* What is typed does not wait for ever: it is saved, or the page says why not.
DirtySettles == kind \in {"dirty", "saving"} ~> kind \notin {"dirty", "saving"}

\* "Initial data changes only when navigating to another article": while an article
\* is open, a document that is not saved is replaced by the user alone, who edits
\* or confirms a reload.
DraftIsNotDropped ==
    [][document' # document /\ kind # "saved" => generation' > generation]_autosaveVars
=============================================================================
