----------------------------- MODULE VisualEditor -----------------------------
(***************************************************************************)
(* The visual editor of the article page and the upload of pictures into   *)
(* it (editor/MarkdownEditor.tsx, milkdown-adapter.ts,                     *)
(* markdown-update-state.ts, media/useEditorImageUpload.ts,                *)
(* image-upload.ts).  The text exists three times: as the content that the *)
(* page saves, in the view one types in, and in visualValueRef, by which   *)
(* each of the two learns of the other: the view reports a change some     *)
(* time after it was made, and the page shows a content it did not hear    *)
(* from the view when it has rendered.  A picture is put into what         *)
(* visualValueRef holds when its upload ends.                              *)
(*                                                                         *)
(* A text is a set of pieces, typed or pictures; deleting and undoing are  *)
(* left out, and so are the refetches of Autosave.                         *)
(***************************************************************************)
EXTENDS Naturals, Sequences

CONSTANTS
    Piece,        \* what can be typed
    Picture,      \* files that can be uploaded
    NoPicture,    \* no upload is in progress
    NoPaste,      \* exactPasteDocument is undefined
    SourceMode,   \* the page shows the source instead of an editor
    MaxEditors,   \* bound on the number of times the visual mode is entered
    MaxReports    \* bound on the reports that are due

ASSUME VisualAssumption ==
    /\ Piece \cap Picture = {} /\ NoPicture \notin Picture
    /\ \A text \in SUBSET (Piece \cup Picture) : NoPaste # text
    /\ SourceMode \notin Nat /\ MaxEditors \in Nat \ {0}

VARIABLES
    content,     \* contentMd of the page
    editor,      \* the visual editor that is mounted, or SourceMode
    entered,     \* how many visual editors there have been
    view,        \* the document of that editor
    reports,     \* documents the listener is about to report, the first one first
    exactPaste,  \* exactPasteDocument of that editor
    known,       \* visualValueRef of each editor
    current,     \* controller.current of each editor
    picture      \* the upload of each picture: where it is, for which editor, aborted

visualVars == <<content, editor, entered, view, reports, exactPaste, known, current, picture>>

Editors == 1..MaxEditors

NotUploading == [at |-> "idle", for |-> SourceMode, aborted |-> FALSE]

VisualInit ==
    /\ content = {}
    /\ editor = 1 /\ entered = 1
    /\ view = {} /\ reports = <<>> /\ exactPaste = NoPaste
    /\ known = [e \in Editors |-> {}]
    /\ current = [e \in Editors |-> NoPicture]
    /\ picture = [u \in Picture |-> NotUploading]

IsMounted == editor # SourceMode

-----------------------------------------------------------------------------
(* Typing, pasting and what is heard of it.                                *)

TypeInView(t) ==
    /\ IsMounted /\ t \notin view /\ Len(reports) < MaxReports
    /\ view' = view \cup {t}
    /\ reports' = Append(reports, view')
    /\ UNCHANGED <<content, editor, entered, exactPaste, known, current, picture>>

\* onChange of the mounted editor.
Change(text) ==
    /\ known' = [known EXCEPT ![editor] = text]
    /\ content' = text

\* Into an empty document Markdown is pasted as it is, and is told at once.
PasteDocument(t) ==
    /\ IsMounted /\ view = {} /\ Len(reports) < MaxReports
    /\ view' = {t}
    /\ reports' = Append(reports, view')
    /\ exactPaste' = view'
    /\ Change(view')
    /\ UNCHANGED <<editor, entered, current, picture>>

\* Variant: a report of a document that has changed since is heard too.
IsHeardLate(document) == TRUE

IsHeard(document) == document = view

\* reconcileMarkdownUpdate
ReportUpdate ==
    /\ reports # <<>>
    /\ reports' = Tail(reports)
    /\ \/ /\ ~IsHeard(Head(reports))
          /\ UNCHANGED <<content, known, exactPaste>>
       \/ /\ IsHeard(Head(reports)) /\ Head(reports) = exactPaste
          /\ exactPaste' = NoPaste /\ UNCHANGED <<content, known>>
       \/ /\ IsHeard(Head(reports)) /\ Head(reports) # exactPaste
          /\ exactPaste' = NoPaste /\ Change(Head(reports))
    /\ UNCHANGED <<editor, entered, view, current, picture>>

\* The effect of [value], behind a rendering.
ShowContent ==
    /\ IsMounted /\ known[editor] # content
    /\ known' = [known EXCEPT ![editor] = content]
    /\ view' = content
    /\ UNCHANGED <<content, editor, entered, reports, exactPaste, current, picture>>

EnterSource ==
    /\ IsMounted
    /\ editor' = SourceMode
    /\ view' = {} /\ reports' = <<>> /\ exactPaste' = NoPaste
    /\ UNCHANGED <<content, entered, known, current, picture>>

TypeInSource(t) ==
    /\ ~IsMounted /\ t \notin content
    /\ content' = content \cup {t}
    /\ UNCHANGED <<editor, entered, view, reports, exactPaste, known, current, picture>>

EnterVisual ==
    /\ ~IsMounted /\ entered < MaxEditors
    /\ entered' = entered + 1 /\ editor' = entered'
    /\ view' = content /\ known' = [known EXCEPT ![editor'] = content]
    /\ UNCHANGED <<content, reports, exactPaste, current, picture>>

-----------------------------------------------------------------------------
(* Uploads.  An editor that is closed does not end its upload.             *)

Aborting(e) ==
    [u \in Picture |-> IF u = current[e] THEN [picture[u] EXCEPT !.aborted = TRUE] ELSE picture[u]]

ChoosePicture(u) ==
    /\ IsMounted /\ picture[u].at = "idle"
    /\ picture' = [Aborting(editor) EXCEPT
                      ![u] = [at |-> "policy", for |-> editor, aborted |-> FALSE]]
    /\ current' = [current EXCEPT ![editor] = u]
    /\ UNCHANGED <<content, editor, entered, view, reports, exactPaste, known>>

CancelUpload ==
    /\ IsMounted /\ current[editor] # NoPicture
    /\ picture' = Aborting(editor)
    /\ UNCHANGED <<content, editor, entered, view, reports, exactPaste, known, current>>

\* A file that is refused has ended the upload before it, too.
RefuseFile ==
    /\ IsMounted
    /\ picture' = Aborting(editor)
    /\ current' = [current EXCEPT ![editor] = NoPicture]
    /\ UNCHANGED <<content, editor, entered, view, reports, exactPaste, known>>

Advance(u, from, to) ==
    /\ picture[u].at = from /\ ~picture[u].aborted
    /\ picture' = [picture EXCEPT ![u].at = to]
    /\ UNCHANGED <<content, editor, entered, view, reports, exactPaste, known, current>>

PolicyIsValid(u) == Advance(u, "policy", "transport")
FileIsStored(u)  == Advance(u, "transport", "register")

\* The finally of upload.
UploadEnds(u, at) ==
    /\ picture' = [picture EXCEPT ![u].at = at]
    /\ current' = [e \in Editors |-> IF current[e] = u THEN NoPicture ELSE current[e]]

UploadFails(u) ==
    /\ picture[u].at \in {"policy", "transport", "register"}
    /\ UploadEnds(u, "idle")
    /\ UNCHANGED <<content, editor, entered, view, reports, exactPaste, known>>

\* visualValueRef follows when the content is shown.
InsertPicture(u) ==
    /\ picture[u].at = "register" /\ ~picture[u].aborted
    /\ content' = known[picture[u].for] \cup {u}
    /\ UploadEnds(u, "inserted")
    /\ UNCHANGED <<editor, entered, view, reports, exactPaste, known>>

VisualNext ==
    \/ ReportUpdate \/ ShowContent \/ EnterSource \/ EnterVisual \/ CancelUpload \/ RefuseFile
    \/ \E t \in Piece : TypeInView(t) \/ PasteDocument(t) \/ TypeInSource(t)
    \/ \E u \in Picture : ChoosePicture(u) \/ PolicyIsValid(u) \/ FileIsStored(u)
                         \/ UploadFails(u) \/ InsertPicture(u)

VisualSpec == VisualInit /\ [][VisualNext]_visualVars

-----------------------------------------------------------------------------

\* What one sees is what is saved: when the editor has nothing left to report and the
\* page nothing left to show it, the view has the content of the page, whatever was
\* typed, pasted and uploaded at once, by this editor or one that was closed
\* (reconcileMarkdownUpdate and the effect of [value]).
ViewShowsContent ==
    IsMounted /\ reports = <<>> /\ known[editor] = content => view = content
=============================================================================
