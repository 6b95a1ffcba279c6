--------------------------- MODULE AdminPageProofs --------------------------
(***************************************************************************)
(* Proofs about the machines of the administration's pages, for any number *)
(* of edits, tabs, editors, uploads, polls and requests.                   *)
(*                                                                         *)
(* Autosave: what the server has answered names a lock version and the     *)
(* document it had (Stored, AnswersAreStored).  A request of the present   *)
(* epoch whose generation is the present one carries the document that is  *)
(* shown (FlightsCarryTheDocument).                                        *)
(*                                                                         *)
(* AdminSession: being signed out begins a new generation, so a request of *)
(* the present one was made since (CallsAreOfTheirTime).                   *)
(*                                                                         *)
(* VisualEditor: what differs in the view from what was told of it is the  *)
(* last report that is due (ViewIsToldOf); a report that is taken for the  *)
(* echo of a paste is one, as no later document equals it (PasteWasFirst). *)
(*                                                                         *)
(* PublishingPage: the service only goes forward, so what it served is not *)
(* after what it has, and a poll that will be heard is not before the view *)
(* its effect was started with (AnswersAreInOrder).                        *)
(***************************************************************************)
EXTENDS Autosave, AdminSession, VisualEditor, PublishingPage, TLAPS

Kind   == {"saved", "dirty", "saving", "failed", "conflict", "invalid"}
Flight == [epoch : Nat, generation : Nat, lock : Nat \ {0}, document : Nat,
           answer : {"none", "success", "failure", "conflict"}]

\* The server had this document at this lock version.
Stored(history, lock, doc) == lock \in 1..Len(history) /\ history[lock] = doc

AutosaveTypeOK ==
    /\ stored \in Seq(Nat) /\ stored # <<>>
    /\ edits \in Nat /\ document \in Nat /\ generation \in Nat /\ epoch \in Nat
    /\ lockVersion \in Nat \ {0}
    /\ flights \subseteq Flight

AnswersAreStored ==
    /\ initial.lock \in Nat /\ Stored(stored, initial.lock, initial.document)
    /\ refetch \notin {NoDetail, Asked} => Stored(stored, refetch.lock, refetch.document)
    /\ reload \notin {NoDetail, Asked} => Stored(stored, reload.lock, reload.document)
    /\ \A f \in flights : f.answer = "success" => Stored(stored, f.lock + 1, f.document)

FlightsCarryTheDocument ==
    \A f \in flights :
        /\ f.epoch <= epoch
        /\ f.epoch = epoch => f.generation <= generation
        /\ f.epoch = epoch /\ f.generation = generation => f.document = document

SavedInv ==
    /\ AutosaveTypeOK
    /\ AnswersAreStored
    /\ FlightsCarryTheDocument
    /\ SavedMeansStored

-----------------------------------------------------------------------------

LEMMA StoredStays ==
    ASSUME NEW history \in Seq(Nat), NEW doc \in Nat
    PROVE  \A lock, d : Stored(history, lock, d) => Stored(Append(history, doc), lock, d)
BY DEF Stored

LEMMA DetailIsStored ==
    ASSUME stored \in Seq(Nat), stored # <<>>
    PROVE  /\ Detail.lock \in Nat \ {0} /\ Detail.document \in Nat
           /\ Stored(stored, Detail.lock, Detail.document)
<1>1. Len(stored) \in 1..Len(stored) /\ stored[Len(stored)] \in Nat
  OBVIOUS
<1> QED BY <1>1 DEF Detail, Stored

LEMMA StoredIsTyped ==
    ASSUME stored \in Seq(Nat), NEW lock, NEW doc, Stored(stored, lock, doc)
    PROVE  lock \in Nat \ {0} /\ doc \in Nat
BY DEF Stored

LEMMA AutosaveStarts == AutosaveInit => SavedInv
<1> SUFFICES ASSUME AutosaveInit PROVE SavedInv
  OBVIOUS
<1>1. stored \in Seq(Nat) /\ stored # <<>> /\ Len(stored) = 1 /\ stored[1] = 0
  BY DEF AutosaveInit
<1>2. AutosaveTypeOK /\ FlightsCarryTheDocument /\ SavedMeansStored
  BY <1>1 DEF AutosaveInit, AutosaveTypeOK, FlightsCarryTheDocument, SavedMeansStored
<1>3. AnswersAreStored
  BY <1>1, DetailIsStored DEF AutosaveInit, AnswersAreStored
<1> QED BY <1>2, <1>3 DEF SavedInv

-----------------------------------------------------------------------------

\* The editor's own steps: an edit is a new generation, and a request carries
\* the present one.
LEMMA EditorKeepsInv ==
    ASSUME SavedInv, Edit \/ Retry \/ Run
    PROVE  SavedInv'
<1> USE DEF SavedInv
<1>1. UNCHANGED <<stored, epoch, lockVersion, initial, refetch, reload>>
  BY DEF Edit, Retry, Run, editorState
<1>2. CASE Edit
  <2> USE <1>2 DEF Edit
  <2>1. AutosaveTypeOK'
    BY <1>1 DEF AutosaveTypeOK
  <2>2. AnswersAreStored' /\ SavedMeansStored'
    BY <1>1 DEF AnswersAreStored, SavedMeansStored
  <2>3. FlightsCarryTheDocument'
    BY <1>1 DEF FlightsCarryTheDocument, AutosaveTypeOK, Flight
  <2> QED BY <2>1, <2>2, <2>3
<1>3. CASE Retry
  BY <1>1, <1>3 DEF Retry, editorState, AutosaveTypeOK, AnswersAreStored, FlightsCarryTheDocument, SavedMeansStored
<1>4. CASE Run
  <2> DEFINE sent == [epoch |-> epoch, generation |-> generation, lock |-> lockVersion,
                      document |-> document, answer |-> "none"]
  <2>1. UNCHANGED <<edits, document, generation>> /\ flights' \subseteq flights \cup {sent}
    BY <1>4 DEF Run
  <2>2. sent \in Flight
    BY DEF AutosaveTypeOK, Flight
  <2>3. kind' = "saved" => kind = "saved"
    BY <1>4 DEF Run
  <2>4. AutosaveTypeOK'
    BY <1>1, <2>1, <2>2 DEF AutosaveTypeOK
  <2>5. AnswersAreStored' /\ FlightsCarryTheDocument' /\ SavedMeansStored'
    BY <1>1, <2>1, <2>3 DEF AnswersAreStored, FlightsCarryTheDocument, SavedMeansStored, AutosaveTypeOK
  <2> QED BY <2>4, <2>5
<1> QED BY <1>2, <1>3, <1>4

\* What is added to the history disturbs nothing that was stored before.
LEMMA AppendKeepsStored ==
    ASSUME SavedInv, NEW doc \in Nat, stored' = Append(stored, doc),
           UNCHANGED <<editorState, initial, refetch, reload>>
    PROVE  /\ stored' \in Seq(Nat) /\ stored' # <<>>
           /\ Len(stored') = Len(stored) + 1 /\ stored'[Len(stored) + 1] = doc
           /\ SavedMeansStored'
           /\ initial'.lock \in Nat /\ Stored(stored', initial'.lock, initial'.document)
           /\ refetch' \notin {NoDetail, Asked} => Stored(stored', refetch'.lock, refetch'.document)
           /\ reload' \notin {NoDetail, Asked} => Stored(stored', reload'.lock, reload'.document)
           /\ \A f \in flights : f.answer = "success" => Stored(stored', f.lock + 1, f.document)
<1>1. /\ stored \in Seq(Nat) /\ stored' \in Seq(Nat) /\ stored' # <<>>
      /\ Len(stored') = Len(stored) + 1 /\ stored'[Len(stored) + 1] = doc
  BY DEF SavedInv, AutosaveTypeOK
<1>2. \A lock, d : Stored(stored, lock, d) => Stored(stored', lock, d)
  BY <1>1, StoredStays
<1>3. SavedMeansStored'
  BY <1>2 DEF SavedInv, SavedMeansStored, Stored, editorState
<1> QED BY <1>1, <1>2, <1>3 DEF SavedInv, AnswersAreStored

LEMMA ServeKeepsInv ==
    ASSUME SavedInv, NEW f \in flights, ServeSave(f)
    PROVE  SavedInv'
<1> USE DEF SavedInv, ServeSave
<1>1. PICK answer \in {"success", "failure", "conflict"} :
        /\ flights' = (flights \ {f}) \cup {[f EXCEPT !.answer = answer]}
        /\ \/ stored' = Append(stored, f.document) /\ f.lock = Len(stored)
           \/ UNCHANGED stored /\ answer # "success"
  OBVIOUS
<1> DEFINE g == [f EXCEPT !.answer = answer]
<1>2. f \in Flight
  BY DEF AutosaveTypeOK
<1>3. /\ g \in Flight /\ g.answer = answer /\ g.epoch = f.epoch /\ g.generation = f.generation
      /\ g.lock = f.lock /\ g.document = f.document
  BY <1>2 DEF Flight
<1> HIDE DEF g
<1>4. UNCHANGED <<edits, document, generation, kind, lockVersion, epoch, initial, refetch, reload>>
  BY DEF editorState, editorRefs
<1>5. FlightsCarryTheDocument'
  BY <1>1, <1>3, <1>4 DEF FlightsCarryTheDocument, g
<1>6. CASE UNCHANGED stored /\ answer # "success"
  BY <1>1, <1>3, <1>4, <1>5, <1>6 DEF AutosaveTypeOK, AnswersAreStored, SavedMeansStored, g
<1>7. CASE stored' = Append(stored, f.document) /\ f.lock = Len(stored)
  <2>1. f.document \in Nat /\ UNCHANGED <<editorState, initial, refetch, reload>>
    BY <1>2 DEF Flight
  <2>2. /\ stored' \in Seq(Nat) /\ stored' # <<>> /\ SavedMeansStored'
        /\ Stored(stored', f.lock + 1, f.document)
    BY <1>7, <2>1, AppendKeepsStored DEF Stored, AutosaveTypeOK
  <2>3. AutosaveTypeOK'
    BY <1>1, <1>3, <1>4, <2>2 DEF AutosaveTypeOK, g
  <2>4. \A h \in flights' : h.answer = "success" => Stored(stored', h.lock + 1, h.document)
    BY <1>1, <1>3, <1>7, <2>1, <2>2, AppendKeepsStored DEF g
  <2>5. AnswersAreStored'
    BY <1>7, <2>1, <2>4, AppendKeepsStored DEF AnswersAreStored
  <2> QED BY <1>5, <2>2, <2>3, <2>5
<1> QED BY <1>1, <1>6, <1>7

LEMMA OtherTabKeepsInv ==
    ASSUME SavedInv, OtherTabSaves
    PROVE  SavedInv'
<1> USE DEF OtherTabSaves
<1>1. edits + 1 \in Nat /\ stored' = Append(stored, edits + 1)
  BY DEF SavedInv, AutosaveTypeOK
<1>2. /\ UNCHANGED <<editorState, initial, refetch, reload>>
      /\ UNCHANGED <<document, generation, kind, lockVersion, epoch, flights>>
  BY DEF editorState, editorRefs
<1>3. AutosaveTypeOK'
  BY <1>1, <1>2, AppendKeepsStored DEF SavedInv, AutosaveTypeOK
<1>4. AnswersAreStored' /\ SavedMeansStored'
  BY <1>1, <1>2, AppendKeepsStored DEF AnswersAreStored
<1>5. FlightsCarryTheDocument'
  BY <1>2 DEF SavedInv, FlightsCarryTheDocument
<1> QED BY <1>3, <1>4, <1>5 DEF SavedInv

\* "Saved" is shown when the answer is that of the present generation.
LEMMA AnswerKeepsInv ==
    ASSUME SavedInv, NEW f \in flights, SaveAnswered(f) \/ AbortedInTime(f)
    PROVE  SavedInv'
<1> USE DEF SavedInv
<1>1. /\ UNCHANGED <<stored, edits, document, generation, epoch, initial, refetch, reload>>
      /\ flights' = flights \ {f}
  BY DEF SaveAnswered, AbortedInTime, editorState, editorRefs
<1>2. f \in Flight
  BY DEF AutosaveTypeOK
<1>3. AnswersAreStored' /\ FlightsCarryTheDocument'
  BY <1>1 DEF AnswersAreStored, FlightsCarryTheDocument
<1>4. lockVersion' \in Nat \ {0} /\ SavedMeansStored'
  <2>1. CASE SaveAnswered(f) /\ f.epoch = epoch
    <3>1. Reduce(f)
      BY <2>1 DEF SaveAnswered
    <3>2. CASE f.answer = "success"
      <4>1. lockVersion' = f.lock + 1 /\ (kind' = "saved" => f.generation = generation)
        BY <3>1, <3>2 DEF Reduce, SavedThisGeneration
      <4>2. Stored(stored, f.lock + 1, f.document)
        BY <3>2 DEF AnswersAreStored
      <4>3. kind' = "saved" => f.document = document
        BY <4>1, <2>1 DEF FlightsCarryTheDocument
      <4>4. f.lock + 1 \in Nat \ {0}
        BY <1>2 DEF Flight
      <4> QED BY <1>1, <4>1, <4>2, <4>3, <4>4 DEF SavedMeansStored, Stored
    <3>3. CASE f.answer # "success"
      <4>1. UNCHANGED lockVersion /\ kind' \in {"failed", "conflict"}
        BY <2>1, <3>1, <3>3, <1>2 DEF Reduce, Flight, SaveAnswered
      <4> QED BY <4>1 DEF AutosaveTypeOK, SavedMeansStored
    <3> QED BY <3>2, <3>3
  <2>2. CASE ~(SaveAnswered(f) /\ f.epoch = epoch)
    <3>1. UNCHANGED <<lockVersion, kind>>
      BY <2>2 DEF SaveAnswered, AbortedInTime, editorState
    <3> QED BY <1>1, <3>1 DEF AutosaveTypeOK, SavedMeansStored
  <2> QED BY <2>1, <2>2
<1>5. AutosaveTypeOK'
  BY <1>1, <1>4 DEF AutosaveTypeOK
<1> QED BY <1>3, <1>4, <1>5

\* A reload is a new generation, a refetch that differs a new epoch.
LEMMA ReloadKeepsInv ==
    ASSUME SavedInv, AskReload \/ ServeReload \/ Reload \/ ReloadFails
    PROVE  SavedInv'
<1> USE DEF SavedInv
<1>1. UNCHANGED <<stored, edits, epoch, flights, initial, refetch>>
  BY DEF AskReload, ServeReload, Reload, ReloadFails, editorRefs
<1>2. stored \in Seq(Nat) /\ stored # <<>>
  BY DEF AutosaveTypeOK
<1>3. CASE AskReload \/ ServeReload \/ ReloadFails
  <2>1. UNCHANGED <<document, generation, lockVersion>> /\ (kind' = "saved" => kind = "saved")
    BY <1>3 DEF AskReload, ServeReload, ReloadFails, editorState
  <2>2. reload' \in {NoDetail, Asked, Detail}
    BY <1>3 DEF AskReload, ServeReload, ReloadFails
  <2>3. reload' \notin {NoDetail, Asked} => Stored(stored, reload'.lock, reload'.document)
    BY <1>2, <2>2, DetailIsStored
  <2> QED BY <1>1, <2>1, <2>3 DEF AutosaveTypeOK, AnswersAreStored, FlightsCarryTheDocument, SavedMeansStored
<1>4. CASE Reload
  <2> USE <1>4 DEF Reload
  <2>1. Stored(stored, reload.lock, reload.document)
    BY DEF AnswersAreStored
  <2>2. reload.lock \in Nat \ {0} /\ reload.document \in Nat
    BY <1>2, <2>1, StoredIsTyped
  <2>3. AutosaveTypeOK'
    BY <1>1, <2>2 DEF AutosaveTypeOK
  <2>4. AnswersAreStored' /\ SavedMeansStored'
    BY <1>1, <2>1 DEF AnswersAreStored, SavedMeansStored, Stored
  <2>5. FlightsCarryTheDocument'
    BY <1>1 DEF FlightsCarryTheDocument, AutosaveTypeOK, Flight
  <2> QED BY <2>3, <2>4, <2>5
<1> QED BY <1>3, <1>4

LEMMA RefetchKeepsInv ==
    ASSUME SavedInv, AskRefetch \/ ServeRefetch \/ Refetched
    PROVE  SavedInv'
<1> USE DEF SavedInv
<1>1. UNCHANGED <<stored, edits, flights>>
  BY DEF AskRefetch, ServeRefetch, Refetched
<1>2. stored \in Seq(Nat) /\ stored # <<>>
  BY DEF AutosaveTypeOK
<1>3. CASE AskRefetch \/ ServeRefetch
  <2>1. UNCHANGED <<document, generation, lockVersion, kind, epoch, initial, reload>>
    BY <1>3 DEF AskRefetch, ServeRefetch, editorState, editorRefs
  <2>2. refetch' \in {NoDetail, Asked, Detail}
    BY <1>3 DEF AskRefetch, ServeRefetch
  <2>3. refetch' \notin {NoDetail, Asked} => Stored(stored, refetch'.lock, refetch'.document)
    BY <1>2, <2>2, DetailIsStored
  <2> QED BY <1>1, <2>1, <2>3 DEF AutosaveTypeOK, AnswersAreStored, FlightsCarryTheDocument, SavedMeansStored
<1>4. CASE Refetched
  <2> USE <1>4 DEF Refetched
  <2>1. Stored(stored, refetch.lock, refetch.document)
    BY DEF AnswersAreStored
  <2>2. refetch.lock \in Nat \ {0} /\ refetch.document \in Nat
    BY <1>2, <2>1, StoredIsTyped
  <2>3. CASE refetch = initial
    <3>1. UNCHANGED <<document, generation, lockVersion, kind, epoch, reload>>
      BY <2>3 DEF editorState, editorRefs
    <3> QED BY <1>1, <2>1, <2>2, <3>1 DEF AutosaveTypeOK, AnswersAreStored, FlightsCarryTheDocument, SavedMeansStored
  <2>4. CASE refetch # initial
    <3>1. AutosaveTypeOK'
      BY <1>1, <2>2, <2>4 DEF AutosaveTypeOK
    <3>2. AnswersAreStored' /\ SavedMeansStored'
      BY <1>1, <2>1, <2>2, <2>4 DEF AnswersAreStored, SavedMeansStored, Stored
    <3>3. FlightsCarryTheDocument'
      BY <1>1, <2>4 DEF FlightsCarryTheDocument, AutosaveTypeOK, Flight
    <3> QED BY <3>1, <3>2, <3>3
  <2> QED BY <2>3, <2>4
<1> QED BY <1>3, <1>4

LEMMA AutosaveStep == SavedInv /\ [AutosaveNext]_autosaveVars => SavedInv'
<1> SUFFICES ASSUME SavedInv, [AutosaveNext]_autosaveVars PROVE SavedInv'
  OBVIOUS
<1>1. CASE UNCHANGED autosaveVars
  BY <1>1 DEF autosaveVars, editorState, editorRefs, SavedInv, AutosaveTypeOK, AnswersAreStored,
     FlightsCarryTheDocument, SavedMeansStored
<1>2. ASSUME NEW f \in flights, ServeSave(f) \/ SaveAnswered(f) \/ AbortedInTime(f) PROVE SavedInv'
  BY <1>2, ServeKeepsInv, AnswerKeepsInv
<1>3. CASE Edit \/ Retry \/ Run \/ OtherTabSaves
  BY <1>3, EditorKeepsInv, OtherTabKeepsInv
<1>4. CASE AskReload \/ ServeReload \/ Reload \/ ReloadFails \/ AskRefetch \/ ServeRefetch \/ Refetched
  BY <1>4, ReloadKeepsInv, RefetchKeepsInv
<1> QED BY <1>1, <1>2, <1>3, <1>4 DEF AutosaveNext

-----------------------------------------------------------------------------

THEOREM AutosaveInvariance == AutosaveSpec => []SavedInv
BY AutosaveStarts, AutosaveStep, PTL DEF AutosaveSpec

\* useAutosave.ts: when the editor shows "saved", the server stored what it shows at
\* the lock version it will send, whatever was typed, reloaded or refetched while
\* requests were under way, for any number of edits and of saves by other tabs.
THEOREM SavedStaysStored == AutosaveSpec => []SavedMeansStored
<1>1. SavedInv => SavedMeansStored
  BY DEF SavedInv
<1> QED BY <1>1, AutosaveInvariance, PTL

-----------------------------------------------------------------------------

PageCall == [kind : {"current", "login", "logout", "query"}, number : Nat, generation : Nat,
             since : Nat, answer : {"none", "ok", "unauthenticated", "failure"}]

CallsAreOfTheirTime ==
    /\ bootstrapGeneration \in Nat /\ askedSoFar \in Nat /\ signOuts \in Nat
    /\ calls \subseteq PageCall
    /\ \A c \in calls :
          /\ c.generation <= bootstrapGeneration
          /\ c.generation = bootstrapGeneration => c.since = signOuts

-----------------------------------------------------------------------------

LEMMA SessionStarts == SessionInit => CallsAreOfTheirTime
BY DEF SessionInit, CallsAreOfTheirTime, PageCall

\* A request that is made takes the generation and the time of now.
LEMMA AskingKeepsTime ==
    ASSUME CallsAreOfTheirTime, AskAgain \/ SignIn \/ SignOut \/ Query
    PROVE  CallsAreOfTheirTime'
<1>1. CASE AskAgain
  BY <1>1 DEF AskAgain, Ask, Call, CallsAreOfTheirTime, PageCall
<1>2. CASE SignIn \/ SignOut \/ Query
  BY <1>2 DEF SignIn, SignOut, Query, Ask, Call, sessionRefs, CallsAreOfTheirTime, PageCall
<1> QED BY <1>1, <1>2

\* An answer ends a request; if it signs out, the generations so far are over.
LEMMA AnsweringKeepsTime ==
    ASSUME CallsAreOfTheirTime, NEW c \in calls, ServeCall(c) \/ CallAnswered(c) \/ CallAborted(c)
    PROVE  CallsAreOfTheirTime'
<1>1. CASE ServeCall(c)
  <2>1. PICK answer \in {"ok", "unauthenticated", "failure"} :
            calls' = (calls \ {c}) \cup {[c EXCEPT !.answer = answer]}
    BY <1>1 DEF ServeCall
  <2>2. UNCHANGED <<bootstrapGeneration, askedSoFar, signOuts>>
    BY <1>1 DEF ServeCall, sessionRefs
  <2>3. /\ [c EXCEPT !.answer = answer] \in PageCall
        /\ [c EXCEPT !.answer = answer].generation = c.generation
        /\ [c EXCEPT !.answer = answer].since = c.since
    BY DEF CallsAreOfTheirTime, PageCall
  <2> QED BY <2>1, <2>2, <2>3 DEF CallsAreOfTheirTime
<1>2. CASE CallAnswered(c) \/ CallAborted(c)
  <2>1. calls' = calls \ {c}
    BY <1>2 DEF CallAnswered, CallAborted
  <2>2. /\ UNCHANGED askedSoFar
        /\ \/ UNCHANGED <<bootstrapGeneration, signOuts>>
           \/ bootstrapGeneration' = bootstrapGeneration + 1 /\ signOuts' = signOuts + 1
    BY <1>2 DEF CallAnswered, CallAborted, Unauthenticated, BootstrapAnswered, LoginAnswered,
       LogoutAnswered, QueryAnswered, ExpireSession, Ignore
  <2> QED BY <2>1, <2>2 DEF CallsAreOfTheirTime, PageCall
<1> QED BY <1>1, <1>2

LEMMA SessionStep == CallsAreOfTheirTime /\ [SessionNext]_sessionVars => CallsAreOfTheirTime'
<1> SUFFICES ASSUME CallsAreOfTheirTime, [SessionNext]_sessionVars PROVE CallsAreOfTheirTime'
  OBVIOUS
<1>1. CASE CookieExpires \/ UNCHANGED sessionVars
  BY <1>1 DEF CookieExpires, sessionVars, sessionRefs, CallsAreOfTheirTime
<1>2. CASE AskAgain \/ SignIn \/ SignOut \/ Query
  BY <1>2, AskingKeepsTime
<1>3. ASSUME NEW c \in calls, ServeCall(c) \/ CallAnswered(c) \/ CallAborted(c) PROVE CallsAreOfTheirTime'
  BY <1>3, AnsweringKeepsTime
<1> QED BY <1>1, <1>2, <1>3 DEF SessionNext

\* Only the answer of a question or a login of the present generation signs in.
LEMMA SigningInIsOfNow ==
    ASSUME CallsAreOfTheirTime, [SessionNext]_sessionVars, NEW c \in calls \ calls',
           page # "authenticated", page' = "authenticated"
    PROVE  c.since = signOuts
<1>1. PICK d \in calls : CallAnswered(d)
  BY DEF SessionNext, sessionVars, AskAgain, SignIn, SignOut, Query, CookieExpires, ServeCall, CallAborted, Ignore
<1>2. c = d
  BY <1>1 DEF CallAnswered
<1>3. d.generation = bootstrapGeneration
  BY <1>1 DEF CallAnswered, Unauthenticated, BootstrapAnswered, LoginAnswered, LogoutAnswered,
     QueryAnswered, ExpireSession, Ignore, BootstrapHolds, ActionHolds
<1> QED BY <1>2, <1>3 DEF CallsAreOfTheirTime

\* AuthProvider.tsx: no answer to what was asked before the page showed that nobody is
\* signed in brings the administrator back, for any number of requests.
THEOREM SignOutsStayFinal == SessionSpec => SignOutIsFinal
<1>1. CallsAreOfTheirTime /\ [SessionNext]_sessionVars =>
        [\A c \in calls \ calls' :
            page # "authenticated" /\ page' = "authenticated" => c.since = signOuts]_sessionVars
  BY SigningInIsOfNow
<1> QED BY <1>1, SessionStarts, SessionStep, PTL DEF SessionSpec, SignOutIsFinal

-----------------------------------------------------------------------------

VisualText == SUBSET (Piece \cup Picture)

UploadStage == {"idle", "policy", "transport", "register", "inserted"}

UploadState == [at : UploadStage, for : Editors \cup {SourceMode}, aborted : BOOLEAN]

VisualTypeOK ==
    /\ content \in VisualText /\ view \in VisualText /\ known \in [Editors -> VisualText]
    /\ editor \in Editors \cup {SourceMode} /\ entered \in Editors
    /\ reports \in Seq(VisualText)
    /\ picture \in [Picture -> UploadState]
    /\ \A u \in Picture : picture[u].at # "idle" => picture[u].for \in Editors

\* What differs from what was told is still to be reported, and will be heard.
ViewIsToldOf ==
    \/ view = known[editor]
    \/ reports # <<>> /\ reports[Len(reports)] = view /\ exactPaste # view

\* Markdown is pasted as it is into an empty document only, and what is typed, pasted
\* or inserted later is never empty again.
PasteWasFirst ==
    /\ exactPaste # NoPaste => view # {} /\ content # {} /\ \E t \in Piece : exactPaste = {t}
    /\ \A i \in 1..Len(reports) : reports[i] # {}

VisualInv ==
    /\ VisualTypeOK
    /\ IsMounted => ViewIsToldOf /\ PasteWasFirst
    /\ ~IsMounted => reports = <<>> /\ exactPaste = NoPaste

LEMMA VisualStarts == VisualInit => VisualInv
<1> SUFFICES ASSUME VisualInit PROVE VisualInv
  OBVIOUS
<1>1. 1 \in Editors /\ {} \in VisualText /\ SourceMode \notin Editors
  BY VisualAssumption DEF Editors, VisualText
<1>2. NotUploading \in UploadState /\ NotUploading.at = "idle"
  BY DEF NotUploading, UploadState, UploadStage
<1>3. picture \in [Picture -> UploadState] /\ \A u \in Picture : picture[u].at = "idle"
  BY <1>2 DEF VisualInit
<1>4. known \in [Editors -> VisualText] /\ known[1] = {} /\ reports \in Seq(VisualText) /\ Len(reports) = 0
  BY <1>1 DEF VisualInit
<1>5. VisualTypeOK
  BY <1>1, <1>3, <1>4 DEF VisualInit, VisualTypeOK
<1>6. IsMounted /\ ViewIsToldOf /\ PasteWasFirst
  BY <1>1, <1>4 DEF VisualInit, IsMounted, ViewIsToldOf, PasteWasFirst
<1> QED BY <1>5, <1>6 DEF VisualInv

\* What the step of an upload leaves alone.
LEMMA UploadingKeepsTheView ==
    ASSUME VisualInv, UNCHANGED <<content, editor, entered, view, reports, exactPaste, known>>,
           picture' \in [Picture -> UploadState],
           \A u \in Picture : picture'[u].at # "idle" => picture'[u].for \in Editors
    PROVE  VisualInv'
BY DEF VisualInv, VisualTypeOK, ViewIsToldOf, PasteWasFirst, IsMounted

LEMMA UploadIsAborted ==
    ASSUME NEW state \in [at : UploadStage, for : Editors \cup {SourceMode}, aborted : BOOLEAN], NEW x
    PROVE  [state EXCEPT !.aborted = x] = [at |-> state.at, for |-> state.for, aborted |-> x]
OBVIOUS

LEMMA AbortingIsTyped ==
    ASSUME VisualTypeOK, NEW e \in Editors
    PROVE  /\ Aborting(e) \in [Picture -> UploadState]
           /\ \A u \in Picture : Aborting(e)[u].at = picture[u].at /\ Aborting(e)[u].for = picture[u].for
<1>1. \A u \in Picture : [picture[u] EXCEPT !.aborted = TRUE]
                           = [at |-> picture[u].at, for |-> picture[u].for, aborted |-> TRUE]
  <2> TAKE u \in Picture
  <2>1. picture[u] \in [at : UploadStage, for : Editors \cup {SourceMode}, aborted : BOOLEAN]
    BY DEF VisualTypeOK, UploadState
  <2> QED BY <2>1, UploadIsAborted
<1> QED BY <1>1 DEF VisualTypeOK, Aborting, UploadState

LEMMA MovingIsTyped ==
    ASSUME VisualTypeOK, NEW u \in Picture, NEW to \in UploadStage, picture' = [picture EXCEPT ![u].at = to],
           picture[u].at # "idle"
    PROVE  /\ picture' \in [Picture -> UploadState]
           /\ \A v \in Picture : picture'[v].at # "idle" => picture'[v].for \in Editors
<1>1. [picture[u] EXCEPT !.at = to] = [at |-> to, for |-> picture[u].for, aborted |-> picture[u].aborted]
  <2>1. picture[u] \in [at : UploadStage, for : Editors \cup {SourceMode}, aborted : BOOLEAN]
    BY DEF VisualTypeOK, UploadState
  <2> QED BY <2>1
<1>2. picture' = [picture EXCEPT ![u] = [at |-> to, for |-> picture[u].for, aborted |-> picture[u].aborted]]
  BY <1>1
<1> QED BY <1>2 DEF VisualTypeOK, UploadState

LEMMA VisualStep == VisualInv /\ [VisualNext]_visualVars => VisualInv'
<1> SUFFICES ASSUME VisualInv, [VisualNext]_visualVars PROVE VisualInv'
  OBVIOUS
<1>0. VisualTypeOK /\ SourceMode \notin Editors /\ {} \in VisualText
  BY VisualAssumption DEF VisualInv, Editors, VisualText
<1>1. CASE UNCHANGED visualVars
  BY <1>1 DEF visualVars, VisualInv, VisualTypeOK, ViewIsToldOf, PasteWasFirst, IsMounted
<1>2. ASSUME NEW t \in Piece, TypeInView(t) PROVE VisualInv'
  <2>1. /\ view' = view \cup {t} /\ t \notin view /\ reports' = Append(reports, view')
        /\ UNCHANGED <<content, editor, entered, exactPaste, known, picture>> /\ IsMounted
    BY <1>2 DEF TypeInView
  <2>2. view' \in VisualText /\ view' # {}
    BY <1>0, <2>1 DEF VisualTypeOK, VisualText
  <2>3. /\ reports' \in Seq(VisualText) /\ reports' # <<>> /\ reports'[Len(reports')] = view'
        /\ Len(reports') = Len(reports) + 1 /\ \A i \in 1..Len(reports) : reports'[i] = reports[i]
    BY <1>0, <2>1, <2>2 DEF VisualTypeOK
  <2>4. exactPaste # NoPaste => exactPaste # view'
    BY <2>1 DEF VisualInv, PasteWasFirst
  <2>5. NoPaste # view'
    BY <2>2, VisualAssumption DEF VisualText
  <2>6. PasteWasFirst'
    BY <1>0, <2>1, <2>2, <2>3 DEF VisualInv, VisualTypeOK, PasteWasFirst
  <2> QED BY <1>0, <2>1, <2>2, <2>3, <2>4, <2>5, <2>6 DEF VisualInv, VisualTypeOK, ViewIsToldOf, IsMounted
<1>3. ASSUME NEW t \in Piece, PasteDocument(t) PROVE VisualInv'
  <2>1. /\ view' = {t} /\ reports' = Append(reports, view') /\ exactPaste' = view' /\ content' = view'
        /\ known' = [known EXCEPT ![editor] = view']
        /\ UNCHANGED <<editor, entered, picture>> /\ IsMounted
    BY <1>3 DEF PasteDocument, Change
  <2>2. view' \in VisualText
    BY <2>1 DEF VisualText
  <2>3. /\ reports' \in Seq(VisualText) /\ Len(reports') = Len(reports) + 1 /\ reports'[Len(reports')] = view'
        /\ \A i \in 1..Len(reports) : reports'[i] = reports[i]
    BY <1>0, <2>1, <2>2 DEF VisualTypeOK
  <2>4. editor \in Editors /\ known' \in [Editors -> VisualText] /\ known'[editor] = view'
    BY <1>0, <2>1, <2>2 DEF VisualTypeOK, IsMounted
  <2>5. PasteWasFirst'
    BY <1>0, <2>1, <2>3 DEF VisualInv, VisualTypeOK, PasteWasFirst
  <2> QED BY <1>0, <2>1, <2>2, <2>3, <2>4, <2>5 DEF VisualInv, VisualTypeOK, ViewIsToldOf, IsMounted
<1>4. CASE ReportUpdate
  <2>1. /\ reports # <<>> /\ reports' = Tail(reports)
        /\ UNCHANGED <<editor, entered, view, picture>>
    BY <1>4 DEF ReportUpdate
  <2>2. IsMounted /\ editor \in Editors
    BY <1>0, <2>1 DEF VisualInv, VisualTypeOK, IsMounted
  <2>3. /\ Head(reports) = reports[1] /\ reports[1] \in VisualText /\ reports[1] # {}
        /\ Len(reports') = Len(reports) - 1 /\ reports' \in Seq(VisualText)
        /\ \A i \in 1..Len(reports') : reports'[i] = reports[i + 1]
        /\ reports' # <<>> => Len(reports') >= 1 /\ reports'[Len(reports')] = reports[Len(reports)]
        /\ reports' = <<>> => Len(reports) = 1
    <3>1. Len(reports) \in Nat \ {0}
      BY <1>0, <2>1 DEF VisualTypeOK
    <3>2. Head(reports) = reports[1] /\ reports[1] \in VisualText /\ Len(reports') = Len(reports) - 1
          /\ reports' \in Seq(VisualText) /\ \A i \in 1..Len(reports') : reports'[i] = reports[i + 1]
      BY <1>0, <2>1, <3>1 DEF VisualTypeOK
    <3> QED BY <2>2, <3>1, <3>2 DEF VisualInv, PasteWasFirst
  <2>4. \A i \in 1..Len(reports') : reports'[i] # {}
    <3>1. Len(reports) \in Nat /\ \A i \in 1..Len(reports) : reports[i] # {}
      BY <1>0, <2>2 DEF VisualInv, VisualTypeOK, PasteWasFirst
    <3>2. \A i \in 1..Len(reports') : i + 1 \in 1..Len(reports)
      BY <2>3, <3>1
    <3> QED BY <2>3, <3>1, <3>2
  <2>5. CASE ~IsHeard(Head(reports)) /\ UNCHANGED <<content, known, exactPaste>>
    <3>1. Head(reports) # view
      BY <2>5 DEF IsHeard
    <3>2. ViewIsToldOf'
      BY <2>1, <2>2, <2>3, <2>5, <3>1 DEF VisualInv, ViewIsToldOf
    <3>3. PasteWasFirst'
      BY <2>1, <2>2, <2>4, <2>5 DEF VisualInv, PasteWasFirst
    <3> QED BY <1>0, <2>1, <2>2, <2>3, <2>5, <3>2, <3>3 DEF VisualInv, VisualTypeOK, IsMounted
  <2>6. CASE /\ IsHeard(Head(reports)) /\ Head(reports) = exactPaste
             /\ exactPaste' = NoPaste /\ UNCHANGED <<content, known>>
    <3>1. view = known[editor]
      BY <2>2, <2>6 DEF VisualInv, ViewIsToldOf, IsHeard
    <3> QED BY <1>0, <2>1, <2>2, <2>3, <2>4, <2>6, <3>1
            DEF VisualInv, VisualTypeOK, ViewIsToldOf, PasteWasFirst, IsMounted
  <2>7. CASE /\ IsHeard(Head(reports))
             /\ exactPaste' = NoPaste /\ Change(Head(reports))
    <3>1. content' = view /\ known' = [known EXCEPT ![editor] = view] /\ view \in VisualText
      BY <1>0, <2>7 DEF IsHeard, Change, VisualTypeOK
    <3>2. known' \in [Editors -> VisualText] /\ known'[editor] = view
      BY <1>0, <2>2, <3>1 DEF VisualTypeOK
    <3> QED BY <1>0, <2>1, <2>2, <2>3, <2>4, <2>7, <3>1, <3>2
            DEF VisualInv, VisualTypeOK, ViewIsToldOf, PasteWasFirst, IsMounted
  <2> QED BY <1>4, <2>5, <2>6, <2>7 DEF ReportUpdate
<1>5. CASE ShowContent
  <2>1. IsMounted /\ editor \in Editors
    BY <1>0, <1>5 DEF ShowContent, VisualTypeOK, IsMounted
  <2>2. known' \in [Editors -> VisualText] /\ known'[editor] = content
    BY <1>0, <1>5, <2>1 DEF ShowContent, VisualTypeOK
  <2> QED BY <1>0, <1>5, <2>1, <2>2
          DEF ShowContent, VisualInv, VisualTypeOK, ViewIsToldOf, PasteWasFirst, IsMounted
<1>6. CASE EnterSource
  BY <1>0, <1>6 DEF EnterSource, VisualInv, VisualTypeOK, IsMounted
<1>7. ASSUME NEW t \in Piece, TypeInSource(t) PROVE VisualInv'
  BY <1>0, <1>7 DEF TypeInSource, VisualInv, VisualTypeOK, VisualText, IsMounted
<1>8. CASE EnterVisual
  <2>1. entered' \in Editors /\ editor' = entered' /\ reports = <<>> /\ exactPaste = NoPaste
    BY <1>0, <1>8, VisualAssumption DEF EnterVisual, VisualInv, VisualTypeOK, Editors, IsMounted
  <2>2. known' \in [Editors -> VisualText] /\ known'[editor'] = content
    BY <1>0, <1>8, <2>1 DEF EnterVisual, VisualTypeOK
  <2> QED BY <1>0, <1>8, <2>1, <2>2
          DEF EnterVisual, VisualInv, VisualTypeOK, ViewIsToldOf, PasteWasFirst, IsMounted
<1>9. CASE CancelUpload \/ RefuseFile
  <2>1. editor \in Editors /\ picture' = Aborting(editor)
        /\ UNCHANGED <<content, editor, entered, view, reports, exactPaste, known>>
    BY <1>0, <1>9 DEF CancelUpload, RefuseFile, VisualTypeOK, IsMounted
  <2> QED BY <1>0, <2>1, AbortingIsTyped, UploadingKeepsTheView DEF VisualTypeOK
<1>10. ASSUME NEW u \in Picture, ChoosePicture(u) PROVE VisualInv'
  <2>1. /\ editor \in Editors
        /\ picture' = [Aborting(editor) EXCEPT ![u] = [at |-> "policy", for |-> editor, aborted |-> FALSE]]
        /\ UNCHANGED <<content, editor, entered, view, reports, exactPaste, known>>
    BY <1>0, <1>10 DEF ChoosePicture, VisualTypeOK, IsMounted
  <2>2. /\ picture' \in [Picture -> UploadState]
        /\ \A v \in Picture : picture'[v].at # "idle" => picture'[v].for \in Editors
    <3>1. [at |-> "policy", for |-> editor, aborted |-> FALSE] \in UploadState
      BY <2>1 DEF UploadState, UploadStage
    <3>2. /\ Aborting(editor) \in [Picture -> UploadState]
          /\ \A v \in Picture : Aborting(editor)[v].at # "idle" => Aborting(editor)[v].for \in Editors
      BY <1>0, <2>1, AbortingIsTyped DEF VisualTypeOK
    <3> QED BY <2>1, <3>1, <3>2
  <2> QED BY <2>1, <2>2, UploadingKeepsTheView
<1>11. ASSUME NEW u \in Picture, PolicyIsValid(u) \/ FileIsStored(u) \/ UploadFails(u) PROVE VisualInv'
  <2>1. PICK to \in UploadStage : picture' = [picture EXCEPT ![u].at = to] /\ picture[u].at # "idle"
    <3>1. CASE PolicyIsValid(u)
      BY <3>1 DEF PolicyIsValid, Advance, UploadStage
    <3>2. CASE FileIsStored(u)
      BY <3>2 DEF FileIsStored, Advance, UploadStage
    <3>3. CASE UploadFails(u)
      BY <3>3 DEF UploadFails, UploadEnds, UploadStage
    <3> QED BY <1>11, <3>1, <3>2, <3>3
  <2>2. UNCHANGED <<content, editor, entered, view, reports, exactPaste, known>>
    BY <1>11 DEF PolicyIsValid, FileIsStored, UploadFails, Advance
  <2> QED BY <1>0, <2>1, <2>2, MovingIsTyped, UploadingKeepsTheView
<1>12. ASSUME NEW u \in Picture, InsertPicture(u) PROVE VisualInv'
  <2>1. /\ picture[u].at = "register" /\ content' = known[picture[u].for] \cup {u}
        /\ picture' = [picture EXCEPT ![u].at = "inserted"]
        /\ UNCHANGED <<editor, entered, view, reports, exactPaste, known>>
    BY <1>12 DEF InsertPicture, UploadEnds
  <2>2. content' \in VisualText /\ content' # {}
    BY <1>0, <2>1 DEF VisualTypeOK, VisualText
  <2>3. /\ picture' \in [Picture -> UploadState]
        /\ \A v \in Picture : picture'[v].at # "idle" => picture'[v].for \in Editors
    <3>1. "inserted" \in UploadStage /\ picture[u].at # "idle"
      BY <2>1 DEF UploadStage
    <3> QED BY <1>0, <2>1, <3>1, MovingIsTyped
  <2> QED BY <2>1, <2>2, <2>3 DEF VisualInv, VisualTypeOK, ViewIsToldOf, PasteWasFirst, IsMounted
<1> QED BY <1>1, <1>2, <1>3, <1>4, <1>5, <1>6, <1>7, <1>8, <1>9, <1>10, <1>11, <1>12 DEF VisualNext

\* MarkdownEditor.tsx and milkdown-adapter.ts: once the last report has been heard and the
\* page has rendered, one sees what is saved, for any number of edits, editors and uploads.
THEOREM EditorShowsWhatIsSaved == VisualSpec => []ViewShowsContent
<1>1. VisualInv => ViewShowsContent
  BY DEF VisualInv, ViewIsToldOf, ViewShowsContent
<1> QED BY <1>1, VisualStarts, VisualStep, PTL DEF VisualSpec

-----------------------------------------------------------------------------

NotAfter(v, w) == v = w \/ Precedes(v, w)

PageTypeOK ==
    /\ latestJob \in JobView /\ detail \in JobView /\ effect \in JobView
    /\ poll \in [Poll -> [served : JobView \cup {NoView, Unserved}, disposed : BOOLEAN]]
    /\ focus \in JobView \cup {NoView, Unserved}
    /\ retry \in JobView \cup {NoView, Unserved}

\* What the page has was served before now, and a poll that will be heard was
\* served since the effect that sent it.
AnswersAreInOrder ==
    /\ NotAfter(detail, latestJob) /\ NotAfter(effect, latestJob)
    /\ focus \in JobView => NotAfter(focus, latestJob)
    /\ retry \in JobView => NotAfter(retry, latestJob)
    /\ \A p \in Poll : poll[p].served \in JobView =>
          /\ NotAfter(poll[p].served, latestJob)
          /\ Heard(p) => NotAfter(effect, poll[p].served)

PageInv == PageTypeOK /\ AnswersAreInOrder

LEMMA NotAfterIsTransitive ==
    ASSUME NEW u \in JobView, NEW v \in JobView, NEW w \in JobView, NotAfter(u, v), NotAfter(v, w)
    PROVE  NotAfter(u, w)
BY PageAssumption DEF JobView, NotAfter, Precedes, Failed

LEMMA PageStarts == PageInit => PageInv
<1> SUFFICES ASSUME PageInit PROVE PageInv
  OBVIOUS
<1>1. CreatedJob(1) \in JobView
  BY PageAssumption DEF CreatedJob, JobView, Failed
<1>2. NoPoll \in [served : JobView \cup {NoView, Unserved}, disposed : BOOLEAN] /\ NoPoll.served \notin JobView
  BY PageAssumption DEF NoPoll
<1> QED BY <1>1, <1>2, PageAssumption
       DEF PageInit, PageInv, PageTypeOK, AnswersAreInOrder, NotAfter

\* The job of the service only goes forward.
LEMMA JobGoesForward ==
    ASSUME PageTypeOK, JobMoves \/ RetriedElsewhere \/ ServeRetry
    PROVE  latestJob' \in JobView /\ NotAfter(latestJob, latestJob')
<1>1. latestJob.attempt \in 1..MaxAttempts /\ latestJob.status \in 1..Failed
  BY DEF PageTypeOK, JobView
<1>2. CASE JobMoves
  <2>1. PICK status \in {latestJob.status + 1, Failed} : latestJob' = [latestJob EXCEPT !.status = status]
    BY <1>2 DEF JobMoves
  <2>2. latestJob.status < status /\ status \in 1..Failed
    BY <1>1, <1>2, <2>1, PageAssumption DEF JobMoves, isActiveJobStatus, Failed
  <2>3. latestJob' = [attempt |-> latestJob.attempt, status |-> status]
    BY <2>1 DEF PageTypeOK, JobView
  <2> QED BY <1>1, <2>2, <2>3 DEF JobView, NotAfter, Precedes
<1>3. CASE RetriedElsewhere \/ ServeRetry
  <2>1. latestJob' = CreatedJob(latestJob.attempt + 1) /\ latestJob.attempt < MaxAttempts
    BY <1>3 DEF RetriedElsewhere, ServeRetry, Retried
  <2> QED BY <1>1, <2>1, PageAssumption DEF CreatedJob, JobView, NotAfter, Precedes, Failed
<1> QED BY <1>2, <1>3

LEMMA PageStep == PageInv /\ [PageNext]_pageVars => PageInv'
<1> SUFFICES ASSUME PageInv, [PageNext]_pageVars PROVE PageInv'
  OBVIOUS
<1> USE DEF PageInv
<1>1. CASE UNCHANGED pageVars
  BY <1>1 DEF pageVars, PageTypeOK, AnswersAreInOrder, Heard
<1>2. CASE JobMoves \/ RetriedElsewhere \/ ServeRetry
  <2>1. latestJob' \in JobView /\ NotAfter(latestJob, latestJob')
    BY <1>2, JobGoesForward
  <2>2. UNCHANGED <<detail, effect, poll, focus>> /\ (retry' = retry \/ retry' = latestJob')
    BY <1>2 DEF JobMoves, RetriedElsewhere, ServeRetry
  <2>3. PageTypeOK'
    BY <2>1, <2>2 DEF PageTypeOK
  <2>4. \A v \in JobView : NotAfter(v, latestJob) => NotAfter(v, latestJob')
    BY <2>1, NotAfterIsTransitive DEF PageTypeOK
  <2>5. AnswersAreInOrder'
    BY <2>1, <2>2, <2>4 DEF PageTypeOK, AnswersAreInOrder, Heard, NotAfter
  <2> QED BY <2>3, <2>5
<1>3. CASE Rerender
  <2>1. PageTypeOK'
    BY <1>3 DEF Rerender, PageTypeOK, NoPoll
  <2>2. \A p \in Poll : poll'[p].served = poll[p].served /\ (poll[p].served \in JobView => poll'[p].disposed)
    BY <1>3, PageAssumption DEF Rerender, PageTypeOK, NoPoll
  <2> QED BY <1>3, <2>1, <2>2 DEF Rerender, PageTypeOK, AnswersAreInOrder, Heard
<1>4. ASSUME NEW p \in Poll, PollTimer(p) \/ ServePoll(p) \/ PollFails(p) PROVE PageInv'
  <2>1. UNCHANGED <<latestJob, detail, effect, focus, retry>>
    BY <1>4 DEF PollTimer, ServePoll, PollFails
  <2>2. PageTypeOK'
    <3>1. PICK r \in [served : JobView \cup {NoView, Unserved}, disposed : BOOLEAN] : poll' = [poll EXCEPT ![p] = r]
      <4>0. \A x : [poll[p] EXCEPT !.served = x] = [served |-> x, disposed |-> poll[p].disposed]
        BY DEF PageTypeOK
      <4>1. CASE PollTimer(p)
        <5>1. poll' = [poll EXCEPT ![p] = [served |-> Unserved, disposed |-> poll[p].disposed]]
          BY <4>0, <4>1 DEF PollTimer
        <5> QED BY <5>1 DEF PageTypeOK
      <4>2. CASE ServePoll(p)
        <5>1. poll' = [poll EXCEPT ![p] = [served |-> latestJob, disposed |-> poll[p].disposed]]
          BY <4>0, <4>2 DEF ServePoll
        <5> QED BY <5>1 DEF PageTypeOK
      <4>3. CASE PollFails(p)
        BY <4>3 DEF PollFails, NoPoll
      <4> QED BY <1>4, <4>1, <4>2, <4>3
    <3> QED BY <2>1, <3>1 DEF PageTypeOK
  <2>3. \A q \in Poll : \/ poll'[q] = poll[q]
                        \/ poll'[q].served \notin JobView
                        \/ poll'[q].served = latestJob
    BY <1>4, PageAssumption DEF PollTimer, ServePoll, PollFails, PageTypeOK, NoPoll
  <2>4. AnswersAreInOrder'
    BY <2>1, <2>3 DEF PageTypeOK, AnswersAreInOrder, Heard, NotAfter
  <2> QED BY <2>2, <2>4
<1>5. ASSUME NEW p \in Poll, AnswerPoll(p) PROVE PageInv'
  <2>1. poll[p].served \in JobView /\ (detail' = detail \/ detail' = poll[p].served)
    BY <1>5 DEF AnswerPoll, PageTypeOK
  <2>2. PageTypeOK'
    BY <1>5, <2>1 DEF AnswerPoll, PageTypeOK, NoPoll
  <2>3. \A q \in Poll : poll'[q] = poll[q] \/ poll'[q].served \notin JobView
    BY <1>5, PageAssumption DEF AnswerPoll, PageTypeOK, NoPoll
  <2> QED BY <1>5, <2>1, <2>2, <2>3 DEF AnswerPoll, AnswersAreInOrder, Heard
<1>6. CASE Focus \/ ServeFocus \/ AnswerFocus \/ AskRetry \/ AnswerRetry \/ RetryFails
  <2>1. UNCHANGED <<latestJob, effect, poll>>
    BY <1>6 DEF Focus, ServeFocus, AnswerFocus, AskRetry, AnswerRetry, RetryFails
  <2>2. /\ focus' = focus \/ focus' \in {NoView, Unserved, latestJob}
        /\ retry' = retry \/ retry' \in {NoView, Unserved}
        /\ detail' = detail \/ (detail' = focus /\ focus \in JobView) \/ (detail' = retry /\ retry \in JobView)
    BY <1>6 DEF Focus, ServeFocus, AnswerFocus, AskRetry, AnswerRetry, RetryFails, PageTypeOK
  <2>3. PageTypeOK'
    BY <2>1, <2>2 DEF PageTypeOK
  <2> QED BY <2>1, <2>2, <2>3, PageAssumption DEF PageTypeOK, AnswersAreInOrder, Heard, NotAfter
<1> QED BY <1>1, <1>2, <1>3, <1>4, <1>5, <1>6 DEF PageNext

\* PublishingPage.tsx: disposing of the polls of an effect is enough for no poll ever
\* to take the page back, for any number of polls, attempts and stages of a job.
THEOREM PollsStayForward == PageSpec => PollsGoForward
<1>1. PageInv /\ [PageNext]_pageVars =>
        [effect = detail /\ focus' = focus /\ retry' = retry
            => detail' = detail \/ Precedes(detail, detail')]_pageVars
  <2> SUFFICES ASSUME PageInv, PageNext, effect = detail, focus' = focus, retry' = retry, detail' # detail
               PROVE  Precedes(detail, detail')
    BY DEF pageVars
  <2>1. PICK p \in Poll : AnswerPoll(p)
    BY DEF PageNext, JobMoves, RetriedElsewhere, Rerender, Focus, ServeFocus, AnswerFocus, AskRetry,
       ServeRetry, AnswerRetry, RetryFails, PollTimer, ServePoll, PollFails
  <2>2. detail' = poll[p].served /\ poll[p].served \in JobView /\ Heard(p)
    BY <2>1 DEF AnswerPoll, PageInv, PageTypeOK
  <2> QED BY <2>2 DEF PageInv, AnswersAreInOrder, NotAfter
<1> QED BY <1>1, PageStarts, PageStep, PTL DEF PageSpec, PollsGoForward
=============================================================================
