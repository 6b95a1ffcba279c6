--------------------------- MODULE MediaRegistry ---------------------------
(***************************************************************************)
(* Registering an uploaded file (media/service.go, repository_mysql.go)    *)
(* and the ids its row is inserted with (idgen/generator.go,               *)
(* redis_counter.go).  The database is autocommitted: every statement and  *)
(* every Redis command is a step, and requests for one file run at once.   *)
(*                                                                         *)
(* Ids come from a Redis counter that may be lost.  An insert that meets   *)
(* an id in use heals the counter from the greatest id and tries again.    *)
(***************************************************************************)
EXTENDS Integers, FiniteSets, FiniteSetsExt

CONSTANTS
    Uploader,           \* requests that register a file
    GfsFile, PublicKey,
    NoMedia,            \* no row answered
    Offset, Step,       \* the lane of this service
    Imported,           \* ids of rows that were there before, in any lane
    MaxInt,             \* stands for math.MaxInt64
    MaxHealingRetries, MaxPublicKeyRetries,
    MaxLosses           \* bound on the number of times the counter is lost

ASSUME MediaAssumption ==
    /\ Offset \in Nat \ {0} /\ Step \in Nat \ {0} /\ Offset <= Step
    /\ MaxInt \in Nat /\ Imported \subseteq 1..MaxInt
    /\ MaxHealingRetries \in Nat /\ MaxPublicKeyRetries \in Nat /\ MaxLosses \in Nat
    /\ IsFiniteSet(Uploader)

VARIABLES
    media,       \* the rows registered since
    idCounter,   \* idseq:media
    losses,      \* how often the counter was lost
    upload       \* the state of each request

mediaVars == <<media, idCounter, losses, upload>>

UploadState == {"find", "next", "insert", "max", "raise", "reread", "done", "failed", "exhausted"}

Finished == {"done", "failed", "exhausted"}

MediaInit ==
    /\ media = {}
    /\ idCounter = 0 /\ losses = 0
    /\ upload \in [Uploader ->
           {[at |-> "find", file |-> f, key |-> k, keys |-> 0, id |-> 0, heals |-> 0,
             floor |-> 0, answer |-> NoMedia] : f \in GfsFile, k \in PublicKey}]

UploadMoves(u, from, state) ==
    /\ upload[u].at = from
    /\ upload' = [upload EXCEPT ![u] = state]

UsedIds    == Imported \cup {row.id : row \in media}
RowsOf(file) == {row \in media : row.file = file}

-----------------------------------------------------------------------------

\* Register: a file that is known is answered at once.
FindByGFSFileID(u) ==
    /\ IF RowsOf(upload[u].file) = {}
       THEN UploadMoves(u, "find", [upload[u] EXCEPT !.at = "next"])
       ELSE \E row \in RowsOf(upload[u].file) :
                UploadMoves(u, "find", [upload[u] EXCEPT !.at = "done", !.answer = row])
    /\ UNCHANGED <<media, idCounter, losses>>

LaneId(raw) == Offset + (raw - 1) * Step

Overflows(raw) == raw - 1 > (MaxInt - Offset) \div Step

NextId(u) ==
    LET raw == idCounter + 1 IN
    /\ idCounter' = raw
    /\ IF Overflows(raw)
       THEN UploadMoves(u, "next", [upload[u] EXCEPT !.at = "failed"])
       ELSE UploadMoves(u, "next", [upload[u] EXCEPT !.at = "insert", !.id = LaneId(raw)])
    /\ UNCHANGED <<media, losses>>

\* The primary key is checked first, then the keys in the order of the table.
InsertConflict(u) ==
    CASE upload[u].id \in UsedIds                       -> "id"
      [] \E row \in media : row.key = upload[u].key     -> "key"
      [] RowsOf(upload[u].file) # {}                      -> "file"
      [] OTHER                                          -> "none"

NewRow(u) == [id |-> upload[u].id, file |-> upload[u].file, key |-> upload[u].key]

\* The row is stored; its answer may be lost.
InsertRow(u) ==
    /\ InsertConflict(u) = "none"
    /\ media' = media \cup {NewRow(u)}
    /\ \/ UploadMoves(u, "insert", [upload[u] EXCEPT !.at = "done", !.answer = NewRow(u)])
       \/ UploadMoves(u, "insert", [upload[u] EXCEPT !.at = "failed"])
    /\ UNCHANGED <<idCounter, losses>>

IdConflict(u) ==
    /\ InsertConflict(u) = "id"
    /\ IF upload[u].heals = MaxHealingRetries
       THEN UploadMoves(u, "insert", [upload[u] EXCEPT !.at = "exhausted"])
       ELSE UploadMoves(u, "insert", [upload[u] EXCEPT !.at = "max"])
    /\ UNCHANGED <<media, idCounter, losses>>

\* Another key is drawn, and the row is inserted under another id.
PublicKeyConflict(u) ==
    /\ InsertConflict(u) = "key"
    /\ IF upload[u].keys = MaxPublicKeyRetries
       THEN UploadMoves(u, "insert", [upload[u] EXCEPT !.at = "failed"])
       ELSE \E k \in PublicKey :
                UploadMoves(u, "insert", [upload[u] EXCEPT !.at = "next", !.key = k, !.keys = @ + 1, !.heals = 0])
    /\ UNCHANGED <<media, idCounter, losses>>

\* Variant: the request that lost answers what it wanted to store.
AnswerOwnRow(u) ==
    /\ InsertConflict(u) = "file"
    /\ UploadMoves(u, "insert", [upload[u] EXCEPT !.at = "done", !.answer = NewRow(u)])
    /\ UNCHANGED <<media, idCounter, losses>>

GFSFileIDConflict(u) ==
    /\ InsertConflict(u) = "file"
    /\ UploadMoves(u, "insert", [upload[u] EXCEPT !.at = "reread"])
    /\ UNCHANGED <<media, idCounter, losses>>

FindConcurrent(u) ==
    /\ \E row \in RowsOf(upload[u].file) :
           UploadMoves(u, "reread", [upload[u] EXCEPT !.at = "done", !.answer = row])
    /\ UNCHANGED <<media, idCounter, losses>>

-----------------------------------------------------------------------------

GreatestId == IF UsedIds = {} THEN 0 ELSE Max(UsedIds)

\* Variant: an id that is in the lane already is taken for the next one.
NotAfter(greatest) ==
    IF greatest < Offset THEN Offset ELSE greatest + ((Offset - greatest) % Step)

NextInLane(greatest) ==
    IF greatest < Offset THEN Offset ELSE greatest + Step - ((greatest - Offset) % Step)

\* Heal: the greatest id is read, and the counter raised in a step of its own.
ReadGreatestId(u) ==
    LET next == NextInLane(GreatestId) IN
    /\ IF next > MaxInt
       THEN UploadMoves(u, "max", [upload[u] EXCEPT !.at = "failed"])
       ELSE UploadMoves(u, "max", [upload[u] EXCEPT !.at = "raise", !.floor = (next - Offset) \div Step])
    /\ UNCHANGED <<media, idCounter, losses>>

Raise(floor) == IF floor > idCounter THEN floor ELSE idCounter

RaiseCounter(u) ==
    /\ UploadMoves(u, "raise", [upload[u] EXCEPT !.at = "next", !.heals = @ + 1])
    /\ idCounter' = Raise(upload[u].floor)
    /\ UNCHANGED <<media, losses>>

\* Redis is emptied or restored from nothing.
LoseCounter ==
    /\ losses < MaxLosses /\ losses' = losses + 1
    /\ idCounter' = 0
    /\ UNCHANGED <<media, upload>>

\* A call to Redis or to the database errs, and the request with it.
RegisterFails(u) ==
    /\ upload[u].at \in UploadState \ Finished
    /\ UploadMoves(u, upload[u].at, [upload[u] EXCEPT !.at = "failed"])
    /\ UNCHANGED <<media, idCounter, losses>>

MediaNext ==
    \/ \E u \in Uploader :
        \/ FindByGFSFileID(u) \/ NextId(u)
        \/ InsertRow(u) \/ IdConflict(u) \/ PublicKeyConflict(u) \/ GFSFileIDConflict(u) \/ FindConcurrent(u)
        \/ ReadGreatestId(u) \/ RaiseCounter(u) \/ RegisterFails(u)
    \/ LoseCounter

MediaSpec == MediaInit /\ [][MediaNext]_mediaVars

-----------------------------------------------------------------------------

\* A file has one medium: every request that succeeds for it, first, concurrent
\* or repeated after a lost answer, is answered with the same row, which is stored.
MediaIsRegisteredOnce ==
    \A u \in Uploader : upload[u].at = "done" => RowsOf(upload[u].file) = {upload[u].answer}

\* Rows that were there before the counter was are one more loss of it.
Setbacks == losses + (IF Imported = {} THEN 0 ELSE 1)

\* Losing the counter costs no request its insert: one conflict for each loss, and
\* one for each request that stored an id it held when MAX(id) was read.
HealingSuffices ==
    Setbacks + Cardinality(Uploader) <= MaxHealingRetries + 1 =>
        \A u \in Uploader : upload[u].at # "exhausted"
=============================================================================
