---------------------------- MODULE GDriveUpload ----------------------------
(***************************************************************************)
(* One write handle of the extension and the Drive upload session behind   *)
(* it.  The stream the caller writes is the bytes 1, 2, 3, ...; the handle *)
(* holds the last `pending` of the first `offset + pending` of them        *)
(* (ChunkedUploadBuffer), sends a full chunk only when more bytes arrive,  *)
(* and publishes in Close(): the final chunk of the session, or one        *)
(* multipart request for a file that never outgrew one chunk.              *)
(*                                                                         *)
(* Drive and the network are external: a request may be lost, applied with *)
(* its reply lost, or applied after the client gave up on it.              *)
(***************************************************************************)
EXTENDS UploadPlan, FiniteSets

CONSTANTS
    ChunkRequested,  \* the setting gdrive_upload_chunk_bytes
    MaxAttempts,     \* kMaxAttempts of ExecuteWithRetry
    WriteSizes,      \* the sizes a caller passes to Write()
    MaxBytes,        \* bound: bytes written through the handle
    MaxLate          \* bound: requests the network still holds after a timeout

ASSUME UploadAssumption ==
    /\ ChunkRequested \in Nat
    /\ MaxAttempts \in Nat \ {0}
    /\ WriteSizes \subseteq Nat \ {0}
    /\ MaxBytes \in Nat
    /\ MaxLate \in Nat

VARIABLES
    is_write, write_failed,     \* GDriveFileHandle
    upload_session,             \* the handle knows a session URI
    overwrite,                  \* meta.id names an existing file
    reserved,                   \* a create carries a pre-generated file id
    offset, pending, sent_any,  \* ChunkedUploadBuffer
    position,                   \* bytes of the Write() calls that returned
    asked, left,                \* the Write() in progress: its size, what is left
    outcome,                    \* what Close() told the caller
    final,                      \* the chunk being sent is the last one
    chunk_state, next_kind,     \* ChunkUploadState; SEND or ASK_STATUS
    attempt,                    \* requests made for the multipart upload, or
                                \* before by the initiation in progress
    pc,                         \* where the handle's thread is
    wire,                       \* the request in flight
    reply,                      \* the answer the thread is about to look at
    late,                       \* requests the client gave up on, still on the way
    session,                    \* Drive's side of the session the handle learnt of
    orphans,                    \* history: sessions Drive opened whose URI the
                                \* handle never learnt
    published,                  \* what Drive shows under the name
    cancelled,                  \* CancelUpload was issued for the session
    broken                      \* history: a Write() threw, or the handle was dropped

handleVars == <<is_write, write_failed, upload_session, overwrite, reserved>>
bufferVars == <<offset, pending, sent_any>>
callVars   == <<position, asked, left, outcome, broken>>
chunkVars  == <<final, chunk_state, next_kind, attempt>>
netVars    == <<wire, reply, late>>
driveVars  == <<session, orphans, published, cancelled>>
vars == <<handleVars, bufferVars, callVars, chunkVars, netVars, driveVars, pc>>

chunk == NormalizeDriveChunkSize(ChunkRequested)

(***************************************************************************)
(* Requests.  `from` is the offset the Content-Range claims, `first` the   *)
(* place in the stream of the first byte the request really carries, `len` *)
(* how many it carries; `total` says whether it names the total size.      *)
(***************************************************************************)
Request(kind, from, first, len, total) ==
    [kind |-> kind, from |-> from, first |-> first, len |-> len, total |-> total]

NoRequest == Request("None", 0, 0, 0, FALSE)

Requests ==
    [kind : {"None", "Session", "Multipart"}, from : 0..MaxBytes,
     first : 0..MaxBytes, len : 0..MaxBytes, total : BOOLEAN]

PcValues == {"idle", "writing", "starting", "request", "await", "reply",
             "reserving", "post", "getmeta", "destroyed"}

\* ExecuteWithRetry adds 409 to the answers NextUploadStep tells apart.
Answer(status, next) == [status |-> status, next |-> next]

Init ==
    /\ is_write = TRUE /\ write_failed = FALSE /\ upload_session = FALSE
    /\ overwrite \in BOOLEAN /\ reserved = FALSE
    /\ offset = 0 /\ pending = 0 /\ sent_any = FALSE
    /\ position = 0 /\ asked = 0 /\ left = 0 /\ outcome = "none" /\ broken = FALSE
    /\ final = FALSE /\ chunk_state = FreshChunkState /\ next_kind = "SEND"
    /\ attempt = 0 /\ pc = "idle"
    /\ wire = NoRequest /\ reply = Answer("Lost", 0) /\ late = {}
    /\ session = [status |-> "none", held |-> 0, torn |-> FALSE] /\ orphans = 0
    /\ published = [count |-> 0, len |-> 0, torn |-> FALSE]
    /\ cancelled = FALSE

-----------------------------------------------------------------------------
(***************************************************************************)
(* Drive and the network (external).                                       *)
(***************************************************************************)

\* The session after j of the bytes r carries arrived: it keeps a prefix of
\* the upload, so only what continues the bytes it holds.
Stored(r, j) ==
    IF r.from <= session.held /\ r.from + j > session.held
    THEN [session EXCEPT !.held = r.from + j, !.torn = @ \/ r.from # r.first]
    ELSE session

\* Once it holds a final chunk whole it may complete the upload.
SessionAfter(r) ==
    IF session.status # "open"
    THEN {session}
    ELSE LET kept == {Stored(r, j) : j \in 0..r.len}
             full == {s \in kept : r.total /\ s.held = r.from + r.len}
         IN  kept \cup {[s EXCEPT !.status = "complete"] : s \in full}

Truth(s) ==
    CASE s.status = "complete" -> Answer("Done", 0)
      [] s.status = "open"     -> Answer("Resume", s.held)
      [] OTHER                 -> Answer("Rejected", 0)

Effect(s, p, truth) == [session |-> s, published |-> p, truth |-> truth]

Publication(len, torn) ==
    [count |-> published.count + 1, len |-> len, torn |-> torn]

SessionEffects(r) ==
    {Effect(s, IF s.status = "complete" /\ session.status = "open"
               THEN Publication(s.held, s.torn)
               ELSE published,
            Truth(s)) : s \in SessionAfter(r)}

\* A second create with a reserved id collides with the first one.
MultipartEffects(r) ==
    IF reserved /\ published.count > 0
    THEN {Effect(session, published, Answer("Conflict", 0))}
    ELSE {Effect(session, Publication(r.len, FALSE), Answer("Done", 0))}

\* What Drive may do with request r, with the answer that tells the truth.
Effects(r) ==
    IF r.kind = "Session" THEN SessionEffects(r) ELSE MultipartEffects(r)

TakesEffect(e) == session' = e.session /\ published' = e.published

Answered(r) ==
    /\ pc = "await" /\ pc' = "reply"
    /\ reply' = r /\ wire' = NoRequest
    /\ UNCHANGED <<handleVars, bufferVars, callVars, chunkVars, orphans, cancelled>>

\* Drive applies the request and says so.
DriveAnswers ==
    \E e \in Effects(wire) :
        TakesEffect(e) /\ Answered(e.truth) /\ UNCHANGED late

\* Drive applies it, and the client sees a 5xx or no answer at all.
AnswerLost ==
    \E e \in Effects(wire), status \in {"Lost", "ServerError"} :
        TakesEffect(e) /\ Answered(Answer(status, 0)) /\ UNCHANGED late

\* Drive refuses it without applying anything.
DriveRefuses ==
    \E status \in {"ServerError", "RateLimited", "Rejected"} :
        Answered(Answer(status, 0)) /\ UNCHANGED <<late, session, published>>

\* The client times out; the request may still reach Drive later, or never.
RequestTimesOut ==
    /\ Answered(Answer("Lost", 0))
    /\ late' = IF Cardinality(late) < MaxLate THEN late \cup {wire} ELSE late
    /\ UNCHANGED <<session, published>>

LateArrival ==
    \E r \in late :
        /\ \E e \in Effects(r) : TakesEffect(e)
        /\ late' = late \ {r}
        /\ UNCHANGED <<handleVars, bufferVars, callVars, chunkVars, wire, reply,
                       orphans, cancelled, pc>>

SessionExpires ==
    /\ session.status = "open"
    /\ session' = [session EXCEPT !.status = "gone"]
    /\ UNCHANGED <<handleVars, bufferVars, callVars, chunkVars, netVars,
                   orphans, published, cancelled, pc>>

-----------------------------------------------------------------------------
(***************************************************************************)
(* Write().                                                                *)
(***************************************************************************)

\* Mutated form: the URI is cleared before it is used.
AbortUploadForgets == upload_session' = FALSE /\ UNCHANGED <<cancelled, session>>

\* Best effort: the handle forgets the session; Drive may or may not hear of it.
AbortUpload ==
    /\ upload_session' = FALSE
    /\ cancelled' = (cancelled \/ upload_session)
    /\ \/ UNCHANGED session
       \/ /\ upload_session /\ session.status = "open"
          /\ session' = [session EXCEPT !.status = "gone"]

Write(n) ==
    /\ pc = "idle" /\ is_write /\ ~write_failed
    /\ offset + pending + n <= MaxBytes
    /\ asked' = n /\ left' = n /\ pc' = "writing"
    /\ UNCHANGED <<handleVars, bufferVars, position, outcome, broken, chunkVars, netVars,
                   driveVars>>

\* Mutated form: the buffer takes all it is given.
TakenWhole == left

\* What one Fill takes: what fits in the chunk.
Taken == IF left < chunk - pending THEN left ELSE chunk - pending

Fill ==
    /\ pc = "writing" /\ left > 0 /\ pending < chunk
    /\ pending' = pending + Taken /\ left' = left - Taken
    /\ UNCHANGED <<handleVars, offset, sent_any, position, asked, outcome,
                   broken, chunkVars, netVars, driveVars, pc>>

WriteReturns ==
    /\ pc = "writing" /\ left = 0
    /\ position' = position + asked /\ pc' = "idle"
    /\ UNCHANGED <<handleVars, bufferVars, asked, left, outcome, broken, chunkVars,
                   netVars, driveVars>>

\* Mutated form: a full chunk goes up as if it were the last.
BeginChunkAsFinal(last) ==
    /\ final' = TRUE /\ chunk_state' = FreshChunkState /\ next_kind' = "SEND"
    /\ pc' = "request" /\ attempt' = 0

\* UploadChunk starts on the pending bytes.
BeginChunk(last) ==
    /\ final' = last /\ chunk_state' = FreshChunkState /\ next_kind' = "SEND"
    /\ pc' = "request" /\ attempt' = 0

\* SendUploadChunk: the chunk is full and more bytes have arrived.
SendUploadChunk ==
    /\ pc = "writing" /\ left > 0 /\ pending >= chunk
    /\ IF upload_session
       THEN BeginChunk(FALSE)
       ELSE pc' = "starting" /\ UNCHANGED chunkVars
    /\ UNCHANGED <<handleVars, bufferVars, callVars, netVars, driveVars>>

(***************************************************************************)
(* The initiation, one request at a time.  Drive may open a session whose  *)
(* URI never reaches the handle, because the answer is lost, is a 5xx or   *)
(* names no usable Location: it gets no bytes, is never asked to go, and   *)
(* expires on its own.  A request that arrives late counts at once.        *)
(***************************************************************************)
MayOrphan == orphans' \in {orphans, orphans + 1}

\* The answer is lost, a 5xx or a 429: an initiation is retried as it is.
StartRetries ==
    /\ pc = "starting" /\ attempt + 1 < MaxAttempts
    /\ attempt' = attempt + 1 /\ MayOrphan
    /\ UNCHANGED <<handleVars, bufferVars, callVars, final, chunk_state, next_kind,
                   netVars, session, published, cancelled, pc>>

StartResumableUpload ==
    /\ pc = "starting"
    /\ upload_session' = TRUE
    /\ session' = [status |-> "open", held |-> 0, torn |-> FALSE]
    /\ BeginChunk(FALSE)
    /\ UNCHANGED <<is_write, write_failed, overwrite, reserved, bufferVars,
                   callVars, netVars, orphans, published, cancelled>>

\* The catch block of Write(): the stream is broken, nothing may be published.
WriteThrows ==
    /\ write_failed' = TRUE /\ broken' = TRUE /\ AbortUpload /\ pc' = "idle"
    /\ UNCHANGED <<is_write, overwrite, reserved, bufferVars, position, asked,
                   left, outcome, netVars, published>>

\* The last attempt got no answer, Drive refused, or the Location is unusable.
StartFails ==
    /\ pc = "starting" /\ WriteThrows /\ MayOrphan
    /\ attempt' = 0 /\ UNCHANGED <<final, chunk_state, next_kind>>

-----------------------------------------------------------------------------
(***************************************************************************)
(* The request loop of UploadChunk, around NextUploadStep.                 *)
(***************************************************************************)

\* Mutated form: a resumed chunk repeats the range of the whole chunk.
ChunkRequestFromStart ==
    LET skip == chunk_state.skip
    IN  IF next_kind = "SEND" /\ skip < pending
        THEN Request("Session", offset, offset + skip, pending - skip, final)
        ELSE Request("Session", offset + pending, offset + pending, 0, final)

\* The bytes of Pending() from state.skip on; with none left, a status query.
ChunkRequest ==
    LET skip == chunk_state.skip
    IN  IF next_kind = "SEND" /\ skip < pending
        THEN Request("Session", offset + skip, offset + skip, pending - skip, final)
        ELSE Request("Session", offset + pending, offset + pending, 0, final)

SendRequest ==
    /\ pc = "request" /\ pc' = "await"
    /\ wire' = ChunkRequest
    /\ UNCHANGED <<handleVars, bufferVars, callVars, chunkVars, reply, late,
                   driveVars>>

step == NextUploadStep(offset, pending, final, chunk_state, reply)

InUploadChunk == pc = "reply" /\ attempt = 0

ChunkContinues ==
    /\ InUploadChunk /\ step.kind \in {"SEND", "ASK_STATUS"}
    /\ chunk_state' = step.state /\ next_kind' = step.kind /\ pc' = "request"
    /\ UNCHANGED <<handleVars, bufferVars, callVars, final, attempt, netVars,
                   driveVars>>

\* MarkChunkSent, and the loop of Write() goes on.
ChunkAccepted ==
    /\ InUploadChunk /\ step.kind = "ACCEPTED"
    /\ offset' = offset + pending /\ pending' = 0 /\ sent_any' = TRUE
    /\ pc' = "writing"
    /\ UNCHANGED <<handleVars, callVars, chunkVars, netVars, driveVars>>

ChunkFails ==
    /\ InUploadChunk /\ step.kind = "FAIL" /\ ~final
    /\ WriteThrows /\ UNCHANGED <<chunkVars, orphans>>

-----------------------------------------------------------------------------
(***************************************************************************)
(* Close(), CancelWrite() and the destructor.                              *)
(***************************************************************************)

\* Mutated form: Close() does not look at write_failed.
PublishableAnyway == is_write

\* Close() publishes only a stream that never broke.
Publishable == is_write /\ ~write_failed

\* Close() of a handle whose stream broke publishes nothing.
CloseFailed ==
    /\ pc = "idle" /\ is_write /\ write_failed
    /\ is_write' = FALSE /\ AbortUpload
    /\ UNCHANGED <<write_failed, overwrite, reserved, bufferVars, callVars,
                   chunkVars, netVars, orphans, published, pc>>

CloseFinalChunk ==
    /\ pc = "idle" /\ Publishable /\ sent_any
    /\ is_write' = FALSE /\ BeginChunk(TRUE)
    /\ UNCHANGED <<write_failed, upload_session, overwrite, reserved, bufferVars,
                   callVars, netVars, driveVars>>

CloseSingleRequest ==
    /\ pc = "idle" /\ Publishable /\ ~sent_any
    /\ is_write' = FALSE
    /\ pc' = IF overwrite THEN "post" ELSE "reserving"
    /\ UNCHANGED <<write_failed, upload_session, overwrite, reserved, bufferVars,
                   callVars, chunkVars, netVars, driveVars>>

\* A reservation that fails is not an error: the create goes without one.
GenerateFileId ==
    /\ pc = "reserving" /\ pc' = "post"
    /\ reserved' \in BOOLEAN
    /\ UNCHANGED <<is_write, write_failed, upload_session, overwrite, bufferVars,
                   callVars, chunkVars, netVars, driveVars>>

\* One attempt of Upload()'s multipart request.
PostMultipart ==
    /\ pc = "post" /\ pc' = "await"
    /\ attempt' = attempt + 1
    /\ wire' = Request("Multipart", 0, 0, pending, TRUE)
    /\ UNCHANGED <<handleVars, bufferVars, callVars, final, chunk_state,
                   next_kind, reply, late, driveVars>>

InMultipart == pc = "reply" /\ attempt > 0

\* Mutated form: a create is repeated without a reserved id.
MayRetryAnyway == attempt < MaxAttempts /\ reply.status \in Retryable

MayRetry == reserved /\ attempt < MaxAttempts /\ reply.status \in Retryable

MultipartRetries ==
    /\ InMultipart /\ MayRetry /\ pc' = "post"
    /\ UNCHANGED <<handleVars, bufferVars, callVars, chunkVars, netVars, driveVars>>

\* 409: an earlier attempt landed; report the file it made.
MultipartConflict ==
    /\ InMultipart /\ reply.status = "Conflict" /\ pc' = "getmeta"
    /\ UNCHANGED <<handleVars, bufferVars, callVars, chunkVars, netVars, driveVars>>

CloseReturns ==
    /\ upload_session' = FALSE /\ outcome' = "ok" /\ pc' = "idle"
    /\ UNCHANGED <<is_write, write_failed, overwrite, reserved, bufferVars,
                   position, asked, left, broken, chunkVars, netVars, driveVars>>

CloseThrows(what) ==
    /\ write_failed' = TRUE /\ AbortUpload /\ outcome' = what /\ pc' = "idle"
    /\ UNCHANGED <<is_write, overwrite, reserved, bufferVars, position, asked,
                   left, broken, chunkVars, netVars, orphans, published>>

CloseSucceeds ==
    /\ \/ InUploadChunk /\ step.kind = "DONE"
       \/ InMultipart /\ reply.status = "Done"
       \/ pc = "getmeta"
    /\ CloseReturns

FinalChunkFails ==
    /\ InUploadChunk /\ step.kind = "FAIL" /\ final
    /\ CloseThrows(IF step.ambiguous THEN "ambiguous" ELSE "failed")

\* Only a transport failure that was not retried is reported as ambiguous.
MultipartFails ==
    /\ InMultipart /\ ~MayRetry /\ reply.status \notin {"Done", "Conflict"}
    /\ CloseThrows(IF reply.status = "Lost" /\ ~reserved
                   THEN "ambiguous" ELSE "failed")

GetMetadataFails ==
    /\ pc = "getmeta" /\ CloseThrows("failed")

CancelWrite ==
    /\ pc = "idle" /\ is_write
    /\ is_write' = FALSE /\ write_failed' = TRUE /\ AbortUpload
    /\ broken' = TRUE
    /\ UNCHANGED <<overwrite, reserved, bufferVars, position, asked, left,
                   outcome, chunkVars, netVars, orphans, published, pc>>

\* ~GDriveFileHandleImpl, after Close() or instead of it.
Destroy ==
    /\ pc = "idle" /\ pc' = "destroyed"
    /\ AbortUpload
    /\ broken' = (broken \/ is_write)
    /\ UNCHANGED <<is_write, write_failed, overwrite, reserved, bufferVars,
                   position, asked, left, outcome, chunkVars, netVars, orphans,
                   published>>

-----------------------------------------------------------------------------
SendStep ==
    \/ SendUploadChunk \/ StartRetries \/ StartResumableUpload \/ StartFails
    \/ SendRequest \/ ChunkContinues \/ ChunkAccepted \/ ChunkFails

BeginClose == CloseFailed \/ CloseFinalChunk \/ CloseSingleRequest

CloseStep ==
    \/ GenerateFileId \/ PostMultipart \/ MultipartRetries \/ MultipartConflict
    \/ CloseSucceeds \/ FinalChunkFails \/ MultipartFails \/ GetMetadataFails

Network == DriveAnswers \/ AnswerLost \/ DriveRefuses \/ RequestTimesOut

\* What goes on by itself once the caller has called Write() or Close().
Progress == Fill \/ WriteReturns \/ SendStep \/ CloseStep \/ Network

Next ==
    \/ \E n \in WriteSizes : Write(n)
    \/ BeginClose \/ CancelWrite \/ Destroy
    \/ Progress \/ LateArrival \/ SessionExpires

Spec == Init /\ [][Next]_vars

\* The thread runs, and httplib's 60 s timeouts end every request.
FairSpec == Spec /\ WF_vars(Progress)

-----------------------------------------------------------------------------
(***************************************************************************)
(* Properties.                                                             *)
(***************************************************************************)
InFlight == late \cup ({wire} \ {NoRequest})

\* Every variable has its type; in particular the handle never buffers more
\* than one chunk (ChunkedUploadBuffer).
TypeOK ==
    /\ is_write \in BOOLEAN /\ write_failed \in BOOLEAN
    /\ upload_session \in BOOLEAN /\ overwrite \in BOOLEAN /\ reserved \in BOOLEAN
    /\ offset \in 0..MaxBytes /\ pending \in 0..chunk /\ sent_any \in BOOLEAN
    /\ position \in 0..MaxBytes /\ asked \in 0..MaxBytes /\ left \in 0..MaxBytes
    /\ outcome \in {"none", "ok", "failed", "ambiguous"}
    /\ final \in BOOLEAN /\ next_kind \in {"SEND", "ASK_STATUS"}
    /\ chunk_state \in [skip : 0..MaxBytes, stalls : 0..MaxChunkAttempts,
                        failures : 0..MaxChunkAttempts, finalMaybeSent : BOOLEAN]
    /\ attempt \in 0..MaxAttempts
    /\ pc \in PcValues
    /\ wire \in Requests /\ late \subseteq Requests
    /\ reply \in [status : Statuses \cup {"Conflict"}, next : 0..MaxBytes]
    /\ session \in [status : {"none", "open", "complete", "gone"},
                    held : 0..MaxBytes, torn : BOOLEAN]
    /\ orphans \in 0..MaxAttempts
    /\ published \in [count : 0..1, len : 0..MaxBytes, torn : BOOLEAN]
    /\ cancelled \in BOOLEAN /\ broken \in BOOLEAN

\* R-3: after a failed Write(), CancelWrite() or a handle dropped without
\* Close(), nothing is published, then or later, by any request still on the
\* way (the catch block of Write, CancelWrite, ~GDriveFileHandleImpl).
BrokenStreamNeverPublished == broken => published.count = 0

\* R-4: one handle publishes at most once: retries and late requests never
\* make a second file of the name (the reserved id of UploadHandleContents).
PublishedOnce == published.count <= 1

\* Every chunk that can reach Drive is one Drive accepts: non-final chunks
\* start and end on a 256 KiB boundary, the final one carries the last byte
\* of the stream; and while the session lives, the bytes Drive is missing are in
\* memory, so that a resume never needs what MarkChunkSent dropped
\* (NextUploadStep's resume point, ContentRange).
ChunksAreValid ==
    /\ \A r \in InFlight :
          r.kind = "Session" /\ r.len > 0 =>
              IF r.total
              THEN r.from + r.len = position
              ELSE r.from % ChunkMultiple = 0 /\ r.len % ChunkMultiple = 0
    /\ session.status = "open" /\ upload_session =>
           offset <= session.held /\ session.held <= offset + pending

\* Sessions Drive opened, by any request of the initiation.
SessionsOpened == orphans + (IF session.status = "none" THEN 0 ELSE 1)

\* Once a handle has failed or closed it holds no session, and the session whose
\* URI it learnt, if Drive still keeps it open, was at least asked to go
\* (AbortUpload on every path out).  The sessions an initiation orphans are
\* never asked to go and expire by themselves; with the one it learnt of they
\* are no more than one initiation's attempts (ExecuteWithRetry).
SessionReleased ==
    /\ pc = "destroyed" \/ (pc = "idle" /\ (write_failed \/ ~is_write)) =>
           /\ ~upload_session
           /\ session.status = "open" => cancelled
    /\ SessionsOpened <= MaxAttempts

\* Every Write() and Close() returns: the retries, stalls and status queries
\* of one chunk are bounded together whatever Drive answers.
CallsReturn == pc \notin {"idle", "destroyed"} ~> pc = "idle"

\* What file_handle.cpp:67 says of Close() for every path: nothing is
\* published unless the error says that the outcome is unknown.
FailureMeansUnpublished == outcome = "failed" => published.count = 0

\* The state of AtomicPublish that a state of the handle stands for.
Visible == IF published.count = 0 THEN -1 ELSE IF published.torn THEN -2 ELSE published.len

Open == is_write /\ ~broken

Told == IF broken THEN "failed"
        ELSE IF outcome = "ambiguous" \/ (outcome = "failed" /\ ~sent_any) THEN "unknown"
        ELSE outcome

\* The handle implements AtomicPublish: whatever Drive shows is every byte of
\* the Write() calls that returned, each at its own place (R-3), and appears only
\* once Close() has begun; success means that it is there, failure that it never
\* will be (GDriveFileHandle::Close, UploadHandleContents).  A plain error of the
\* multipart request counts as "unknown": see FailureMeansUnpublished.
Abstract ==
    INSTANCE AtomicPublish WITH
        Old     <- -1,
        written <- position,
        visible <- Visible,
        open    <- Open,
        told    <- Told

ImplementsAtomicPublish == Abstract!Spec
=============================================================================
