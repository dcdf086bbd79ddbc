------------------------- MODULE GDriveUploadProofs -------------------------
(***************************************************************************)
(* Proofs about GDriveUpload, for any chunk sizes, attempts, writes and    *)
(* late requests.  The first part: a broken stream is never published,     *)
(* nothing is published twice, the session the handle learnt of is let go, *)
(* and the sessions it never learnt of are no more than it asked for.  The *)
(* second, about bytes: every chunk is one Drive accepts, a resume never   *)
(* needs bytes that are gone, and the handle implements AtomicPublish; it  *)
(* rests on the invariants of the first and on one that follows the        *)
(* offsets.                                                                *)
(***************************************************************************)
EXTENDS GDriveUpload, TLAPS

Single == (attempt > 0 /\ pc # "starting") \/ pc \in {"reserving", "post", "getmeta"}
Streaming == is_write \/ broken
Sending == pc \in {"request", "await", "reply"}
OnTheWay == late \cup (IF pc = "await" THEN {wire} ELSE {})

Types ==
    /\ is_write \in BOOLEAN /\ write_failed \in BOOLEAN /\ upload_session \in BOOLEAN
    /\ reserved \in BOOLEAN /\ final \in BOOLEAN /\ cancelled \in BOOLEAN
    /\ broken \in BOOLEAN /\ attempt \in Nat
    /\ "status" \in DOMAIN session

\* What is on its way is a request of the session, or one of the multipart upload,
\* which names its total size.
RequestsKnown ==
    /\ pc # "await" => wire = NoRequest
    /\ \A r \in OnTheWay :
         \/ r.kind = "Session"
         \/ r.kind = "Multipart" /\ r.total /\ attempt > 0

\* The thread sends chunks that are not final only for a handle that still writes.
ThreadInWrite ==
    pc \in {"writing", "starting"} \/ (Sending /\ attempt = 0 /\ ~final)
        => is_write /\ ~write_failed

\* A stream that broke is no longer written to.
BrokenIsOver == broken => write_failed \/ ~is_write \/ pc = "destroyed"

\* Until Close() begins, and for ever if the stream broke, no request that could
\* publish is sent, nor was one.
StreamingIsSilent ==
    Streaming =>
        /\ ~final /\ ~Single
        /\ published.count = 0
        /\ \A r \in OnTheWay : ~r.total

\* The session and the single request exclude each other.
SingleHasNoSession ==
    /\ is_write /\ ~write_failed /\ ~sent_any /\ pc \in {"idle", "writing", "starting"}
         => session.status = "none"
    /\ Single => session.status = "none"

\* What is published ended the session; and a single request without a reserved
\* id is made once.
OnceInSession ==
    /\ published.count \in {0, 1}
    /\ published.count = 1 => session.status # "open"
    /\ session.status = "complete" => published.count = 1
OnceWithoutId ==
    /\ pc \in {"request", "reserving"} => attempt = 0
    /\ pc = "post" => reserved \/ attempt = 0
    /\ pc \in {"reserving", "post"} /\ attempt = 0 => published.count = 0
    /\ ~reserved => \A r \in OnTheWay : r.kind = "Multipart" =>
         /\ published.count = 0
         /\ \A s \in late : s.kind = "Multipart" => s = r /\ pc # "await"

\* A session Drive keeps open is known to the handle or was cancelled.
SessionAccounted ==
    /\ session.status = "open" => upload_session \/ cancelled
    /\ pc = "destroyed" \/ (pc = "idle" /\ (write_failed \/ ~is_write)) => ~upload_session
    /\ pc = "reply" /\ attempt = 0 /\ reply.status = "Done" => published.count = 1

IInv ==
    /\ Types /\ RequestsKnown /\ ThreadInWrite /\ BrokenIsOver /\ StreamingIsSilent
    /\ SingleHasNoSession /\ OnceInSession /\ OnceWithoutId /\ SessionAccounted
-----------------------------------------------------------------------------
(***************************************************************************)
(* What a request can do on Drive.                                         *)
(***************************************************************************)

\* A session that has ended stays as it is; one that is open publishes exactly
\* when it completes, which takes a request that names the total size; and Drive
\* says that it is done when it is.
LEMMA SessionEffect ==
    ASSUME NEW r, NEW e \in SessionEffects(r), "status" \in DOMAIN session
    PROVE  /\ "status" \in DOMAIN e.session
           /\ e.session.status \in {session.status, "complete"}
           /\ e.session.status # session.status => session.status = "open" /\ r.total
           /\ e.truth.status = "Done" => e.session.status = "complete"
           /\ IF e.session.status = "complete" /\ session.status = "open"
              THEN e.published.count = published.count + 1
              ELSE e.published = published
<1>1. PICK s \in SessionAfter(r) :
        e = Effect(s, IF s.status = "complete" /\ session.status = "open"
                      THEN Publication(s.held, s.torn) ELSE published, Truth(s))
  BY DEF SessionEffects
<1>2. /\ "status" \in DOMAIN s
      /\ s.status \in {session.status, "complete"}
      /\ s.status # session.status => session.status = "open" /\ r.total
  <2>1. CASE session.status # "open"  BY <2>1 DEF SessionAfter
  <2>2. CASE session.status = "open"
    <3> DEFINE kept == {Stored(r, j) : j \in 0..r.len}
    <3>1. \A u \in kept : u.status = session.status /\ "status" \in DOMAIN u
      BY DEF Stored
    <3>2. CASE s \in kept  BY <3>1, <3>2
    <3>3. CASE s \notin kept
      <4>1. PICK u \in kept : r.total /\ s = [u EXCEPT !.status = "complete"]
        BY <2>2, <3>3 DEF SessionAfter
      <4>2. "status" \in DOMAIN u  BY <3>1
      <4>3. s.status = "complete" /\ "status" \in DOMAIN s  BY <4>1, <4>2
      <4> QED  BY <2>2, <4>1, <4>3
    <3> QED  BY <3>2, <3>3
  <2> QED  BY <2>1, <2>2
<1>3. Truth(s).status = "Done" => s.status = "complete"  BY DEF Truth, Answer
<1> QED  BY <1>1, <1>2, <1>3 DEF Effect, Publication

\* The multipart request publishes, unless its file id is taken.
LEMMA MultipartEffect ==
    ASSUME NEW r, NEW e \in MultipartEffects(r)
    PROVE  /\ e.session = session
           /\ IF reserved /\ published.count > 0
              THEN e.published = published
              ELSE e.published.count = published.count + 1
BY DEF MultipartEffects, Effect, Publication

\* A request that arrives, now or late, leaves nothing published twice, opens no
\* session, and publishes nothing for a stream that is written or broken.
LEMMA ArrivalKeeps ==
    ASSUME IInv, NEW r \in OnTheWay, NEW e \in Effects(r), TakesEffect(e)
    PROVE  /\ "status" \in DOMAIN session'
           /\ session'.status = "open" => session.status = "open"
           /\ session.status = "none" => session'.status = "none"
           /\ OnceInSession'
           /\ published.count = 1 => published'.count = 1
           /\ Streaming => published'.count = 0
           /\ r.kind = "Session" /\ session.status = "none" => published' = published
           /\ r.kind = "Session" /\ e.truth.status = "Done" => published'.count = 1
<1> USE DEF IInv, Types, OnceInSession
<1>1. session' = e.session /\ published' = e.published  BY DEF TakesEffect
<1>2. CASE r.kind = "Session"
  <2>1. e \in SessionEffects(r)  BY <1>2 DEF Effects
  <2>2. Streaming => ~r.total /\ published.count = 0  BY DEF StreamingIsSilent
  <2> QED  BY <1>1, <1>2, <2>1, <2>2, SessionEffect
<1>3. CASE r.kind # "Session"
  <2>0. r.kind = "Multipart" /\ r.total /\ attempt > 0  BY <1>3 DEF RequestsKnown
  <2>1. r.kind = "Multipart" /\ r.total /\ attempt > 0 /\ pc # "starting"
    BY <2>0 DEF ThreadInWrite, StreamingIsSilent, Streaming
  <2>2. e \in MultipartEffects(r)  BY <1>3 DEF Effects
  <2>3. session.status = "none"  BY <2>1 DEF SingleHasNoSession, Single
  <2>4. ~Streaming  BY <2>1 DEF StreamingIsSilent
  <2>5. published.count = 0 \/ reserved  BY <2>1 DEF OnceWithoutId
  <2> QED  BY <1>1, <1>3, <2>2, <2>3, <2>4, <2>5, MultipartEffect
<1> QED  BY <1>2, <1>3

\* NextUploadStep ends a call well only on Drive's word, and goes on with more
\* bytes only after a chunk that is not the last.
LEMMA StepKind ==
    /\ step.kind = "DONE" => reply.status = "Done"
    /\ step.kind = "ACCEPTED" => ~final
BY DEF step, NextUploadStep, AfterResume, Accepted, AfterError, Step, Fail

-----------------------------------------------------------------------------
(***************************************************************************)
(* The invariant.                                                          *)
(***************************************************************************)

THEOREM InitEstablishes == Init => IInv
<1> SUFFICES ASSUME Init PROVE IInv  OBVIOUS
<1> USE DEF Init, Single, Streaming, Sending, OnTheWay
<1>1. Types  BY DEF Types
<1>2. RequestsKnown  BY DEF RequestsKnown
<1>3. ThreadInWrite  BY DEF ThreadInWrite
<1>4. BrokenIsOver  BY DEF BrokenIsOver
<1>5. StreamingIsSilent  BY DEF StreamingIsSilent
<1>6. SingleHasNoSession  BY DEF SingleHasNoSession
<1>7. OnceInSession  BY DEF OnceInSession
<1>8. OnceWithoutId  BY DEF OnceWithoutId
<1>9. SessionAccounted  BY DEF SessionAccounted
<1> QED  BY <1>1, <1>2, <1>3, <1>4, <1>5, <1>6, <1>7, <1>8, <1>9 DEF IInv

\* Write(), up to the request that sends a chunk.
LEMMA WritingKeeps ==
    ASSUME IInv,
           \/ Fill \/ WriteReturns \/ SendUploadChunk
           \/ StartRetries \/ StartResumableUpload \/ StartFails
    PROVE  IInv'
<1> USE DEF IInv, Types, RequestsKnown, ThreadInWrite, BrokenIsOver, StreamingIsSilent,
            SingleHasNoSession, OnceInSession, OnceWithoutId, SessionAccounted,
            Single, Streaming, Sending, OnTheWay, NoRequest, Request,
            handleVars, bufferVars, callVars, chunkVars, netVars, driveVars
<1>1. CASE Fill  BY <1>1 DEF Fill
<1>2. CASE WriteReturns  BY <1>2 DEF WriteReturns
<1>3. CASE SendUploadChunk
  <2> USE <1>3 DEF SendUploadChunk, BeginChunk
  <2>1. Types'
    <3>1. attempt' \in Nat  OBVIOUS
    <3>2. final' \in BOOLEAN  OBVIOUS
    <3> QED  BY <3>1, <3>2
  <2>2. RequestsKnown'  OBVIOUS
  <2>3. ThreadInWrite'  OBVIOUS
  <2>4. BrokenIsOver'  OBVIOUS
  <2>5. StreamingIsSilent'  OBVIOUS
  <2>6. SingleHasNoSession'  OBVIOUS
  <2>7. OnceInSession'  OBVIOUS
  <2>8. OnceWithoutId'  OBVIOUS
  <2>9. SessionAccounted'  OBVIOUS
  <2> QED  BY <2>1, <2>2, <2>3, <2>4, <2>5, <2>6, <2>7, <2>8, <2>9
<1>4. CASE StartResumableUpload
  <2> USE <1>4 DEF StartResumableUpload, BeginChunk
  <2>1. Types'  OBVIOUS
  <2>2. RequestsKnown'  OBVIOUS
  <2>3. ThreadInWrite'  OBVIOUS
  <2>4. BrokenIsOver'  OBVIOUS
  <2>5. StreamingIsSilent'  OBVIOUS
  <2>6. SingleHasNoSession'  OBVIOUS
  <2>7. OnceInSession'  OBVIOUS
  <2>8. OnceWithoutId'  OBVIOUS
  <2>9. SessionAccounted'  OBVIOUS
  <2> QED  BY <2>1, <2>2, <2>3, <2>4, <2>5, <2>6, <2>7, <2>8, <2>9
<1>5. CASE StartFails
  <2> USE <1>5 DEF StartFails, WriteThrows, AbortUpload
  <2>1. Types'  OBVIOUS
  <2>2. RequestsKnown'  OBVIOUS
  <2>3. ThreadInWrite'  OBVIOUS
  <2>4. BrokenIsOver'  OBVIOUS
  <2>5. StreamingIsSilent'  OBVIOUS
  <2>6. SingleHasNoSession'  OBVIOUS
  <2>7. OnceInSession'  OBVIOUS
  <2>8. OnceWithoutId'  OBVIOUS
  <2>9. SessionAccounted'  OBVIOUS
  <2> QED  BY <2>1, <2>2, <2>3, <2>4, <2>5, <2>6, <2>7, <2>8, <2>9
<1>6. CASE StartRetries  BY <1>6 DEF StartRetries
<1> QED  BY <1>1, <1>2, <1>3, <1>4, <1>5, <1>6

\* The request loop of a chunk.
LEMMA ChunkKeeps ==
    ASSUME IInv, SendRequest \/ ChunkContinues \/ ChunkAccepted \/ ChunkFails
    PROVE  IInv'
<1> USE DEF IInv, Types, RequestsKnown, ThreadInWrite, BrokenIsOver, StreamingIsSilent,
            SingleHasNoSession, OnceInSession, OnceWithoutId, SessionAccounted,
            Single, Streaming, Sending, OnTheWay, NoRequest, Request,
            handleVars, bufferVars, callVars, chunkVars, netVars, driveVars
<1>1. CASE SendRequest
  <2> USE <1>1 DEF SendRequest, ChunkRequest
  <2>1. Types'  OBVIOUS
  <2>2. RequestsKnown'  OBVIOUS
  <2>3. ThreadInWrite'  OBVIOUS
  <2>4. BrokenIsOver'  OBVIOUS
  <2>5. StreamingIsSilent'  OBVIOUS
  <2>6. SingleHasNoSession'  OBVIOUS
  <2>7. OnceInSession'  OBVIOUS
  <2>8. OnceWithoutId'  OBVIOUS
  <2>9. SessionAccounted'  OBVIOUS
  <2> QED  BY <2>1, <2>2, <2>3, <2>4, <2>5, <2>6, <2>7, <2>8, <2>9
<1>2. CASE ChunkContinues  BY <1>2 DEF ChunkContinues, InUploadChunk
<1>3. CASE ChunkAccepted  BY <1>3, StepKind DEF ChunkAccepted, InUploadChunk
<1>4. CASE ChunkFails  BY <1>4 DEF ChunkFails, InUploadChunk, WriteThrows, AbortUpload
<1> QED  BY <1>1, <1>2, <1>3, <1>4

\* Close() begins, or the handle is cancelled or dropped.
LEMMA CloseBegins ==
    ASSUME IInv, BeginClose \/ CancelWrite \/ Destroy
    PROVE  IInv'
<1> USE DEF IInv, Types, RequestsKnown, ThreadInWrite, BrokenIsOver, StreamingIsSilent,
            SingleHasNoSession, OnceInSession, OnceWithoutId, SessionAccounted,
            Single, Streaming, Sending, OnTheWay, NoRequest, Request,
            handleVars, bufferVars, callVars, chunkVars, netVars, driveVars
<1>1. CASE CloseFailed  BY <1>1 DEF CloseFailed, AbortUpload
<1>2. CASE CloseFinalChunk
  <2> USE <1>2 DEF CloseFinalChunk, Publishable, BeginChunk
  <2>1. Types'  OBVIOUS
  <2>2. RequestsKnown'  OBVIOUS
  <2>3. ThreadInWrite'  OBVIOUS
  <2>4. BrokenIsOver'  OBVIOUS
  <2>5. StreamingIsSilent'  OBVIOUS
  <2>6. SingleHasNoSession'  OBVIOUS
  <2>7. OnceInSession'  OBVIOUS
  <2>8. OnceWithoutId'  OBVIOUS
  <2>9. SessionAccounted'  OBVIOUS
  <2> QED  BY <2>1, <2>2, <2>3, <2>4, <2>5, <2>6, <2>7, <2>8, <2>9
<1>3. CASE CloseSingleRequest
  <2> USE <1>3 DEF CloseSingleRequest, Publishable
  <2>1. Types'  OBVIOUS
  <2>2. RequestsKnown'  OBVIOUS
  <2>3. ThreadInWrite'  OBVIOUS
  <2>4. BrokenIsOver'  OBVIOUS
  <2>5. StreamingIsSilent'  OBVIOUS
  <2>6. SingleHasNoSession'  OBVIOUS
  <2>7. OnceInSession'  OBVIOUS
  <2>8. OnceWithoutId'  OBVIOUS
  <2>9. SessionAccounted'  OBVIOUS
  <2> QED  BY <2>1, <2>2, <2>3, <2>4, <2>5, <2>6, <2>7, <2>8, <2>9
<1>4. CASE CancelWrite  BY <1>4 DEF CancelWrite, AbortUpload
<1>5. CASE Destroy  BY <1>5 DEF Destroy, AbortUpload
<1> QED  BY <1>1, <1>2, <1>3, <1>4, <1>5 DEF BeginClose

\* Close() goes on, succeeds or throws.
LEMMA CloseKeeps ==
    ASSUME IInv, CloseStep
    PROVE  IInv'
<1> USE DEF IInv, Types, RequestsKnown, ThreadInWrite, BrokenIsOver, StreamingIsSilent,
            SingleHasNoSession, OnceInSession, OnceWithoutId, SessionAccounted,
            Single, Streaming, Sending, OnTheWay, NoRequest, Request,
            handleVars, bufferVars, callVars, chunkVars, netVars, driveVars
<1>1. CASE GenerateFileId  BY <1>1 DEF GenerateFileId
<1>2. CASE PostMultipart  BY <1>2 DEF PostMultipart
<1>3. CASE MultipartRetries  BY <1>3 DEF MultipartRetries, InMultipart, MayRetry
<1>4. CASE MultipartConflict  BY <1>4 DEF MultipartConflict, InMultipart
<1>5. CASE CloseSucceeds
  <2> USE <1>5, StepKind DEF CloseSucceeds, InUploadChunk, InMultipart, CloseReturns
  <2>1. Types'  OBVIOUS
  <2>2. RequestsKnown'  OBVIOUS
  <2>3. ThreadInWrite'  OBVIOUS
  <2>4. BrokenIsOver'  OBVIOUS
  <2>5. StreamingIsSilent'  OBVIOUS
  <2>6. SingleHasNoSession'  OBVIOUS
  <2>7. OnceInSession'  OBVIOUS
  <2>8. OnceWithoutId'  OBVIOUS
  <2>9. SessionAccounted'  OBVIOUS
  <2> QED  BY <2>1, <2>2, <2>3, <2>4, <2>5, <2>6, <2>7, <2>8, <2>9
<1>6. CASE FinalChunkFails  BY <1>6 DEF FinalChunkFails, InUploadChunk, CloseThrows, AbortUpload
<1>7. CASE MultipartFails  BY <1>7 DEF MultipartFails, InMultipart, CloseThrows, AbortUpload
<1>8. CASE GetMetadataFails  BY <1>8 DEF GetMetadataFails, CloseThrows, AbortUpload
<1> QED  BY <1>1, <1>2, <1>3, <1>4, <1>5, <1>6, <1>7, <1>8 DEF CloseStep

\* The wire: an answer that tells what was applied, or one that does not.
LEMMA AnswerKeeps ==
    ASSUME IInv, DriveAnswers \/ AnswerLost
    PROVE  IInv'
<1> DEFINE SaysWith(e, a) ==
             /\ TakesEffect(e) /\ Answered(a) /\ UNCHANGED late
             /\ a.status = "Done" => a = e.truth
<1>0. PICK e \in Effects(wire) : \E a : SaysWith(e, a)
  BY DEF DriveAnswers, AnswerLost, Answer
<1>1. PICK a : SaysWith(e, a)  BY <1>0
<1>2. wire \in OnTheWay  BY <1>1 DEF Answered, OnTheWay
<1> USE DEF IInv, Types, RequestsKnown, ThreadInWrite, BrokenIsOver, StreamingIsSilent,
            SingleHasNoSession, OnceInSession, OnceWithoutId, SessionAccounted,
            Single, Streaming, Sending, OnTheWay, NoRequest, Request,
            handleVars, bufferVars, callVars, chunkVars, netVars, driveVars
<1>3. QED
  <2> USE <1>1, <1>2, ArrivalKeeps DEF Answered, TakesEffect
  <2>1. Types'  OBVIOUS
  <2>2. RequestsKnown'  OBVIOUS
  <2>3. ThreadInWrite'  OBVIOUS
  <2>4. BrokenIsOver'  OBVIOUS
  <2>5. StreamingIsSilent'  OBVIOUS
  <2>6. SingleHasNoSession'  OBVIOUS
  <2>7. OnceInSession'  OBVIOUS
  <2>8. OnceWithoutId'  OBVIOUS
  <2>9. SessionAccounted'  OBVIOUS
  <2> QED  BY <2>1, <2>2, <2>3, <2>4, <2>5, <2>6, <2>7, <2>8, <2>9

\* The wire: a refusal, or a timeout after which the request may still arrive.
LEMMA NoAnswerKeeps ==
    ASSUME IInv, DriveRefuses \/ RequestTimesOut
    PROVE  IInv'
<1>1. PICK a : /\ Answered(a) /\ UNCHANGED <<session, published>>
               /\ a.status # "Done"
               /\ late' = late \/ late' = late \cup {wire}
  BY DEF DriveRefuses, RequestTimesOut, Answer
<1> USE DEF IInv, Types, RequestsKnown, ThreadInWrite, BrokenIsOver, StreamingIsSilent,
            SingleHasNoSession, OnceInSession, OnceWithoutId, SessionAccounted,
            Single, Streaming, Sending, OnTheWay, NoRequest, Request,
            handleVars, bufferVars, callVars, chunkVars, netVars, driveVars
<1>2. QED
  <2> USE <1>1 DEF Answered
  <2>1. Types'  OBVIOUS
  <2>2. RequestsKnown'  OBVIOUS
  <2>3. ThreadInWrite'  OBVIOUS
  <2>4. BrokenIsOver'  OBVIOUS
  <2>5. StreamingIsSilent'  OBVIOUS
  <2>6. SingleHasNoSession'  OBVIOUS
  <2>7. OnceInSession'  OBVIOUS
  <2>8. OnceWithoutId'  OBVIOUS
  <2>9. SessionAccounted'  OBVIOUS
  <2> QED  BY <2>1, <2>2, <2>3, <2>4, <2>5, <2>6, <2>7, <2>8, <2>9

\* Drive by itself: a late request arrives, or the session expires.
LEMMA DriveKeeps ==
    ASSUME IInv, LateArrival \/ SessionExpires
    PROVE  IInv'
<1> USE DEF IInv, Types, RequestsKnown, ThreadInWrite, BrokenIsOver, StreamingIsSilent,
            SingleHasNoSession, OnceInSession, OnceWithoutId, SessionAccounted,
            Single, Streaming, Sending, OnTheWay, NoRequest, Request,
            handleVars, bufferVars, callVars, chunkVars, netVars, driveVars
<1>1. CASE LateArrival
  <2>1. PICK r \in late : /\ \E e \in Effects(r) : TakesEffect(e)
                          /\ late' = late \ {r}
    BY <1>1 DEF LateArrival
  <2>2. PICK e \in Effects(r) : TakesEffect(e)  BY <2>1
  <2>3. r \in OnTheWay  OBVIOUS
  <2> USE <1>1, <2>1, <2>2, <2>3, ArrivalKeeps DEF LateArrival
  <2>4. Types'  OBVIOUS
  <2>5. RequestsKnown'  OBVIOUS
  <2>6. ThreadInWrite'  OBVIOUS
  <2>7. BrokenIsOver'  OBVIOUS
  <2>8. StreamingIsSilent'  OBVIOUS
  <2>9. SingleHasNoSession'  OBVIOUS
  <2>10. OnceInSession'  OBVIOUS
  <2>11. OnceWithoutId'  OBVIOUS
  <2>12. SessionAccounted'  OBVIOUS
  <2> QED  BY <2>4, <2>5, <2>6, <2>7, <2>8, <2>9, <2>10, <2>11, <2>12
<1>2. CASE SessionExpires  BY <1>2 DEF SessionExpires
<1> QED  BY <1>1, <1>2

LEMMA WriteKeeps ==
    ASSUME IInv, NEW n, Write(n)
    PROVE  IInv'
<1> USE DEF IInv, Types, RequestsKnown, ThreadInWrite, BrokenIsOver, StreamingIsSilent,
            SingleHasNoSession, OnceInSession, OnceWithoutId, SessionAccounted,
            Single, Streaming, Sending, OnTheWay, NoRequest, Request,
            handleVars, bufferVars, callVars, chunkVars, netVars, driveVars
<1> QED  BY DEF Write

LEMMA StutterKeeps ==
    ASSUME IInv, UNCHANGED vars
    PROVE  IInv'
<1> USE DEF IInv, Types, RequestsKnown, ThreadInWrite, BrokenIsOver, StreamingIsSilent,
            SingleHasNoSession, OnceInSession, OnceWithoutId, SessionAccounted,
            Single, Streaming, Sending, OnTheWay, NoRequest, Request,
            handleVars, bufferVars, callVars, chunkVars, netVars, driveVars
<1> QED  BY DEF vars

\* No step of the handle, of Drive or of the network breaks the invariant.
THEOREM StepKeeps == IInv /\ [Next]_vars => IInv'
<1> SUFFICES ASSUME IInv, [Next]_vars PROVE IInv'  OBVIOUS
<1>1. CASE \E n \in WriteSizes : Write(n)  BY <1>1, WriteKeeps
<1>2. CASE BeginClose \/ CancelWrite \/ Destroy  BY <1>2, CloseBegins
<1>3. CASE \/ Fill \/ WriteReturns \/ SendUploadChunk
           \/ StartRetries \/ StartResumableUpload \/ StartFails
  BY <1>3, WritingKeeps
<1>4. CASE SendRequest \/ ChunkContinues \/ ChunkAccepted \/ ChunkFails
  BY <1>4, ChunkKeeps
<1>5. CASE CloseStep  BY <1>5, CloseKeeps
<1>6. CASE DriveAnswers \/ AnswerLost  BY <1>6, AnswerKeeps
<1>7. CASE DriveRefuses \/ RequestTimesOut  BY <1>7, NoAnswerKeeps
<1>8. CASE LateArrival \/ SessionExpires  BY <1>8, DriveKeeps
<1>9. CASE UNCHANGED vars  BY <1>9, StutterKeeps
<1> QED
  BY <1>1, <1>2, <1>3, <1>4, <1>5, <1>6, <1>7, <1>8, <1>9
  DEF Next, Progress, SendStep, Network

\* The invariant holds of every run of the handle.
THEOREM Invariance == Spec => []IInv
<1> QED  BY InitEstablishes, StepKeeps, PTL DEF Spec

\* R-3: after a failed Write(), CancelWrite() or a handle dropped without Close(),
\* no request publishes anything, however late it arrives (the catch block of
\* Write, CancelWrite, ~GDriveFileHandleImpl).
THEOREM BrokenStreams == Spec => []BrokenStreamNeverPublished
<1>1. IInv => BrokenStreamNeverPublished
  BY DEF IInv, StreamingIsSilent, Streaming, BrokenStreamNeverPublished
<1> QED  BY <1>1, Invariance, PTL

\* R-4: retries and late requests of one handle never make a second file of the
\* name, whatever the number of attempts (the reserved id of UploadHandleContents).
THEOREM OneFile == Spec => []PublishedOnce
<1>1. IInv => PublishedOnce  BY DEF IInv, OnceInSession, PublishedOnce
<1> QED  BY <1>1, Invariance, PTL

(***************************************************************************)
(* The sessions, those included that only Drive knows of.                  *)
(***************************************************************************)

\* While the handle has learnt of no session, Drive has opened at most one for each
\* request it sent before; the one it learns of is the answer to one request more.
SInv ==
    /\ orphans \in Nat
    /\ orphans <= MaxAttempts
    /\ session.status # "none" => orphans < MaxAttempts
    /\ pc = "starting" => ~upload_session
    /\ is_write /\ ~write_failed /\ ~upload_session /\ pc # "destroyed" =>
         /\ session.status = "none"
         /\ orphans <= attempt /\ attempt < MaxAttempts

\* Only StartResumableUpload makes a session known.
LEMMA StaysUnopened ==
    ASSUME IInv, [Next]_vars, ~StartResumableUpload, session.status = "none"
    PROVE  session'.status = "none"
<1>1. CASE DriveAnswers \/ AnswerLost
  <2>1. PICK e \in Effects(wire) : TakesEffect(e)  BY <1>1 DEF DriveAnswers, AnswerLost
  <2>2. wire \in OnTheWay  BY <1>1 DEF DriveAnswers, AnswerLost, Answered, OnTheWay
  <2> QED  BY <2>1, <2>2, ArrivalKeeps
<1>2. CASE LateArrival
  <2>1. PICK r \in late : \E e \in Effects(r) : TakesEffect(e)  BY <1>2 DEF LateArrival
  <2> QED  BY <2>1, ArrivalKeeps DEF OnTheWay
<1>3. CASE ~(DriveAnswers \/ AnswerLost \/ LateArrival)
  <2>1. session' = session \/ session.status = "open"
    BY <1>3
    DEF Next, vars, driveVars, Write, BeginClose, CloseFailed, CloseFinalChunk,
        CloseSingleRequest, CancelWrite, Destroy, AbortUpload, Progress, Fill, WriteReturns,
        SendStep, SendUploadChunk, StartRetries, StartFails, WriteThrows, SendRequest,
        ChunkContinues, ChunkAccepted, ChunkFails, CloseStep, GenerateFileId, PostMultipart,
        MultipartRetries, MultipartConflict, CloseSucceeds, CloseReturns, FinalChunkFails,
        MultipartFails, GetMetadataFails, CloseThrows, Network, DriveRefuses,
        RequestTimesOut, SessionExpires
  <2> QED  BY <2>1
<1> QED  BY <1>1, <1>2, <1>3

\* No step makes more sessions than an initiation has attempts.
THEOREM StepKeepsSessions == IInv /\ SInv /\ [Next]_vars => SInv'
<1> SUFFICES ASSUME IInv, SInv, [Next]_vars PROVE SInv'  OBVIOUS
<1>0. IInv'  BY StepKeeps
<1> USE UploadAssumption DEF SInv
<1>1. CASE StartRetries
  <2>1. /\ is_write /\ ~write_failed /\ ~upload_session
        /\ pc = "starting" /\ attempt \in Nat /\ attempt + 1 < MaxAttempts
    BY <1>1 DEF StartRetries, IInv, ThreadInWrite, Types
  <2>2. /\ attempt' = attempt + 1 /\ orphans' \in {orphans, orphans + 1}
        /\ UNCHANGED <<session, upload_session, pc>>
    BY <1>1 DEF StartRetries, MayOrphan, handleVars
  <2> QED  BY <2>1, <2>2
<1>2. CASE StartResumableUpload
  <2>1. /\ is_write /\ ~write_failed /\ ~upload_session
        /\ pc = "starting" /\ attempt \in Nat
    BY <1>2 DEF StartResumableUpload, IInv, ThreadInWrite, Types
  <2>2. orphans' = orphans /\ upload_session' /\ session'.status = "open"
        /\ pc' = "request"
    BY <1>2 DEF StartResumableUpload, BeginChunk
  <2> QED  BY <2>1, <2>2
<1>3. CASE StartFails
  <2>1. /\ is_write /\ ~write_failed /\ ~upload_session
        /\ pc = "starting" /\ attempt \in Nat
    BY <1>3 DEF StartFails, IInv, ThreadInWrite, Types
  <2>2. /\ orphans' \in {orphans, orphans + 1} /\ write_failed'
        /\ session' = session /\ pc' = "idle"
    BY <1>3, <2>1 DEF StartFails, MayOrphan, WriteThrows, AbortUpload
  <2> QED  BY <2>1, <2>2
<1>4. CASE ~(StartRetries \/ StartResumableUpload \/ StartFails)
  <2>1. orphans' = orphans
    BY <1>4
    DEF Next, vars, driveVars, Write, BeginClose, CloseFailed, CloseFinalChunk,
        CloseSingleRequest, CancelWrite, Destroy, Progress, Fill, WriteReturns,
        SendStep, SendUploadChunk, SendRequest, ChunkContinues, ChunkAccepted, ChunkFails,
        CloseStep, GenerateFileId, PostMultipart, MultipartRetries, MultipartConflict,
        CloseSucceeds, CloseReturns, FinalChunkFails, MultipartFails, GetMetadataFails,
        CloseThrows, Network, DriveAnswers, AnswerLost, DriveRefuses, RequestTimesOut,
        Answered, LateArrival, SessionExpires
  <2>2. session.status = "none" => session'.status = "none"  BY <1>4, StaysUnopened
  <2>3. pc' = "starting" => ~upload_session'
    BY <1>4
    DEF Next, vars, handleVars, Write, BeginClose, CloseFailed, CloseFinalChunk, BeginChunk,
        CloseSingleRequest, CancelWrite, Destroy, AbortUpload, Progress, Fill, WriteReturns,
        SendStep, SendUploadChunk, SendRequest, ChunkContinues, ChunkAccepted, ChunkFails,
        WriteThrows, CloseStep, GenerateFileId, PostMultipart, MultipartRetries,
        MultipartConflict, CloseSucceeds, CloseReturns, FinalChunkFails, MultipartFails,
        GetMetadataFails, CloseThrows, Network, DriveAnswers, AnswerLost, DriveRefuses,
        RequestTimesOut, Answered, LateArrival, SessionExpires
  <2>4. ASSUME is_write', ~write_failed', ~upload_session', pc' # "destroyed"
        PROVE  /\ is_write /\ ~write_failed /\ ~upload_session /\ pc # "destroyed"
               /\ attempt' = attempt
    <3>1. ~CloseSucceeds
      <4>1. ASSUME CloseSucceeds PROVE FALSE
        <5>1. pc = "getmeta" \/ (pc = "reply" /\ (attempt > 0 \/ published.count = 1))
          BY <4>1, StepKind
          DEF CloseSucceeds, InUploadChunk, InMultipart, IInv, SessionAccounted
        <5>2. ~is_write  BY <5>1 DEF IInv, StreamingIsSilent, Streaming, Single
        <5> QED  BY <2>4, <4>1, <5>2 DEF CloseSucceeds, CloseReturns
      <4> QED  BY <4>1
    <3>2. is_write /\ ~write_failed /\ ~upload_session /\ pc # "destroyed"
      <4>0. /\ is_write \in BOOLEAN /\ write_failed \in BOOLEAN /\ upload_session \in BOOLEAN
            /\ is_write' \in BOOLEAN /\ write_failed' \in BOOLEAN /\ upload_session' \in BOOLEAN
        BY <1>0 DEF IInv, Types
      <4> USE <2>4, <4>0 DEF handleVars
      <4>1. CASE \/ BeginClose \/ CancelWrite \/ Destroy
        BY <4>1
        DEF BeginClose, CloseFailed, CloseFinalChunk, BeginChunk, CloseSingleRequest,
            CancelWrite, Destroy, AbortUpload
      <4>2. CASE \/ ChunkFails \/ FinalChunkFails \/ MultipartFails \/ GetMetadataFails
        BY <4>2
        DEF ChunkFails, WriteThrows, FinalChunkFails, MultipartFails, GetMetadataFails,
            CloseThrows
      <4>3. CASE (\E n \in WriteSizes : Write(n)) \/ UNCHANGED vars
        BY <4>3 DEF Write, vars
      <4>4. CASE \/ Fill \/ WriteReturns \/ SendUploadChunk \/ SendRequest
                 \/ ChunkContinues \/ ChunkAccepted
        BY <4>4
        DEF Fill, WriteReturns, SendUploadChunk, BeginChunk, SendRequest, ChunkContinues,
            ChunkAccepted, InUploadChunk
      <4>5. CASE \/ GenerateFileId \/ PostMultipart \/ MultipartRetries \/ MultipartConflict
        BY <4>5
        DEF GenerateFileId, PostMultipart, MultipartRetries, MultipartConflict, InMultipart
      <4>6. CASE Network \/ LateArrival \/ SessionExpires
        BY <4>6
        DEF Network, DriveAnswers, AnswerLost, DriveRefuses, RequestTimesOut, Answered,
            LateArrival, SessionExpires
      <4> QED
        BY <1>4, <3>1, <4>1, <4>2, <4>3, <4>4, <4>5, <4>6
        DEF Next, Progress, SendStep, CloseStep
    <3>3. attempt' = attempt
      <4>1. ~PostMultipart
        BY <3>2 DEF PostMultipart, IInv, StreamingIsSilent, Streaming, Single
      <4> QED
        BY <1>4, <2>4, <3>1, <3>2, <4>1
        DEF Next, vars, chunkVars, Write, BeginClose, CloseFailed, CloseFinalChunk,
            CloseSingleRequest, CancelWrite, Destroy, Progress, Fill, WriteReturns,
            SendStep, SendUploadChunk, SendRequest, ChunkContinues, ChunkAccepted, ChunkFails,
            WriteThrows, BeginChunk, CloseStep, GenerateFileId, MultipartRetries,
            MultipartConflict, FinalChunkFails, MultipartFails, GetMetadataFails, CloseThrows,
            Network, DriveAnswers, AnswerLost, DriveRefuses, RequestTimesOut, Answered,
            LateArrival, SessionExpires
    <3> QED  BY <3>2, <3>3
  <2> QED  BY <2>1, <2>2, <2>3, <2>4
<1> QED  BY <1>1, <1>2, <1>3, <1>4

\* That holds of every run of the handle.
THEOREM SessionsInvariance == Spec => [](IInv /\ SInv)
<1>1. Init => IInv /\ SInv
  <2>1. Init => SInv  BY UploadAssumption DEF Init, SInv
  <2> QED  BY <2>1, InitEstablishes
<1>2. IInv /\ SInv /\ [Next]_vars => (IInv /\ SInv)'  BY StepKeeps, StepKeepsSessions
<1> QED  BY <1>1, <1>2, PTL DEF Spec

\* Every path out of the handle lets go of the session it learnt of: it is forgotten,
\* and Drive was asked to cancel it if it is still open (AbortUpload, the destructor).
\* The sessions an initiation orphans are only bounded: with the one learnt of, by the
\* attempts of one initiation (StartResumableUpload, ExecuteWithRetry).
THEOREM SessionsReleased == Spec => []SessionReleased
<1>1. ASSUME IInv, SInv PROVE SessionReleased
  <2>1. SessionsOpened <= MaxAttempts
    <3>1. CASE session.status = "none"  BY <1>1, <3>1 DEF SInv, SessionsOpened
    <3>2. CASE session.status # "none"
      BY <1>1, <3>2, UploadAssumption DEF SInv, SessionsOpened
    <3> QED  BY <3>1, <3>2
  <2> QED  BY <1>1, <2>1 DEF IInv, SessionAccounted, SessionReleased
<1> QED  BY <1>1, SessionsInvariance, PTL

-----------------------------------------------------------------------------
(* The bytes.                                                              *)

\* Inside Write(), and in the request loop of the last chunk.
Chunking == pc \in {"writing", "starting"} \/ (Sending /\ attempt = 0 /\ ~final)
Finishing == Sending /\ attempt = 0 /\ final

\* What was written is what was sent, what is buffered, and what is still to be taken.
BytesKept ==
    /\ offset + pending <= MaxBytes
    /\ Chunking => /\ offset + pending + left = position + asked
                   /\ position + asked <= MaxBytes
    /\ ~broken /\ (pc = "idle" \/ ~is_write) => offset + pending = position
    /\ ~sent_any => offset = 0
    /\ Single => ~sent_any
    /\ Finishing => sent_any

\* A request carries the bytes its range names, none that the handle does not have,
\* and one that names the total size ends where the stream ends.
WholeRequests ==
    \A r \in OnTheWay :
      /\ r.from + r.len <= offset + pending
      /\ r.kind = "Session" => r.from = r.first
      /\ r.kind = "Multipart" => r.from = 0
      /\ r.total => r.from + r.len = position

\* So Drive holds and shows each byte at its place.
Untorn ==
    /\ ~session.torn /\ ~published.torn
    /\ published.count = 1 => published.len = position

\* What Close() has said.
OutcomeKept ==
    /\ is_write => outcome = "none"
    /\ is_write /\ write_failed => broken
    /\ pc \notin {"idle", "destroyed"} => outcome = "none"
    /\ outcome = "ok" => published.count = 1
    /\ outcome = "failed" /\ sent_any =>
         published.count = 0 /\ \A r \in OnTheWay : ~r.total

\* What the thread may conclude from the reply in its hand, and how often it asks.
RepliesKnown ==
    /\ pc = "post" => attempt < MaxAttempts
    /\ Finishing /\ ~chunk_state.finalMaybeSent
       /\ (pc = "reply" => reply.status \notin {"Lost", "ServerError", "Done"})
         => published.count = 0 /\ \A r \in late : ~r.total
    /\ pc = "reply" /\ attempt > 0 /\ reply.status \in {"Done", "Conflict"}
         => published.count = 1
    /\ pc = "getmeta" => published.count = 1
    /\ pc = "reply" /\ attempt = 0 /\ reply.status = "Resume" => reply.next <= session.held

\* Chunks begin and end on the boundary.
Aligned ==
    /\ offset % ChunkMultiple = 0
    /\ pc = "starting" \/ (Sending /\ attempt = 0 /\ ~final) => pending = chunk
    /\ pc = "request" /\ ~final /\ next_kind = "SEND" /\ chunk_state.skip < pending
         => (offset + chunk_state.skip) % ChunkMultiple = 0
    /\ \A r \in OnTheWay :
         r.kind = "Session" /\ ~r.total /\ r.len > 0
           => r.from % ChunkMultiple = 0 /\ r.len % ChunkMultiple = 0

\* Drive holds all the handle dropped, and no more than it had.
Window ==
    /\ session.held <= offset + pending
    /\ upload_session /\ session.status = "open" => offset <= session.held
    /\ is_write /\ ~write_failed /\ sent_any /\ pc # "destroyed" => upload_session
    /\ Sending /\ attempt = 0 => upload_session
    /\ pc = "starting" => ~upload_session

\* The invariant, to be taken with IInv.
DInv ==
    /\ TypeOK /\ BytesKept /\ WholeRequests /\ Untorn
    /\ OutcomeKept /\ RepliesKnown /\ Aligned /\ Window
-----------------------------------------------------------------------------
(***************************************************************************)
(* Multiples of the chunk unit.                                            *)
(***************************************************************************)

LEMMA MultipleOf == ASSUME NEW m \in Nat \ {0}, NEW k \in Int PROVE (k * m) % m = 0
OBVIOUS

LEMMA IsMultiple ==
    ASSUME NEW m \in Nat \ {0}, NEW a \in Int, a % m = 0
    PROVE  \E k \in Int : a = k * m
OBVIOUS

LEMMA MultiplesAdd ==
    ASSUME NEW m \in Nat \ {0}, NEW a \in Int, NEW b \in Int, a % m = 0, b % m = 0
    PROVE  (a + b) % m = 0 /\ (a - b) % m = 0
<1>1. PICK i \in Int : a = i * m  BY IsMultiple
<1>2. PICK j \in Int : b = j * m  BY IsMultiple
<1>3. a + b = (i + j) * m /\ a - b = (i - j) * m  BY <1>1, <1>2
<1>4. ((i + j) * m) % m = 0 /\ ((i - j) * m) % m = 0  BY MultipleOf
<1> QED  BY <1>3, <1>4

LEMMA QuotientNatural ==
    ASSUME NEW m \in Nat \ {0}, NEW a \in Nat
    PROVE  a \div m \in Nat
<1>1. a \div m \in Int /\ a % m \in 0..(m - 1)  OBVIOUS
<1>2. a = (a \div m) * m + (a % m)  OBVIOUS
<1>3. ASSUME NEW q \in Int, NEW r \in 0..(m - 1), a = q * m + r, q <= -1 PROVE FALSE
  <2>1. (q + 1) * m <= 0  BY <1>3
  <2>2. (q + 1) * m = q * m + m  OBVIOUS
  <2> QED  BY <1>3, <2>1, <2>2
<1> QED  BY <1>1, <1>2, <1>3

\* A chunk is a positive number of units (NormalizeDriveChunkSize).
LEMMA ChunkWhole == chunk \in Nat \ {0} /\ chunk % ChunkMultiple = 0
<1> USE UploadPlanAssumption, UploadAssumption
<1>1. CASE ChunkRequested > ChunkMax  BY <1>1 DEF chunk, NormalizeDriveChunkSize
<1>2. CASE ~(ChunkRequested > ChunkMax)
  <2> DEFINE rounded == (ChunkRequested \div ChunkMultiple) * ChunkMultiple
  <2>1. ChunkRequested \div ChunkMultiple \in Nat  BY QuotientNatural
  <2>2. rounded \in Nat /\ rounded % ChunkMultiple = 0  BY <2>1, MultipleOf
  <2>3. (1 * ChunkMultiple) % ChunkMultiple = 0  BY MultipleOf
  <2>4. chunk = IF rounded = 0 THEN ChunkMultiple ELSE rounded
    BY <1>2 DEF chunk, NormalizeDriveChunkSize
  <2> QED  BY <2>2, <2>3, <2>4
<1> QED  BY <1>1, <1>2

-----------------------------------------------------------------------------
(***************************************************************************)
(* What a request can do on Drive, and what a reply means.                 *)
(***************************************************************************)
Replies == [status : Statuses \cup {"Conflict"}, next : 0..MaxBytes]
Publications == [count : 0..1, len : 0..MaxBytes, torn : BOOLEAN]
Sessions == [status : {"none", "open", "complete", "gone"}, held : 0..MaxBytes, torn : BOOLEAN]

ChunkStates == [skip : 0..MaxBytes, stalls : 0..MaxChunkAttempts,
                failures : 0..MaxChunkAttempts, finalMaybeSent : BOOLEAN]

LEMMA StoredBytes ==
    ASSUME session \in Sessions, NEW r \in Requests, r.from + r.len <= MaxBytes,
           r.from = r.first, NEW j \in 0..r.len
    PROVE  /\ Stored(r, j) \in Sessions
           /\ Stored(r, j).status = session.status
           /\ Stored(r, j).torn = session.torn
           /\ session.held <= Stored(r, j).held
           /\ Stored(r, j).held <= session.held \/ Stored(r, j).held <= r.from + r.len
<1> DEFINE u == [session EXCEPT !.held = r.from + j, !.torn = @ \/ r.from # r.first]
<1>1. r.from + j \in 0..MaxBytes /\ r.from + j <= r.from + r.len
  BY UploadAssumption DEF Requests
<1>2. u = [session EXCEPT !.held = r.from + j, !.torn = session.torn]
  BY Zenon DEF Sessions
<1>3. /\ u \in Sessions /\ u.status = session.status /\ u.torn = session.torn
      /\ u.held = r.from + j
  BY <1>1, <1>2 DEF Sessions
<1> QED  BY <1>1, <1>3, UploadAssumption DEF Stored, Sessions, Requests

\* Bytes are added at their place, up to the end of the request; a session that
\* completes ends where the request does; and Drive tells what it holds.
LEMMA SessionBytes ==
    ASSUME session \in Sessions, NEW r \in Requests, r.from + r.len <= MaxBytes,
           r.from = r.first, NEW e \in SessionEffects(r)
    PROVE  /\ e.session \in Sessions
           /\ e.session.torn = session.torn
           /\ session.held <= e.session.held
           /\ e.session.held <= session.held \/ e.session.held <= r.from + r.len
           /\ IF e.session.status = "complete" /\ session.status = "open"
              THEN /\ r.total
                   /\ e.published = Publication(r.from + r.len, session.torn)
              ELSE e.published = published
           /\ e.truth = Truth(e.session)
<1>1. PICK s \in SessionAfter(r) :
        e = Effect(s, IF s.status = "complete" /\ session.status = "open"
                      THEN Publication(s.held, s.torn) ELSE published, Truth(s))
  BY DEF SessionEffects
<1>2. /\ s \in Sessions /\ s.torn = session.torn /\ session.held <= s.held
      /\ s.held <= session.held \/ s.held <= r.from + r.len
      /\ s.status = "complete" /\ session.status = "open" => r.total /\ s.held = r.from + r.len
  <2>1. CASE session.status # "open"  BY <2>1 DEF SessionAfter, Sessions
  <2>2. CASE session.status = "open"
    <3> DEFINE kept == {Stored(r, j) : j \in 0..r.len}
    <3>1. \A u \in kept : /\ u \in Sessions /\ u.status = session.status /\ u.torn = session.torn
                          /\ session.held <= u.held
                          /\ u.held <= session.held \/ u.held <= r.from + r.len
      BY StoredBytes
    <3>2. CASE s \in kept  BY <3>1, <3>2, <2>2
    <3>3. CASE s \notin kept
      <4>1. PICK u \in kept : /\ r.total /\ u.held = r.from + r.len
                              /\ s = [u EXCEPT !.status = "complete"]
        BY <2>2, <3>3 DEF SessionAfter
      <4> QED  BY <3>1, <4>1 DEF Sessions
    <3> QED  BY <3>2, <3>3
  <2> QED  BY <2>1, <2>2
<1> QED  BY <1>1, <1>2 DEF Effect

LEMMA MultipartBytes ==
    ASSUME NEW r, NEW e \in MultipartEffects(r)
    PROVE  /\ e.session = session
           /\ IF reserved /\ published.count > 0
              THEN e.published = published /\ e.truth = Answer("Conflict", 0)
              ELSE e.published = Publication(r.len, FALSE) /\ e.truth = Answer("Done", 0)
<1>1. CASE reserved /\ published.count > 0
  <2>1. e = Effect(session, published, Answer("Conflict", 0))  BY <1>1 DEF MultipartEffects
  <2> QED  BY <1>1, <2>1 DEF Effect
<1>2. CASE ~(reserved /\ published.count > 0)
  <2>1. e = Effect(session, Publication(r.len, FALSE), Answer("Done", 0))
    BY <1>2 DEF MultipartEffects
  <2> QED  BY <1>2, <2>1 DEF Effect
<1> QED  BY <1>1, <1>2

LEMMA ChunkStateMoves ==
    ASSUME NEW s \in ChunkStates, NEW k \in 0..MaxBytes, NEW n \in 0..MaxChunkAttempts
    PROVE  [s EXCEPT !.skip = k, !.stalls = n] \in ChunkStates
BY DEF ChunkStates

LEMMA ChunkStateTries ==
    ASSUME NEW s \in ChunkStates, NEW b \in BOOLEAN, NEW n \in 0..MaxChunkAttempts
    PROVE  [s EXCEPT !.finalMaybeSent = b, !.failures = n] \in ChunkStates
BY DEF ChunkStates

LEMMA FreshState == FreshChunkState \in ChunkStates
BY UploadPlanAssumption, UploadAssumption DEF FreshChunkState, ChunkStates

\* A request of a chunk carries what is pending of it, from a place on the boundary.
LEMMA SendsPending ==
    ASSUME IInv, DInv, SendRequest
    PROVE  /\ wire' \in Requests /\ wire'.kind = "Session" /\ wire'.total = final
           /\ wire'.from = wire'.first /\ wire'.from + wire'.len = offset + pending
           /\ ~final /\ wire'.len > 0 =>
                wire'.from % ChunkMultiple = 0 /\ wire'.len % ChunkMultiple = 0
<1> USE UploadAssumption, UploadPlanAssumption, ChunkWhole
        DEF DInv, TypeOK, BytesKept, Request, SendRequest, ChunkRequest
<1> DEFINE skip == chunk_state.skip
<1>1. CASE next_kind = "SEND" /\ skip < pending
  <2>1. wire' = Request("Session", offset + skip, offset + skip, pending - skip, final)
    BY <1>1
  <2>2. /\ offset + skip \in 0..MaxBytes /\ pending - skip \in 0..MaxBytes
        /\ offset + skip + (pending - skip) = offset + pending
    BY <1>1
  <2>3. ASSUME ~final
        PROVE  (offset + skip) % ChunkMultiple = 0 /\ (pending - skip) % ChunkMultiple = 0
    <3>1. (offset + skip) % ChunkMultiple = 0 /\ offset % ChunkMultiple = 0
      BY <1>1, <2>3 DEF Aligned
    <3>2. attempt = 0 /\ Sending  BY DEF IInv, OnceWithoutId, Sending
    <3>3. pending = chunk  BY <2>3, <3>2 DEF Aligned
    <3>4. offset \in Int /\ pending \in Int /\ pending % ChunkMultiple = 0  BY <3>3
    <3>7. (offset + pending) % ChunkMultiple = 0  BY <3>1, <3>4, MultiplesAdd
    <3>5. ((offset + pending) - (offset + skip)) % ChunkMultiple = 0
      BY <2>2, <3>1, <3>7, MultiplesAdd
    <3>6. (offset + pending) - (offset + skip) = pending - skip  BY <2>2
    <3> QED  BY <3>1, <3>5, <3>6
  <2> QED  BY <2>1, <2>2, <2>3 DEF Requests
<1>2. CASE ~(next_kind = "SEND" /\ skip < pending)
  <2>1. wire' = Request("Session", offset + pending, offset + pending, 0, final)
    BY <1>2
  <2> QED  BY <2>1 DEF Requests
<1> QED  BY <1>1, <1>2

\* NextUploadStep takes Drive's word for what it holds, resumes on the boundary, and
\* says that the outcome is known only if no lost reply can have hidden it.
LEMMA StepMeaning ==
    ASSUME TypeOK, offset + pending <= MaxBytes
    PROVE  /\ step.kind \in {"SEND", "ASK_STATUS"} =>
                /\ step.state \in ChunkStates
                /\ reply.status # "Done"
                /\ ~step.state.finalMaybeSent =>
                     /\ ~chunk_state.finalMaybeSent
                     /\ final => reply.status \notin {"Lost", "ServerError"}
           /\ step.kind = "SEND" /\ ~final /\ step.state.skip < pending =>
                (offset + step.state.skip) % ChunkMultiple = 0
           /\ step.kind = "ACCEPTED" => reply.status = "Resume" /\ reply.next = offset + pending
           /\ step.kind = "FAIL" /\ final /\ ~step.ambiguous =>
                /\ ~chunk_state.finalMaybeSent
                /\ reply.status \notin {"Lost", "ServerError", "Done"}
<1> USE UploadPlanAssumption, UploadAssumption, ChunkWhole DEF Step, Fail
<1>1. CASE reply.status = "Done"  BY <1>1 DEF step, NextUploadStep
<1>2. CASE reply.status = "Resume"
  <2> DEFINE skip == reply.next - offset
             accepted == Accepted(final, skip, pending)
             stalls == StallsAfter(skip > chunk_state.skip \/ accepted, chunk_state)
             kept == [chunk_state EXCEPT !.skip = skip, !.stalls = stalls]
             bad == ~Resumable(offset, pending, reply.next) \/ stalls > MaxChunkAttempts
  <2>1. step = IF bad THEN Fail(final, chunk_state)
               ELSE IF accepted THEN Step("ACCEPTED", kept)
               ELSE IF UnalignedRest(final, skip, pending, reply.next) THEN Fail(final, kept)
               ELSE Step("SEND", kept)
    BY <1>2 DEF step, NextUploadStep, AfterResume
  <2>2. kept.finalMaybeSent = chunk_state.finalMaybeSent /\ kept.skip = skip
    BY DEF TypeOK
  <2>3. ~bad => kept \in ChunkStates
    <3>1. stalls \in Nat  BY DEF TypeOK, StallsAfter
    <3> HIDE DEF stalls
    <3>2. ~bad => skip \in 0..MaxBytes /\ stalls \in 0..MaxChunkAttempts
      BY <3>1 DEF TypeOK, Resumable
    <3>3. chunk_state \in ChunkStates  BY DEF TypeOK, ChunkStates
    <3> QED  BY <3>2, <3>3, ChunkStateMoves
  <2>4. offset + skip = reply.next  BY DEF TypeOK
  <2> HIDE DEF kept, stalls
  <2> QED  BY <1>2, <2>1, <2>2, <2>3, <2>4 DEF TypeOK, Accepted, UnalignedRest, Resumable
<1>3. CASE reply.status \notin {"Done", "Resume"}
  <2> DEFINE maybe == \/ chunk_state.finalMaybeSent
                      \/ final /\ reply.status \in {"Lost", "ServerError"}
             count == IF reply.status \in Retryable THEN chunk_state.failures + 1
                                                    ELSE chunk_state.failures
             tried == [chunk_state EXCEPT !.finalMaybeSent = maybe, !.failures = count]
  <2>1. step = IF reply.status \in Retryable /\ tried.failures <= MaxChunkAttempts
               THEN Step("ASK_STATUS", tried) ELSE Fail(final, tried)
    BY <1>3, Zenon DEF step, NextUploadStep, AfterError
  <2>2. maybe \in BOOLEAN  OBVIOUS
  <2>3. count \in Nat  BY DEF TypeOK
  <2> HIDE DEF maybe, count
  <2>4. chunk_state \in ChunkStates  BY DEF TypeOK, ChunkStates
  <2>5. tried.finalMaybeSent = maybe /\ tried.failures = count
    BY <2>2, <2>3, <2>4 DEF ChunkStates
  <2>6. ASSUME count <= MaxChunkAttempts PROVE tried \in ChunkStates
    <3>1. count \in 0..MaxChunkAttempts  BY <2>3, <2>6
    <3> QED  BY <2>2, <2>4, <3>1, ChunkStateTries
  <2> USE DEF maybe
  <2> HIDE DEF tried
  <2> QED  BY <1>3, <2>1, <2>5, <2>6
<1> QED  BY <1>1, <1>2, <1>3

-----------------------------------------------------------------------------
(***************************************************************************)
(* The invariant.                                                          *)
(***************************************************************************)

\* Write(), up to the request that sends a chunk.
LEMMA WritingKeepsBytes ==
    ASSUME IInv, DInv, IInv', SInv',
           Fill \/ WriteReturns \/ SendUploadChunk \/ StartRetries \/ StartResumableUpload
    PROVE  DInv'
<1> USE UploadPlanAssumption, UploadAssumption, ChunkWhole
        DEF handleVars, bufferVars, callVars, chunkVars, netVars, driveVars, Replies, Publications,
            Chunking, Finishing, Sending, Single, Streaming, OnTheWay,
            IInv, Types, RequestsKnown, ThreadInWrite, BrokenIsOver, StreamingIsSilent,
            SingleHasNoSession, OnceInSession, OnceWithoutId, SessionAccounted,
            DInv, TypeOK, BytesKept, WholeRequests, Untorn, OutcomeKept, RepliesKnown, Aligned,
            Window
<1>1. CASE Fill
  <2> USE <1>1 DEF Fill, Taken
  <2>1. TypeOK'
    BY IInv' DEF PcValues, ChunkStates, FreshChunkState, Requests, Request, NoRequest,
        Sessions
  <2>2. BytesKept'  OBVIOUS
  <2>3. WholeRequests'  BY DEF Request, Requests
  <2>4. Untorn'  OBVIOUS
  <2>5. OutcomeKept'  BY DEF Request
  <2>6. RepliesKnown'  BY DEF Sessions, FreshChunkState
  <2>7. Aligned'  BY DEF Request, Requests, FreshChunkState
  <2>8. Window'  BY DEF Sessions
  <2> QED  BY <2>1, <2>2, <2>3, <2>4, <2>5, <2>6, <2>7, <2>8
<1>2. CASE WriteReturns
  <2> USE <1>2 DEF WriteReturns
  <2>1. TypeOK'
    BY IInv' DEF PcValues, ChunkStates, FreshChunkState, Requests, Request, NoRequest,
        Sessions
  <2>2. BytesKept'  OBVIOUS
  <2>3. WholeRequests'  BY DEF Request, Requests
  <2>4. Untorn'  OBVIOUS
  <2>5. OutcomeKept'  BY DEF Request
  <2>6. RepliesKnown'  BY DEF Sessions, FreshChunkState
  <2>7. Aligned'  BY DEF Request, Requests, FreshChunkState
  <2>8. Window'  BY DEF Sessions
  <2> QED  BY <2>1, <2>2, <2>3, <2>4, <2>5, <2>6, <2>7, <2>8
<1>3. CASE SendUploadChunk
  <2> USE <1>3 DEF SendUploadChunk, BeginChunk
  <2>1. TypeOK'
    <3>1. chunk_state' \in ChunkStates
      BY FreshState DEF ChunkStates
    <3> QED  BY <3>1, IInv' DEF PcValues, ChunkStates, FreshChunkState, Requests, Request,
        NoRequest, Sessions
  <2>2. BytesKept'  OBVIOUS
  <2>3. WholeRequests'  BY DEF Request, Requests
  <2>4. Untorn'  OBVIOUS
  <2>5. OutcomeKept'  BY DEF Request
  <2>6. RepliesKnown'  BY DEF Sessions, FreshChunkState
  <2>7. Aligned'  BY DEF Request, Requests, FreshChunkState
  <2>8. Window'  BY DEF Sessions
  <2> QED  BY <2>1, <2>2, <2>3, <2>4, <2>5, <2>6, <2>7, <2>8
<1>4. CASE StartResumableUpload
  <2> USE <1>4 DEF StartResumableUpload, BeginChunk
  <2>1. TypeOK'
    <3>1. session' \in Sessions
      BY DEF Sessions
    <3>2. chunk_state' \in ChunkStates
      BY IInv' DEF PcValues, ChunkStates, FreshChunkState, Requests, Request, NoRequest,
          Sessions
    <3> QED  BY <3>1, <3>2, IInv' DEF PcValues, ChunkStates, FreshChunkState, Requests,
        Request, NoRequest, Sessions
  <2>2. BytesKept'  OBVIOUS
  <2>3. WholeRequests'  BY DEF Request, Requests
  <2>4. Untorn'  OBVIOUS
  <2>5. OutcomeKept'  BY DEF Request
  <2>6. RepliesKnown'  BY DEF Sessions, FreshChunkState
  <2>7. Aligned'  BY DEF Request, Requests, FreshChunkState
  <2>8. Window'  BY DEF Sessions
  <2> QED  BY <2>1, <2>2, <2>3, <2>4, <2>5, <2>6, <2>7, <2>8
<1>5. CASE StartRetries
  <2> USE <1>5 DEF StartRetries
  <2>1. TypeOK'
    <3>1. orphans' \in 0..MaxAttempts  BY SInv' DEF SInv
    <3>2. attempt' \in 0..MaxAttempts  OBVIOUS
    <3> QED  BY <3>1, <3>2, IInv' DEF PcValues, ChunkStates, FreshChunkState, Requests,
        Request, NoRequest, Sessions
  <2>2. BytesKept'  OBVIOUS
  <2>3. WholeRequests'  BY DEF Request, Requests
  <2>4. Untorn'  OBVIOUS
  <2>5. OutcomeKept'  BY DEF Request
  <2>6. RepliesKnown'  BY DEF Sessions, FreshChunkState
  <2>7. Aligned'  BY DEF Request, Requests, FreshChunkState
  <2>8. Window'  BY DEF Sessions
  <2> QED  BY <2>1, <2>2, <2>3, <2>4, <2>5, <2>6, <2>7, <2>8
<1> QED  BY <1>1, <1>2, <1>3, <1>4, <1>5

\* The request loop of a chunk.
LEMMA ChunkKeepsBytes ==
    ASSUME IInv, DInv, IInv', SendRequest \/ ChunkContinues \/ ChunkAccepted
    PROVE  DInv'
<1> USE UploadPlanAssumption, UploadAssumption, ChunkWhole
        DEF handleVars, bufferVars, callVars, chunkVars, netVars, driveVars, Replies, Publications,
            Chunking, Finishing, Sending, Single, Streaming, OnTheWay,
            IInv, Types, RequestsKnown, ThreadInWrite, BrokenIsOver, StreamingIsSilent,
            SingleHasNoSession, OnceInSession, OnceWithoutId, SessionAccounted,
            DInv, TypeOK, BytesKept, WholeRequests, Untorn, OutcomeKept, RepliesKnown, Aligned,
            Window
<1>1. CASE SendRequest
  <2> USE <1>1 DEF SendRequest
  <2>1. TypeOK'
    <3>1. wire' \in Requests
      BY SendsPending
    <3> QED  BY <3>1, IInv' DEF PcValues, ChunkStates, FreshChunkState, Requests, Request,
        NoRequest, Sessions
  <2>2. BytesKept'  OBVIOUS
  <2>3. WholeRequests'
    <3>1. OnTheWay' = late \cup {wire'}  OBVIOUS
    <3>2. wire'.from + wire'.len = position \/ ~final
      BY SendsPending DEF StreamingIsSilent
    <3>3. \A r \in late : r \in OnTheWay  OBVIOUS
    <3> QED  BY <3>1, <3>2, <3>3, SendsPending DEF WholeRequests
  <2>4. Untorn'  OBVIOUS
  <2>5. OutcomeKept'  BY DEF Request
  <2>6. RepliesKnown'  BY DEF Sessions, FreshChunkState
  <2>7. Aligned'
    <3>1. OnTheWay' = late \cup {wire'}  OBVIOUS
    <3>2. \A r \in late : r \in OnTheWay  OBVIOUS
    <3>3. ~final /\ wire'.len > 0 => /\ wire'.from % ChunkMultiple = 0
                                    /\ wire'.len % ChunkMultiple = 0
      BY SendsPending
    <3> QED  BY <3>1, <3>2, <3>3, SendsPending DEF Aligned, OnceWithoutId
  <2>8. Window'  BY DEF Sessions
  <2> QED  BY <2>1, <2>2, <2>3, <2>4, <2>5, <2>6, <2>7, <2>8
<1>2. CASE ChunkContinues
  <2> USE <1>2, StepMeaning DEF ChunkContinues, InUploadChunk
  <2>1. TypeOK'
    BY IInv' DEF PcValues, ChunkStates, FreshChunkState, Requests, Request, NoRequest,
        Sessions
  <2>2. BytesKept'  OBVIOUS
  <2>3. WholeRequests'  BY DEF Request, Requests
  <2>4. Untorn'  OBVIOUS
  <2>5. OutcomeKept'  BY DEF Request
  <2>6. RepliesKnown'  BY DEF Sessions, FreshChunkState
  <2>7. Aligned'  BY DEF Request, Requests, FreshChunkState
  <2>8. Window'  BY DEF Sessions
  <2> QED  BY <2>1, <2>2, <2>3, <2>4, <2>5, <2>6, <2>7, <2>8
<1>3. CASE ChunkAccepted
  <2> USE <1>3, StepKind, StepMeaning DEF ChunkAccepted, InUploadChunk
  <2>1. TypeOK'
    BY IInv' DEF PcValues, ChunkStates, FreshChunkState, Requests, Request, NoRequest,
        Sessions
  <2>2. BytesKept'  OBVIOUS
  <2>3. WholeRequests'  BY DEF Request, Requests
  <2>4. Untorn'  OBVIOUS
  <2>5. OutcomeKept'  BY DEF Request
  <2>6. RepliesKnown'  BY DEF Sessions, FreshChunkState
  <2>7. Aligned'
    <3>1. pending = chunk
      BY DEF Request, Requests, FreshChunkState
    <3>2. offset \in Int /\ offset % ChunkMultiple = 0
      BY DEF Request, Requests, FreshChunkState
    <3>3. (offset + pending) % ChunkMultiple = 0
      BY <3>1, <3>2, MultiplesAdd
    <3> QED  BY <3>1, <3>2, <3>3 DEF Request, Requests, FreshChunkState
  <2>8. Window'
    <3>1. reply.status = "Resume" /\ reply.next = offset + pending
      BY DEF Sessions
    <3> QED  BY <3>1 DEF Sessions
  <2> QED  BY <2>1, <2>2, <2>3, <2>4, <2>5, <2>6, <2>7, <2>8
<1> QED  BY <1>1, <1>2, <1>3

\* Write() throws.
LEMMA ThrowKeepsBytes ==
    ASSUME IInv, DInv, IInv', SInv', StartFails \/ ChunkFails
    PROVE  DInv'
<1>1. /\ WriteThrows /\ UNCHANGED <<final, chunk_state, next_kind>>
      /\ attempt' = 0 \/ attempt' = attempt
      /\ pc = "starting" \/ (pc = "reply" /\ attempt = 0 /\ ~final)
  BY DEF StartFails, ChunkFails, InUploadChunk, chunkVars
<1>0. orphans' \in 0..MaxAttempts  BY SInv', UploadAssumption DEF SInv
<1> USE UploadPlanAssumption, UploadAssumption, ChunkWhole
        DEF handleVars, bufferVars, callVars, chunkVars, netVars, driveVars, Replies, Publications,
            Chunking, Finishing, Sending, Single, Streaming, OnTheWay,
            IInv, Types, RequestsKnown, ThreadInWrite, BrokenIsOver, StreamingIsSilent,
            SingleHasNoSession, OnceInSession, OnceWithoutId, SessionAccounted,
            DInv, TypeOK, BytesKept, WholeRequests, Untorn, OutcomeKept, RepliesKnown, Aligned,
            Window
<1> USE <1>1 DEF WriteThrows, AbortUpload
<1>2. QED
  <2>1. TypeOK'
    BY <1>0, IInv' DEF PcValues, ChunkStates, FreshChunkState, Requests, Request, NoRequest,
        Sessions
  <2>2. BytesKept'  OBVIOUS
  <2>3. WholeRequests'  BY DEF Request, Requests
  <2>4. Untorn'  OBVIOUS
  <2>5. OutcomeKept'  BY DEF Request
  <2>6. RepliesKnown'  BY DEF Sessions, FreshChunkState
  <2>7. Aligned'  BY DEF Request, Requests, FreshChunkState
  <2>8. Window'  BY DEF Sessions
  <2> QED  BY <2>1, <2>2, <2>3, <2>4, <2>5, <2>6, <2>7, <2>8

\* Close() begins, or the handle is cancelled or dropped.
LEMMA CloseBeginsBytes ==
    ASSUME IInv, DInv, IInv',
           CloseFailed \/ CloseFinalChunk \/ CloseSingleRequest \/ CancelWrite \/ Destroy
    PROVE  DInv'
<1> USE UploadPlanAssumption, UploadAssumption, ChunkWhole
        DEF handleVars, bufferVars, callVars, chunkVars, netVars, driveVars, Replies, Publications,
            Chunking, Finishing, Sending, Single, Streaming, OnTheWay,
            IInv, Types, RequestsKnown, ThreadInWrite, BrokenIsOver, StreamingIsSilent,
            SingleHasNoSession, OnceInSession, OnceWithoutId, SessionAccounted,
            DInv, TypeOK, BytesKept, WholeRequests, Untorn, OutcomeKept, RepliesKnown, Aligned,
            Window
<1>1. CASE CloseFailed
  <2> USE <1>1 DEF CloseFailed, AbortUpload
  <2>1. TypeOK'
    BY IInv' DEF PcValues, ChunkStates, FreshChunkState, Requests, Request, NoRequest,
        Sessions
  <2>2. BytesKept'  OBVIOUS
  <2>3. WholeRequests'  BY DEF Request, Requests
  <2>4. Untorn'  OBVIOUS
  <2>5. OutcomeKept'  BY DEF Request
  <2>6. RepliesKnown'  BY DEF Sessions, FreshChunkState
  <2>7. Aligned'  BY DEF Request, Requests, FreshChunkState
  <2>8. Window'  BY DEF Sessions
  <2> QED  BY <2>1, <2>2, <2>3, <2>4, <2>5, <2>6, <2>7, <2>8
<1>2. CASE CloseFinalChunk
  <2> USE <1>2 DEF CloseFinalChunk, Publishable, BeginChunk
  <2>1. TypeOK'
    BY IInv' DEF PcValues, ChunkStates, FreshChunkState, Requests, Request, NoRequest,
        Sessions
  <2>2. BytesKept'  OBVIOUS
  <2>3. WholeRequests'  BY DEF Request, Requests
  <2>4. Untorn'  OBVIOUS
  <2>5. OutcomeKept'  BY DEF Request
  <2>6. RepliesKnown'  BY DEF Sessions, FreshChunkState
  <2>7. Aligned'  BY DEF Request, Requests, FreshChunkState
  <2>8. Window'  BY DEF Sessions
  <2> QED  BY <2>1, <2>2, <2>3, <2>4, <2>5, <2>6, <2>7, <2>8
<1>3. CASE CloseSingleRequest
  <2> USE <1>3 DEF CloseSingleRequest, Publishable
  <2>1. TypeOK'
    BY IInv' DEF PcValues, ChunkStates, FreshChunkState, Requests, Request, NoRequest,
        Sessions
  <2>2. BytesKept'  OBVIOUS
  <2>3. WholeRequests'  BY DEF Request, Requests
  <2>4. Untorn'  OBVIOUS
  <2>5. OutcomeKept'  BY DEF Request
  <2>6. RepliesKnown'  BY DEF Sessions, FreshChunkState
  <2>7. Aligned'  BY DEF Request, Requests, FreshChunkState
  <2>8. Window'  BY DEF Sessions
  <2> QED  BY <2>1, <2>2, <2>3, <2>4, <2>5, <2>6, <2>7, <2>8
<1>4. CASE CancelWrite
  <2> USE <1>4 DEF CancelWrite, AbortUpload
  <2>1. TypeOK'
    BY IInv' DEF PcValues, ChunkStates, FreshChunkState, Requests, Request, NoRequest,
        Sessions
  <2>2. BytesKept'  OBVIOUS
  <2>3. WholeRequests'  BY DEF Request, Requests
  <2>4. Untorn'  OBVIOUS
  <2>5. OutcomeKept'  BY DEF Request
  <2>6. RepliesKnown'  BY DEF Sessions, FreshChunkState
  <2>7. Aligned'  BY DEF Request, Requests, FreshChunkState
  <2>8. Window'  BY DEF Sessions
  <2> QED  BY <2>1, <2>2, <2>3, <2>4, <2>5, <2>6, <2>7, <2>8
<1>5. CASE Destroy
  <2> USE <1>5 DEF Destroy, AbortUpload
  <2>1. TypeOK'
    BY IInv' DEF PcValues, ChunkStates, FreshChunkState, Requests, Request, NoRequest,
        Sessions
  <2>2. BytesKept'  OBVIOUS
  <2>3. WholeRequests'  BY DEF Request, Requests
  <2>4. Untorn'  OBVIOUS
  <2>5. OutcomeKept'  BY DEF Request
  <2>6. RepliesKnown'  BY DEF Sessions, FreshChunkState
  <2>7. Aligned'  BY DEF Request, Requests, FreshChunkState
  <2>8. Window'  BY DEF Sessions
  <2> QED  BY <2>1, <2>2, <2>3, <2>4, <2>5, <2>6, <2>7, <2>8
<1> QED  BY <1>1, <1>2, <1>3, <1>4, <1>5

\* Close() goes on, succeeds or throws.
LEMMA CloseKeepsBytes ==
    ASSUME IInv, DInv, IInv',
           \/ GenerateFileId \/ PostMultipart \/ MultipartRetries \/ MultipartConflict
           \/ CloseSucceeds \/ FinalChunkFails \/ MultipartFails \/ GetMetadataFails
    PROVE  DInv'
<1> USE UploadPlanAssumption, UploadAssumption, ChunkWhole
        DEF handleVars, bufferVars, callVars, chunkVars, netVars, driveVars, Replies, Publications,
            Chunking, Finishing, Sending, Single, Streaming, OnTheWay,
            IInv, Types, RequestsKnown, ThreadInWrite, BrokenIsOver, StreamingIsSilent,
            SingleHasNoSession, OnceInSession, OnceWithoutId, SessionAccounted,
            DInv, TypeOK, BytesKept, WholeRequests, Untorn, OutcomeKept, RepliesKnown, Aligned,
            Window
<1>1. CASE GenerateFileId
  <2> USE <1>1 DEF GenerateFileId
  <2>1. TypeOK'
    BY IInv' DEF PcValues, ChunkStates, FreshChunkState, Requests, Request, NoRequest,
        Sessions
  <2>2. BytesKept'  OBVIOUS
  <2>3. WholeRequests'  BY DEF Request, Requests
  <2>4. Untorn'  OBVIOUS
  <2>5. OutcomeKept'  BY DEF Request
  <2>6. RepliesKnown'  BY DEF Sessions, FreshChunkState
  <2>7. Aligned'  BY DEF Request, Requests, FreshChunkState
  <2>8. Window'  BY DEF Sessions
  <2> QED  BY <2>1, <2>2, <2>3, <2>4, <2>5, <2>6, <2>7, <2>8
<1>2. CASE PostMultipart
  <2> USE <1>2 DEF PostMultipart
  <2>1. TypeOK'
    BY IInv' DEF PcValues, ChunkStates, FreshChunkState, Requests, Request, NoRequest,
        Sessions
  <2>2. BytesKept'  OBVIOUS
  <2>3. WholeRequests'  BY DEF Request, Requests
  <2>4. Untorn'  OBVIOUS
  <2>5. OutcomeKept'  BY DEF Request
  <2>6. RepliesKnown'  BY DEF Sessions, FreshChunkState
  <2>7. Aligned'  BY DEF Request, Requests, FreshChunkState
  <2>8. Window'  BY DEF Sessions
  <2> QED  BY <2>1, <2>2, <2>3, <2>4, <2>5, <2>6, <2>7, <2>8
<1>3. CASE MultipartRetries
  <2> USE <1>3 DEF MultipartRetries, InMultipart, MayRetry
  <2>1. TypeOK'
    BY IInv' DEF PcValues, ChunkStates, FreshChunkState, Requests, Request, NoRequest,
        Sessions
  <2>2. BytesKept'  OBVIOUS
  <2>3. WholeRequests'  BY DEF Request, Requests
  <2>4. Untorn'  OBVIOUS
  <2>5. OutcomeKept'  BY DEF Request
  <2>6. RepliesKnown'  BY DEF Sessions, FreshChunkState
  <2>7. Aligned'  BY DEF Request, Requests, FreshChunkState
  <2>8. Window'  BY DEF Sessions
  <2> QED  BY <2>1, <2>2, <2>3, <2>4, <2>5, <2>6, <2>7, <2>8
<1>4. CASE MultipartConflict
  <2> USE <1>4 DEF MultipartConflict, InMultipart
  <2>1. TypeOK'
    BY IInv' DEF PcValues, ChunkStates, FreshChunkState, Requests, Request, NoRequest,
        Sessions
  <2>2. BytesKept'  OBVIOUS
  <2>3. WholeRequests'  BY DEF Request, Requests
  <2>4. Untorn'  OBVIOUS
  <2>5. OutcomeKept'  BY DEF Request
  <2>6. RepliesKnown'  BY DEF Sessions, FreshChunkState
  <2>7. Aligned'  BY DEF Request, Requests, FreshChunkState
  <2>8. Window'  BY DEF Sessions
  <2> QED  BY <2>1, <2>2, <2>3, <2>4, <2>5, <2>6, <2>7, <2>8
<1>5. CASE CloseSucceeds
  <2> USE <1>5, StepKind DEF CloseSucceeds, InUploadChunk, InMultipart, CloseReturns
  <2>1. TypeOK'
    BY IInv' DEF PcValues, ChunkStates, FreshChunkState, Requests, Request, NoRequest,
        Sessions
  <2>2. BytesKept'  OBVIOUS
  <2>3. WholeRequests'  BY DEF Request, Requests
  <2>4. Untorn'  OBVIOUS
  <2>5. OutcomeKept'  BY DEF Request
  <2>6. RepliesKnown'  BY DEF Sessions, FreshChunkState
  <2>7. Aligned'  BY DEF Request, Requests, FreshChunkState
  <2>8. Window'  BY DEF Sessions
  <2> QED  BY <2>1, <2>2, <2>3, <2>4, <2>5, <2>6, <2>7, <2>8
<1>6. CASE FinalChunkFails
  <2> USE <1>6, StepMeaning DEF FinalChunkFails, InUploadChunk, CloseThrows, AbortUpload
  <2>1. TypeOK'
    BY IInv' DEF PcValues, ChunkStates, FreshChunkState, Requests, Request, NoRequest,
        Sessions
  <2>2. BytesKept'  OBVIOUS
  <2>3. WholeRequests'  BY DEF Request, Requests
  <2>4. Untorn'  OBVIOUS
  <2>5. OutcomeKept'  BY DEF Request
  <2>6. RepliesKnown'  BY DEF Sessions, FreshChunkState
  <2>7. Aligned'  BY DEF Request, Requests, FreshChunkState
  <2>8. Window'  BY DEF Sessions
  <2> QED  BY <2>1, <2>2, <2>3, <2>4, <2>5, <2>6, <2>7, <2>8
<1>7. CASE MultipartFails
  <2> USE <1>7 DEF MultipartFails, InMultipart, CloseThrows, AbortUpload
  <2>1. TypeOK'
    BY IInv' DEF PcValues, ChunkStates, FreshChunkState, Requests, Request, NoRequest,
        Sessions
  <2>2. BytesKept'  OBVIOUS
  <2>3. WholeRequests'  BY DEF Request, Requests
  <2>4. Untorn'  OBVIOUS
  <2>5. OutcomeKept'  BY DEF Request
  <2>6. RepliesKnown'  BY DEF Sessions, FreshChunkState
  <2>7. Aligned'  BY DEF Request, Requests, FreshChunkState
  <2>8. Window'  BY DEF Sessions
  <2> QED  BY <2>1, <2>2, <2>3, <2>4, <2>5, <2>6, <2>7, <2>8
<1>8. CASE GetMetadataFails
  <2> USE <1>8 DEF GetMetadataFails, CloseThrows, AbortUpload
  <2>1. TypeOK'
    BY IInv' DEF PcValues, ChunkStates, FreshChunkState, Requests, Request, NoRequest,
        Sessions
  <2>2. BytesKept'  OBVIOUS
  <2>3. WholeRequests'  BY DEF Request, Requests
  <2>4. Untorn'  OBVIOUS
  <2>5. OutcomeKept'  BY DEF Request
  <2>6. RepliesKnown'  BY DEF Sessions, FreshChunkState
  <2>7. Aligned'  BY DEF Request, Requests, FreshChunkState
  <2>8. Window'  BY DEF Sessions
  <2> QED  BY <2>1, <2>2, <2>3, <2>4, <2>5, <2>6, <2>7, <2>8
<1> QED  BY <1>1, <1>2, <1>3, <1>4, <1>5, <1>6, <1>7, <1>8

\* A request that arrives, now or late, puts bytes at their place, publishes the stream
\* whole or nothing, and Drive's answer says which.
LEMMA ArrivalKeepsBytes ==
    ASSUME IInv, DInv, NEW r \in OnTheWay, NEW e \in Effects(r), TakesEffect(e)
    PROVE  /\ session' \in Sessions /\ published' \in Publications
           /\ session.held <= session'.held /\ session'.held <= offset + pending
           /\ ~session'.torn /\ ~published'.torn
           /\ published'.count = 1 => published'.len = position
           /\ published' # published => r.total
           /\ e.truth \in Replies
           /\ e.truth.status = "Resume" => r.kind = "Session" /\ e.truth.next = session'.held
           /\ IF e.truth.status \in {"Done", "Conflict"}
              THEN published'.count = 1
              ELSE published' = published
<1> USE DEF Replies, Publications
<1>1. session' = e.session /\ published' = e.published  BY DEF TakesEffect
<1>2. /\ r \in Requests /\ r.from + r.len <= offset + pending /\ r.from + r.len <= MaxBytes
      /\ r.from + r.len \in 0..MaxBytes
      /\ r.total => r.from + r.len = position
  BY ChunkWhole, UploadAssumption DEF DInv, TypeOK, BytesKept, WholeRequests, OnTheWay, Requests
<1>3. session \in Sessions /\ ~session.torn /\ session.held <= offset + pending
  BY DEF DInv, TypeOK, Sessions, Untorn, Window
<1>4. /\ published \in Publications
      /\ ~published.torn /\ (published.count = 1 => published.len = position)
  BY DEF DInv, TypeOK, Untorn
<1>5. OnceInSession /\ OnceInSession'  BY ArrivalKeeps DEF IInv
<1>6. CASE r.kind = "Session"
  <2>1. e \in SessionEffects(r) /\ r.from = r.first
    BY <1>6 DEF Effects, DInv, WholeRequests
  <2>2. /\ e.session \in Sessions /\ e.session.torn = session.torn
        /\ session.held <= e.session.held
        /\ e.session.held <= session.held \/ e.session.held <= r.from + r.len
        /\ IF e.session.status = "complete" /\ session.status = "open"
           THEN r.total /\ e.published = Publication(r.from + r.len, session.torn)
           ELSE e.published = published
        /\ e.truth = Truth(e.session)
    BY <1>2, <1>3, <2>1, SessionBytes
  <2>3. /\ session' \in Sessions /\ ~session'.torn
        /\ session.held <= session'.held /\ session'.held <= offset + pending
    <3>1. session'.held <= session.held \/ session'.held <= r.from + r.len
      BY <1>1, <2>2
    <3>2. session' \in Sessions /\ ~session'.torn /\ session.held <= session'.held
      BY <1>1, <1>3, <2>2
    <3>3. /\ session.held \in Int /\ session'.held \in Int
          /\ offset + pending \in Int /\ r.from + r.len \in Int
      BY <1>2, <1>3, <3>2, ChunkWhole, UploadAssumption DEF Sessions, DInv, TypeOK
    <3> QED  BY <1>2, <1>3, <3>1, <3>2, <3>3
  <2>4. CASE e.session.status = "complete" /\ session.status = "open"
    <3>0. r.total /\ e.published = Publication(r.from + r.len, session.torn)  BY <2>2, <2>4
    <3>1. published' = [count |-> published.count + 1, len |-> position, torn |-> session.torn]
      BY <1>1, <1>2, <3>0 DEF Publication
    <3>2. published.count = 0  BY <1>5, <2>4 DEF OnceInSession
    <3>3. /\ published' \in Publications
          /\ published'.count = 1 /\ published'.len = position /\ published'.torn = session.torn
      BY <1>3, <3>1, <3>2 DEF DInv, TypeOK, Sessions
    <3>4. e.truth = [status |-> "Done", next |-> 0]  BY <2>2, <2>4 DEF Truth, Answer
    <3>5. /\ e.truth \in Replies /\ e.truth.status = "Done"
      BY <3>4, UploadAssumption DEF Statuses
    <3> QED  BY <1>3, <2>3, <3>0, <3>3, <3>5
  <2>5. CASE ~(e.session.status = "complete" /\ session.status = "open")
    <3>1. published' = published  BY <1>1, <2>2, <2>5
    <3>2. e.truth = Truth(session')  BY <1>1, <2>2
    <3>3. /\ e.truth \in Replies
          /\ e.truth.status # "Conflict"
          /\ e.truth.status = "Resume" => e.truth.next = session'.held
          /\ e.truth.status = "Done" => session'.status = "complete"
      BY <1>1, <2>2, <3>2, UploadAssumption DEF Truth, Answer, Statuses, Sessions
    <3>4. e.truth.status = "Done" => published'.count = 1
      BY <1>5, <3>3 DEF OnceInSession
    <3> QED  BY <1>4, <1>6, <2>3, <3>1, <3>3, <3>4
  <2> QED  BY <2>4, <2>5
<1>7. CASE r.kind # "Session"
  <2>1. r.kind = "Multipart" /\ r.total  BY <1>7 DEF IInv, RequestsKnown
  <2>2. r.from = 0 /\ r.len = position  BY <1>2, <2>1 DEF DInv, WholeRequests, Requests
  <2>3. e \in MultipartEffects(r)  BY <1>7 DEF Effects
  <2>4. /\ session' \in Sessions /\ ~session'.torn
        /\ session.held <= session'.held /\ session'.held <= offset + pending
    <3>1. session' = session  BY <1>1, <2>3, MultipartBytes
    <3> QED  BY <1>3, <3>1 DEF Sessions
  <2>5. CASE reserved /\ published.count > 0
    <3>1. published' = published /\ e.truth = [status |-> "Conflict", next |-> 0]
      BY <1>1, <2>3, <2>5, MultipartBytes DEF Answer
    <3>2. published.count = 1  BY <1>4, <2>5
    <3>3. e.truth \in Replies
      BY <3>1, UploadAssumption
    <3> QED  BY <1>4, <2>4, <3>1, <3>2, <3>3
  <2>6. CASE ~(reserved /\ published.count > 0)
    <3>1. /\ published' = [count |-> published.count + 1, len |-> position, torn |-> FALSE]
          /\ e.truth = [status |-> "Done", next |-> 0]
      BY <1>1, <2>2, <2>3, <2>6, MultipartBytes DEF Answer, Publication
    <3>2. published.count = 0  BY <1>4, <1>5, <3>1 DEF OnceInSession
    <3>3. e.truth \in Replies
      BY <3>1, UploadAssumption DEF Statuses
    <3>4. published' \in Publications
      BY <3>1, <3>2 DEF DInv, TypeOK
    <3> QED  BY <2>1, <2>4, <3>1, <3>2, <3>3, <3>4
  <2> QED  BY <2>5, <2>6
<1> QED  BY <1>6, <1>7

\* The wire: an answer that tells what was applied, or one that does not.
LEMMA AnswerKeepsBytes ==
    ASSUME IInv, DInv, IInv', DriveAnswers \/ AnswerLost
    PROVE  DInv'
<1> USE DEF Replies, Publications
<1> DEFINE SaysWith(e, a) ==
             /\ TakesEffect(e) /\ Answered(a) /\ UNCHANGED late
             /\ a = e.truth \/ \E status \in {"Lost", "ServerError"} : a = Answer(status, 0)
<1>0. PICK e \in Effects(wire) : \E a : SaysWith(e, a)
  BY DEF DriveAnswers, AnswerLost
<1>1. PICK a : SaysWith(e, a)  BY <1>0
<1>2. wire \in OnTheWay  BY <1>1 DEF Answered, OnTheWay
<1>3. /\ session' \in Sessions /\ published' \in Publications
      /\ session.held <= session'.held /\ session'.held <= offset + pending
      /\ ~session'.torn /\ ~published'.torn
      /\ published'.count = 1 => published'.len = position
      /\ published' # published => wire.total
      /\ session'.status = "open" => session.status = "open"
  BY <1>1, <1>2, ArrivalKeepsBytes, ArrivalKeeps
<1> DEFINE Known ==
             /\ a \in Replies
             /\ a.status = "Resume" => a.next = session'.held
             /\ a.status \in {"Done", "Conflict"} => published'.count = 1
             /\ a.status \notin {"Done", "Conflict", "Lost", "ServerError"} 
                  => published' = published
             /\ a.status = "Conflict" => attempt > 0
<1>4. Known
  <2>1. CASE a = e.truth
    <3>1. /\ e.truth \in Replies
          /\ e.truth.status = "Resume" => e.truth.next = session'.held
          /\ IF e.truth.status \in {"Done", "Conflict"}
             THEN published'.count = 1 ELSE published' = published
      BY <1>1, <1>2, ArrivalKeepsBytes
    <3>2. e.truth.status = "Conflict" => attempt > 0
      <4>1. CASE wire.kind = "Session"
        <5>1. e \in SessionEffects(wire)  BY <4>1 DEF Effects
        <5>2. e.truth.status # "Conflict"  BY <5>1 DEF SessionEffects, Effect, Truth, Answer
        <5> QED  BY <5>2
      <4>2. CASE wire.kind # "Session"  BY <1>2, <4>2 DEF IInv, RequestsKnown
      <4> QED  BY <4>1, <4>2
    <3> QED  BY <2>1, <3>1, <3>2
  <2>2. ASSUME NEW status \in {"Lost", "ServerError"}, a = Answer(status, 0)
        PROVE  Known
    BY <2>2, UploadAssumption DEF Answer, Statuses
  <2> QED  BY <1>1, <2>1, <2>2
<1>5. /\ pc = "await" /\ pc' = "reply" /\ reply' = a /\ wire' = NoRequest /\ late' = late
      /\ UNCHANGED <<handleVars, bufferVars, callVars, chunkVars, orphans, cancelled>>
  BY <1>1 DEF Answered
<1> USE UploadPlanAssumption, UploadAssumption, ChunkWhole
        DEF handleVars, bufferVars, callVars, chunkVars, netVars, driveVars, Replies, Publications,
            Chunking, Finishing, Sending, Single, Streaming, OnTheWay,
            IInv, Types, RequestsKnown, ThreadInWrite, BrokenIsOver, StreamingIsSilent,
            SingleHasNoSession, OnceInSession, OnceWithoutId, SessionAccounted,
            DInv, TypeOK, BytesKept, WholeRequests, Untorn, OutcomeKept, RepliesKnown, Aligned,
            Window
<1> USE <1>2, <1>3, <1>4, <1>5
<1>6. QED
  <2>1. TypeOK'
    BY IInv' DEF PcValues, ChunkStates, FreshChunkState, Requests, Request, NoRequest,
        Sessions
  <2>2. BytesKept'  OBVIOUS
  <2>3. WholeRequests'  BY DEF Request, Requests
  <2>4. Untorn'  OBVIOUS
  <2>5. OutcomeKept'  BY DEF Request
  <2>6. RepliesKnown'  BY DEF Sessions, FreshChunkState
  <2>7. Aligned'  BY DEF Request, Requests, FreshChunkState
  <2>8. Window'  BY DEF Sessions
  <2> QED  BY <2>1, <2>2, <2>3, <2>4, <2>5, <2>6, <2>7, <2>8

\* The wire: a refusal, or a timeout after which the request may still arrive.
LEMMA NoAnswerKeepsBytes ==
    ASSUME IInv, DInv, IInv', DriveRefuses \/ RequestTimesOut
    PROVE  DInv'
<1> USE DEF Replies, Publications
<1>1. PICK status \in {"Lost", "ServerError", "RateLimited", "Rejected"} :
        /\ Answered(Answer(status, 0)) /\ UNCHANGED <<session, published>>
        /\ late' = late \/ (late' = late \cup {wire} /\ status = "Lost")
  BY DEF DriveRefuses, RequestTimesOut
<1>2. reply' \in Replies /\ reply'.status = status
  BY <1>1, UploadAssumption DEF Answered, Answer, Statuses
<1>3. /\ pc = "await" /\ pc' = "reply" /\ wire' = NoRequest
      /\ UNCHANGED <<handleVars, bufferVars, callVars, chunkVars, driveVars>>
  BY <1>1 DEF Answered, driveVars
<1> USE UploadPlanAssumption, UploadAssumption, ChunkWhole
        DEF handleVars, bufferVars, callVars, chunkVars, netVars, driveVars, Replies, Publications,
            Chunking, Finishing, Sending, Single, Streaming, OnTheWay,
            IInv, Types, RequestsKnown, ThreadInWrite, BrokenIsOver, StreamingIsSilent,
            SingleHasNoSession, OnceInSession, OnceWithoutId, SessionAccounted,
            DInv, TypeOK, BytesKept, WholeRequests, Untorn, OutcomeKept, RepliesKnown, Aligned,
            Window
<1> USE <1>1, <1>2, <1>3
<1>4. QED
  <2>1. TypeOK'
    BY IInv' DEF PcValues, ChunkStates, FreshChunkState, Requests, Request, NoRequest,
        Sessions
  <2>2. BytesKept'  OBVIOUS
  <2>3. WholeRequests'  BY DEF Request, Requests
  <2>4. Untorn'  OBVIOUS
  <2>5. OutcomeKept'  BY DEF Request
  <2>6. RepliesKnown'  BY DEF Sessions, FreshChunkState
  <2>7. Aligned'  BY DEF Request, Requests, FreshChunkState
  <2>8. Window'  BY DEF Sessions
  <2> QED  BY <2>1, <2>2, <2>3, <2>4, <2>5, <2>6, <2>7, <2>8

\* Drive by itself: a late request arrives, or the session expires.
LEMMA DriveKeepsBytes ==
    ASSUME IInv, DInv, IInv', LateArrival \/ SessionExpires
    PROVE  DInv'
<1> USE UploadPlanAssumption, UploadAssumption, ChunkWhole
        DEF handleVars, bufferVars, callVars, chunkVars, netVars, driveVars, Replies, Publications,
            Chunking, Finishing, Sending, Single, Streaming, OnTheWay,
            IInv, Types, RequestsKnown, ThreadInWrite, BrokenIsOver, StreamingIsSilent,
            SingleHasNoSession, OnceInSession, OnceWithoutId, SessionAccounted,
            DInv, TypeOK, BytesKept, WholeRequests, Untorn, OutcomeKept, RepliesKnown, Aligned,
            Window
<1>1. CASE LateArrival
  <2> DEFINE Moves(r) == (\E e \in Effects(r) : TakesEffect(e)) /\ late' = late \ {r}
  <2>a. PICK r \in late : Moves(r)  BY <1>1 DEF LateArrival
  <2>b. PICK e \in Effects(r) : TakesEffect(e)  BY <2>a
  <2>c. r \in OnTheWay  OBVIOUS
  <2>d. /\ session' \in Sessions /\ published' \in Publications
        /\ session.held <= session'.held /\ session'.held <= offset + pending
        /\ ~session'.torn /\ ~published'.torn
        /\ published'.count = 1 => published'.len = position
        /\ published' # published => r.total
        /\ session'.status = "open" => session.status = "open"
        /\ published.count = 1 => published'.count = 1
    BY <2>b, <2>c, ArrivalKeepsBytes, ArrivalKeeps
  <2>e. /\ late' = late \ {r} /\ late' \subseteq late
        /\ UNCHANGED <<handleVars, bufferVars, callVars, chunkVars, wire, reply, orphans,
                       cancelled, pc>>
    BY <1>1, <2>a DEF LateArrival
  <2> USE <2>c, <2>d, <2>e
  <2>1. TypeOK'
    BY IInv' DEF PcValues, ChunkStates, FreshChunkState, Requests, Request, NoRequest,
        Sessions
  <2>2. BytesKept'  OBVIOUS
  <2>3. WholeRequests'  BY DEF Request, Requests
  <2>4. Untorn'  OBVIOUS
  <2>5. OutcomeKept'  BY DEF Request
  <2>6. RepliesKnown'  BY DEF Sessions, FreshChunkState
  <2>7. Aligned'  BY DEF Request, Requests, FreshChunkState
  <2>8. Window'  BY DEF Sessions
  <2> QED  BY <2>1, <2>2, <2>3, <2>4, <2>5, <2>6, <2>7, <2>8
<1>2. CASE SessionExpires
  <2> USE <1>2 DEF SessionExpires
  <2>1. TypeOK'
    <3>1. session' \in Sessions  BY DEF Sessions
    <3> QED  BY <3>1, IInv' DEF PcValues, ChunkStates, FreshChunkState, Requests, Request,
        NoRequest, Sessions
  <2>2. BytesKept'  OBVIOUS
  <2>3. WholeRequests'  BY DEF Request, Requests
  <2>4. Untorn'  OBVIOUS
  <2>5. OutcomeKept'  BY DEF Request
  <2>6. RepliesKnown'  BY DEF Sessions, FreshChunkState
  <2>7. Aligned'  BY DEF Request, Requests, FreshChunkState
  <2>8. Window'  BY DEF Sessions
  <2> QED  BY <2>1, <2>2, <2>3, <2>4, <2>5, <2>6, <2>7, <2>8
<1> QED  BY <1>1, <1>2

\* Write() is called.
LEMMA WriteKeepsBytes ==
    ASSUME IInv, DInv, IInv', NEW n \in WriteSizes, Write(n)
    PROVE  DInv'
<1> USE UploadPlanAssumption, UploadAssumption, ChunkWhole
        DEF handleVars, bufferVars, callVars, chunkVars, netVars, driveVars, Replies, Publications,
            Chunking, Finishing, Sending, Single, Streaming, OnTheWay,
            IInv, Types, RequestsKnown, ThreadInWrite, BrokenIsOver, StreamingIsSilent,
            SingleHasNoSession, OnceInSession, OnceWithoutId, SessionAccounted,
            DInv, TypeOK, BytesKept, WholeRequests, Untorn, OutcomeKept, RepliesKnown, Aligned,
            Window
<1>1. n \in Nat \ {0}  OBVIOUS
<1>2. QED
  <2> USE <1>1 DEF Write
  <2>1. TypeOK'
    BY IInv' DEF PcValues, ChunkStates, FreshChunkState, Requests, Request, NoRequest,
        Sessions
  <2>2. BytesKept'  OBVIOUS
  <2>3. WholeRequests'  BY DEF Request, Requests
  <2>4. Untorn'  OBVIOUS
  <2>5. OutcomeKept'  BY DEF Request
  <2>6. RepliesKnown'  BY DEF Sessions, FreshChunkState
  <2>7. Aligned'  BY DEF Request, Requests, FreshChunkState
  <2>8. Window'  BY DEF Sessions
  <2> QED  BY <2>1, <2>2, <2>3, <2>4, <2>5, <2>6, <2>7, <2>8

\* Nothing happens.
LEMMA StutterKeepsBytes ==
    ASSUME IInv, DInv, IInv', UNCHANGED vars
    PROVE  DInv'
<1> USE UploadPlanAssumption, UploadAssumption, ChunkWhole
        DEF handleVars, bufferVars, callVars, chunkVars, netVars, driveVars, Replies, Publications,
            Chunking, Finishing, Sending, Single, Streaming, OnTheWay,
            IInv, Types, RequestsKnown, ThreadInWrite, BrokenIsOver, StreamingIsSilent,
            SingleHasNoSession, OnceInSession, OnceWithoutId, SessionAccounted,
            DInv, TypeOK, BytesKept, WholeRequests, Untorn, OutcomeKept, RepliesKnown, Aligned,
            Window
<1>1. QED
  <2> USE DEF vars
  <2>1. TypeOK'
    BY IInv' DEF PcValues, ChunkStates, FreshChunkState, Requests, Request, NoRequest,
        Sessions
  <2>2. BytesKept'  OBVIOUS
  <2>3. WholeRequests'  BY DEF Request, Requests
  <2>4. Untorn'  OBVIOUS
  <2>5. OutcomeKept'  BY DEF Request
  <2>6. RepliesKnown'  BY DEF Sessions, FreshChunkState
  <2>7. Aligned'  BY DEF Request, Requests, FreshChunkState
  <2>8. Window'  BY DEF Sessions
  <2> QED  BY <2>1, <2>2, <2>3, <2>4, <2>5, <2>6, <2>7, <2>8

\* A handle that was just opened satisfies the invariant.
THEOREM InitEstablishesBytes == Init => DInv
<1> SUFFICES ASSUME Init PROVE DInv  OBVIOUS
<1> USE DEF Replies, Publications
<1>1. NoRequest \in Requests  BY UploadAssumption DEF Requests, NoRequest, Request
<1>2. FreshChunkState \in ChunkStates  BY FreshState
<1>3. TypeOK
  <2>1. session \in Sessions /\ published \in Publications
    BY UploadAssumption DEF Init, Sessions
  <2>2. reply \in Replies
    BY UploadAssumption DEF Init, Answer, Statuses
  <2>3. chunk_state \in ChunkStates /\ wire \in Requests /\ late \subseteq Requests
    BY <1>1, <1>2 DEF Init
  <2>4. pending \in 0..chunk /\ attempt \in 0..MaxAttempts /\ orphans \in 0..MaxAttempts
    BY UploadAssumption, ChunkWhole DEF Init
  <2> QED
    BY <2>1, <2>2, <2>3, <2>4, UploadAssumption
    DEF Init, TypeOK, Sessions, ChunkStates, PcValues
<1>4. 0 % ChunkMultiple = 0  BY UploadPlanAssumption, MultipleOf
<1> USE <1>4, UploadAssumption DEF Init, Single, Sending, OnTheWay, Chunking, Finishing, Answer
<1>5. BytesKept  BY DEF BytesKept
<1>6. WholeRequests  BY DEF WholeRequests
<1>7. Untorn  BY DEF Untorn
<1>8. OutcomeKept  BY DEF OutcomeKept
<1>9. RepliesKnown  BY DEF RepliesKnown
<1>10. Aligned  BY DEF Aligned
<1>11. Window  BY DEF Window
<1> QED  BY <1>3, <1>5, <1>6, <1>7, <1>8, <1>9, <1>10, <1>11 DEF DInv

\* No step loses a byte, sends one twice, or forgets what Close() said.
THEOREM StepKeepsBytes == IInv /\ SInv /\ DInv /\ [Next]_vars => DInv'
<1> SUFFICES ASSUME IInv, SInv, DInv, [Next]_vars PROVE DInv'  OBVIOUS
<1>0. IInv' /\ SInv'  BY StepKeeps, StepKeepsSessions
<1>1. CASE \E n \in WriteSizes : Write(n)  BY <1>0, <1>1, WriteKeepsBytes
<1>2. CASE BeginClose \/ CancelWrite \/ Destroy
  BY <1>0, <1>2, CloseBeginsBytes DEF BeginClose
<1>3. CASE Fill \/ WriteReturns \/ SendUploadChunk \/ StartRetries \/ StartResumableUpload
  BY <1>0, <1>3, WritingKeepsBytes
<1>10. CASE StartFails \/ ChunkFails  BY <1>0, <1>10, ThrowKeepsBytes
<1>4. CASE SendRequest \/ ChunkContinues \/ ChunkAccepted
  BY <1>0, <1>4, ChunkKeepsBytes
<1>5. CASE CloseStep  BY <1>0, <1>5, CloseKeepsBytes DEF CloseStep
<1>6. CASE DriveAnswers \/ AnswerLost  BY <1>0, <1>6, AnswerKeepsBytes
<1>7. CASE DriveRefuses \/ RequestTimesOut  BY <1>0, <1>7, NoAnswerKeepsBytes
<1>8. CASE LateArrival \/ SessionExpires  BY <1>0, <1>8, DriveKeepsBytes
<1>9. CASE UNCHANGED vars  BY <1>0, <1>9, StutterKeepsBytes
<1> QED
  BY <1>1, <1>2, <1>3, <1>10, <1>4, <1>5, <1>6, <1>7, <1>8, <1>9
  DEF Next, Progress, SendStep, Network

\* Both invariants hold of every run of the handle.
THEOREM BytesInvariance == Spec => [](IInv /\ DInv)
<1>1. Init => DInv  BY InitEstablishes, InitEstablishesBytes
<1>2. IInv /\ SInv /\ DInv /\ [Next]_vars => DInv'  BY StepKeepsBytes
<1> QED  BY <1>1, <1>2, SessionsInvariance, PTL DEF Spec

-----------------------------------------------------------------------------
(***************************************************************************)
(* Every step of the handle is a step of AtomicPublish, or none.           *)
(***************************************************************************)
AbstractVars == <<position, Visible, Open, Told>>

\* What AtomicPublish sees of a handle before and after its stream ends.
LEMMA Seen ==
    ASSUME IInv, DInv
    PROVE  /\ broken \in BOOLEAN /\ is_write \in BOOLEAN /\ position \in 0..MaxBytes
           /\ Visible = IF published.count = 0 THEN -1 ELSE position
           /\ published.count \in {0, 1}
           /\ Streaming => Visible = -1 /\ (outcome = "none" \/ broken)
           /\ Open <=> is_write /\ ~broken
           /\ broken => Told = "failed"
           /\ ~broken /\ outcome = "none" => Told = "none"
<1> USE DEF IInv, DInv
<1>1. broken \in BOOLEAN /\ is_write \in BOOLEAN /\ position \in 0..MaxBytes  BY DEF TypeOK
<1>2. published.count \in {0, 1}  BY DEF OnceInSession
<1>3. Visible = IF published.count = 0 THEN -1 ELSE position
  BY <1>2 DEF Untorn, Visible
<1>4. Streaming => published.count = 0  BY DEF StreamingIsSilent
<1>5. is_write => outcome = "none"  BY DEF OutcomeKept
<1>6. /\ broken => Told = "failed"
      /\ ~broken /\ outcome = "none" => Told = "none"
  BY DEF Told
<1> QED  BY <1>1, <1>2, <1>3, <1>4, <1>5, <1>6 DEF Streaming, Open

\* A step that tells the caller nothing, writes nothing and publishes nothing.
LEMMA QuietStep ==
    ASSUME IInv, DInv, IInv', DInv', UNCHANGED <<position, published, is_write, broken, outcome>>,
           sent_any' = sent_any \/ outcome = "none"
    PROVE  UNCHANGED AbstractVars
<1>1. Visible' = Visible  BY DEF Visible
<1>2. Open' = Open  BY DEF Open
<1>3. Told' = Told  BY DEF Told
<1> QED  BY <1>1, <1>2, <1>3 DEF AbstractVars

\* A request that arrives publishes the stream whole, or changes nothing to see.
LEMMA ArrivalPublishes ==
    ASSUME IInv, DInv, IInv', DInv', NEW r \in OnTheWay, NEW e \in Effects(r), TakesEffect(e),
           UNCHANGED <<handleVars, bufferVars, callVars>>
    PROVE  Abstract!Publish \/ UNCHANGED AbstractVars
<1> USE DEF handleVars, bufferVars, callVars
<1> USE DEF Replies, Publications
<1>1. CASE published' = published  BY <1>1, QuietStep
<1>2. CASE published' # published
  <2>1. r.total /\ (published.count = 1 => published'.count = 1)
    BY <1>2, ArrivalKeepsBytes, ArrivalKeeps
  <2>2. ~is_write /\ ~broken  BY <2>1 DEF IInv, StreamingIsSilent, Streaming
  <2>3. published' \in Publications
        /\ published \in Publications
        /\ ~published.torn /\ ~published'.torn
        /\ (published.count = 1 => published.len = position)
        /\ (published'.count = 1 => published'.len = position)
    BY ArrivalKeepsBytes DEF DInv, TypeOK, Untorn
  <2>4. published.count = 0
    <3>1. SUFFICES ASSUME published.count = 1 PROVE FALSE  BY <2>3
    <3>2. published.len = published'.len /\ published.count = published'.count
      BY <2>1, <2>3, <3>1
    <3>3. published.torn = published'.torn  BY <2>3
    <3> QED  BY <1>2, <2>3, <3>2, <3>3
  <2>5. CASE published'.count = 0
    <3>1. Visible = -1 /\ Visible' = -1  BY <2>4, <2>5 DEF Visible
    <3>2. Open' = Open /\ Told' = Told  BY DEF Open, Told
    <3> QED  BY <3>1, <3>2 DEF AbstractVars
  <2>6. CASE published'.count = 1
    <3>1. Visible = -1 /\ Visible' = position  BY <2>3, <2>4, <2>6 DEF Visible
    <3>2. Open' = Open /\ Told' = Told /\ Open = FALSE  BY <2>2 DEF Open, Told
    <3>3. Told \in {"none", "unknown"}
      <4>1. outcome # "ok"  BY <2>4 DEF DInv, OutcomeKept
      <4>2. outcome = "failed" => ~sent_any  BY <2>1 DEF DInv, OutcomeKept
      <4> QED  BY <2>2, <4>1, <4>2 DEF Told, DInv, TypeOK
    <3> QED  BY <3>1, <3>2, <3>3 DEF Abstract!Publish
  <2> QED  BY <2>3, <2>5, <2>6
<1> QED  BY <1>1, <1>2

\* A stream that breaks while the handle is open is given up.
LEMMA GivesUp ==
    ASSUME IInv, DInv, is_write, ~broken, broken', UNCHANGED <<position, published>>
    PROVE  Abstract!GiveUp
<1>1. published.count = 0  BY DEF IInv, StreamingIsSilent, Streaming
<1>2. outcome = "none"  BY DEF DInv, OutcomeKept
<1>3. Told = "none" /\ Told' = "failed"  BY <1>2 DEF Told
<1>4. Visible = -1 /\ Visible' = Visible  BY <1>1 DEF Visible
<1>5. Open' = FALSE  BY DEF Open
<1> QED  BY <1>3, <1>4, <1>5 DEF Abstract!GiveUp

\* One case per action: most are invisible, each of the others is what its name says.
LEMMA StepImplements ==
    ASSUME IInv, DInv, IInv', DInv', [Next]_vars
    PROVE  Abstract!Next \/ UNCHANGED AbstractVars
<1> USE DEF handleVars, bufferVars, callVars, chunkVars, netVars, driveVars, Abstract!Next
<1>1. ASSUME NEW n \in WriteSizes, Write(n) PROVE UNCHANGED AbstractVars
  BY <1>1, QuietStep, Seen DEF Write, DInv, OutcomeKept
<1>2. CASE \/ Fill \/ SendUploadChunk \/ StartRetries \/ StartResumableUpload
           \/ SendRequest \/ ChunkContinues
  BY <1>2, QuietStep
  DEF Fill, SendUploadChunk, StartRetries, StartResumableUpload, SendRequest, ChunkContinues
<1>3. CASE ChunkAccepted
  <2>1. outcome = "none"  BY <1>3 DEF ChunkAccepted, InUploadChunk, DInv, OutcomeKept
  <2> QED  BY <1>3, <2>1, QuietStep DEF ChunkAccepted
<1>4. CASE WriteReturns
  <2>1. is_write /\ ~write_failed /\ position + asked <= MaxBytes /\ ~broken
    BY <1>4 DEF WriteReturns, IInv, ThreadInWrite, BrokenIsOver, DInv, BytesKept, Chunking
  <2>2. position' = position + asked /\ asked \in Nat /\ position \in Nat
    BY <1>4, UploadAssumption DEF WriteReturns, DInv, TypeOK
  <2>3. position' \in position..MaxBytes  BY <2>1, <2>2, UploadAssumption
  <2>4. Open /\ UNCHANGED <<Visible, Open, Told>>
    BY <1>4, <2>1 DEF WriteReturns, Open, Visible, Told
  <2> QED  BY <2>3, <2>4 DEF Abstract!Write
<1>5. CASE StartFails \/ ChunkFails
  <2>1. is_write /\ ~broken /\ broken' /\ UNCHANGED <<position, published>>
    BY <1>5
    DEF StartFails, ChunkFails, InUploadChunk, WriteThrows, IInv, ThreadInWrite, BrokenIsOver,
        Sending
  <2> QED  BY <2>1, GivesUp
<1>6. CASE CancelWrite \/ Destroy
  <2>1. UNCHANGED <<position, published, outcome, sent_any>>
    BY <1>6 DEF CancelWrite, Destroy
  <2>2. CASE is_write /\ ~broken
    <3>1. broken'  BY <1>6, <2>2 DEF CancelWrite, Destroy
    <3> QED  BY <2>1, <2>2, <3>1, GivesUp
  <2>3. CASE broken
    <3>1. broken'  BY <1>6, <2>3 DEF CancelWrite, Destroy
    <3>2. Told' = "failed" /\ Told = "failed"  BY <2>3, <3>1 DEF Told
    <3>3. Open' = FALSE /\ Open = FALSE  BY <2>3, <3>1 DEF Open
    <3>4. Visible' = Visible  BY <2>1 DEF Visible
    <3> QED  BY <2>1, <3>2, <3>3, <3>4 DEF AbstractVars
  <2>4. CASE ~is_write /\ ~broken
    <3>1. UNCHANGED <<is_write, broken>>
      BY <1>6, <2>4 DEF CancelWrite, Destroy, IInv, Types
    <3> QED  BY <2>1, <3>1, QuietStep
  <2> QED  BY <2>2, <2>3, <2>4
<1>7. CASE CloseFailed
  <2>1. broken /\ UNCHANGED <<position, published, broken, outcome, sent_any>>
    BY <1>7 DEF CloseFailed, DInv, OutcomeKept
  <2>2. Told' = Told /\ Open' = Open /\ Visible' = Visible
    BY <2>1 DEF Told, Open, Visible
  <2> QED  BY <2>1, <2>2 DEF AbstractVars
<1>8. CASE CloseFinalChunk \/ CloseSingleRequest
  <2>1. /\ is_write /\ ~broken /\ ~is_write'
        /\ UNCHANGED <<position, published, broken, outcome, sent_any>>
    BY <1>8 DEF CloseFinalChunk, CloseSingleRequest, Publishable, IInv, BrokenIsOver
  <2>2. Open = TRUE /\ Open' = FALSE /\ UNCHANGED <<Visible, Told>>
    BY <2>1 DEF Open, Visible, Told
  <2> QED  BY <2>1, <2>2 DEF Abstract!Close
<1>9. CASE GenerateFileId \/ PostMultipart \/ MultipartRetries \/ MultipartConflict
  BY <1>9, QuietStep DEF GenerateFileId, PostMultipart, MultipartRetries, MultipartConflict
<1>10. CASE CloseSucceeds
  <2>1. published.count = 1 /\ outcome = "none"
    BY <1>10, StepKind
    DEF CloseSucceeds, InUploadChunk, InMultipart, IInv, SessionAccounted, DInv, RepliesKnown,
        OutcomeKept
  <2>2. ~is_write /\ ~broken  BY <2>1 DEF IInv, StreamingIsSilent, Streaming
  <2>3. outcome' = "ok" /\ UNCHANGED <<position, published, broken, is_write, sent_any>>
    BY <1>10 DEF CloseSucceeds, CloseReturns
  <2>4. Visible = position /\ UNCHANGED <<Visible, Open>>
    BY <2>1, <2>3, Seen DEF Visible, Open
  <2>5. Told = "none" /\ Told' = "ok" /\ Open = FALSE
    BY <2>1, <2>2, <2>3 DEF Told, Open
  <2> QED  BY <2>3, <2>4, <2>5 DEF Abstract!Succeed
<1>11. CASE FinalChunkFails \/ MultipartFails \/ GetMetadataFails
  <2>1. /\ outcome = "none" /\ ~is_write /\ ~broken
        /\ UNCHANGED <<position, published, broken, is_write, sent_any>>
    BY <1>11
    DEF FinalChunkFails, MultipartFails, GetMetadataFails, InUploadChunk, InMultipart,
        CloseThrows, DInv, OutcomeKept, IInv, StreamingIsSilent, Streaming, Single, Types
  <2>2. Told = "none" /\ Open = FALSE /\ UNCHANGED <<Visible, Open>>
    BY <2>1 DEF Told, Open, Visible
  <2>3. CASE outcome' = "ambiguous" \/ ~sent_any
    <3>1. outcome' \in {"ambiguous", "failed"}
      BY <1>11 DEF FinalChunkFails, MultipartFails, GetMetadataFails, CloseThrows
    <3>2. Told' = "unknown"  BY <2>1, <2>3, <3>1 DEF Told
    <3> QED  BY <2>1, <2>2, <3>2 DEF Abstract!Wonder
  <2>4. CASE outcome' # "ambiguous" /\ sent_any
    <3>1. FinalChunkFails
      BY <1>11, <2>4 DEF MultipartFails, GetMetadataFails, InMultipart, DInv, BytesKept, Single
    <3>2. outcome' = "failed" /\ ~step.ambiguous
      BY <2>4, <3>1 DEF FinalChunkFails, CloseThrows
    <3>3. published.count = 0
      BY <3>1, <3>2, StepMeaning
      DEF FinalChunkFails, InUploadChunk, DInv, BytesKept, RepliesKnown, Finishing, Sending
    <3>4. Told' = "failed"  BY <2>1, <3>2, <2>4 DEF Told
    <3>5. Visible = -1  BY <3>3 DEF Visible
    <3> QED  BY <2>1, <2>2, <3>4, <3>5 DEF Abstract!GiveUp
  <2> QED  BY <2>3, <2>4
<1>12. CASE DriveAnswers \/ AnswerLost
  <2>1. PICK e \in Effects(wire) : TakesEffect(e)  BY <1>12 DEF DriveAnswers, AnswerLost
  <2>2. wire \in OnTheWay /\ UNCHANGED <<handleVars, bufferVars, callVars>>
    BY <1>12 DEF DriveAnswers, AnswerLost, Answered, OnTheWay
  <2> QED  BY <2>1, <2>2, ArrivalPublishes
<1>13. CASE LateArrival
  <2>1. PICK r \in late : \E e \in Effects(r) : TakesEffect(e)  BY <1>13 DEF LateArrival
  <2>2. r \in OnTheWay /\ UNCHANGED <<handleVars, bufferVars, callVars>>
    BY <1>13 DEF LateArrival, OnTheWay
  <2> QED  BY <2>1, <2>2, ArrivalPublishes
<1>14. CASE DriveRefuses \/ RequestTimesOut \/ SessionExpires
  BY <1>14, QuietStep DEF DriveRefuses, RequestTimesOut, SessionExpires, Answered
<1>15. CASE UNCHANGED vars  BY <1>15, QuietStep DEF vars
<1> QED
  BY <1>1, <1>2, <1>3, <1>4, <1>5, <1>6, <1>7, <1>8, <1>9, <1>10,
     <1>11, <1>12, <1>13, <1>14, <1>15
  DEF Next, Progress, SendStep, CloseStep, BeginClose, Network

-----------------------------------------------------------------------------
\* Every variable of the upload has its type: no counter of retries, stalls or bytes
\* leaves its range, and no more than a chunk is buffered (ChunkedUploadBuffer).
THEOREM UploadTypes == Spec => []TypeOK
<1>1. IInv /\ DInv => TypeOK  BY DEF DInv
<1> QED  BY <1>1, BytesInvariance, PTL

\* Every chunk that can reach Drive begins and ends on the 256 KiB boundary, the last
\* one ends where the stream does, and no resume point lies before the bytes that are
\* still in memory (NextUploadStep, ContentRange, MarkChunkSent).
THEOREM WholeChunks == Spec => []ChunksAreValid
<1>1. ASSUME IInv, DInv PROVE ChunksAreValid
  <2>1. InFlight \subseteq OnTheWay
    BY <1>1 DEF InFlight, OnTheWay, IInv, RequestsKnown
  <2>2. /\ session.held <= offset + pending
        /\ session.status = "open" /\ upload_session => offset <= session.held
    BY <1>1 DEF DInv, Window
  <2>3. ASSUME NEW r \in InFlight, r.kind = "Session", r.len > 0
        PROVE  IF r.total THEN r.from + r.len = position
               ELSE r.from % ChunkMultiple = 0 /\ r.len % ChunkMultiple = 0
    BY <1>1, <2>1, <2>3 DEF DInv, WholeRequests, Aligned
  <2> QED  BY <2>2, <2>3 DEF ChunksAreValid
<1> QED  BY <1>1, BytesInvariance, PTL

\* R-3: whatever requests are lost, repeated or late, a write handle publishes all the
\* bytes of the Write() calls that returned or nothing, not before Close() began, and
\* what Close() said is true (GDriveFileHandle::Close, UploadHandleContents).
THEOREM AllOrNothing == Spec => ImplementsAtomicPublish
<1>1. Init => Abstract!Init
  BY DEF Init, Abstract!Init, Visible, Open, Told
<1>2. IInv /\ DInv /\ (IInv /\ DInv)' /\ [Next]_vars => [Abstract!Next]_(Abstract!vars)
  BY StepImplements DEF AbstractVars, Abstract!vars
<1> QED  BY <1>1, <1>2, BytesInvariance, PTL DEF Spec, ImplementsAtomicPublish, Abstract!Spec
=============================================================================
