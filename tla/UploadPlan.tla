----------------------------- MODULE UploadPlan -----------------------------
(***************************************************************************)
(* The pure half of a streaming write (gdrive_upload_plan.cpp): the size   *)
(* of a chunk, the resume point, and NextUploadStep, the decision taken    *)
(* after every reply of a resumable upload session.  Byte counts are       *)
(* naturals; a reply keeps only what the decision reads of it.             *)
(***************************************************************************)
EXTENDS Integers

CONSTANTS
    ChunkMultiple,     \* kDriveUploadChunkMultiple: 256 KiB in the code
    ChunkMax,          \* kDriveUploadChunkMax
    MaxChunkAttempts   \* kMaxChunkAttempts

ASSUME UploadPlanAssumption ==
    /\ ChunkMultiple \in Nat \ {0}
    /\ ChunkMax \in Nat \ {0} /\ ChunkMax % ChunkMultiple = 0
    /\ MaxChunkAttempts \in Nat

NormalizeDriveChunkSize(requested) ==
    IF requested > ChunkMax
    THEN ChunkMax
    ELSE LET rounded == (requested \div ChunkMultiple) * ChunkMultiple
         IN  IF rounded = 0 THEN ChunkMultiple ELSE rounded

(***************************************************************************)
(* What came back from the session.  "Lost" is no HTTP response at all;    *)
(* "Done" is 200/201; "Resume" is 308, whose Range header says that the    *)
(* session holds the bytes before `next`; "ServerError" is a retryable     *)
(* 5xx; "RateLimited" a 429; "Rejected" any status that is not retryable.  *)
(***************************************************************************)
Statuses == {"Lost", "Done", "Resume", "ServerError", "RateLimited", "Rejected"}
Retryable == {"Lost", "ServerError", "RateLimited"}

FreshChunkState ==
    [skip |-> 0, stalls |-> 0, failures |-> 0, finalMaybeSent |-> FALSE]

StepKinds == {"DONE", "ACCEPTED", "SEND", "ASK_STATUS", "FAIL"}

Step(kind, s) == [kind |-> kind, state |-> s, ambiguous |-> FALSE]

Fail(final, s) ==
    [kind |-> "FAIL", state |-> s, ambiguous |-> final /\ s.finalMaybeSent]

\* The session's resume point must lie in the chunk that is still in memory.
Resumable(offset, pending, next) == offset <= next /\ next <= offset + pending

\* Mutated form: any progress counts as acceptance.
AcceptedInPart(final, skip, pending) == ~final /\ skip > 0

\* Drive holds the whole of a chunk that is not the last.
Accepted(final, skip, pending) == ~final /\ skip = pending

\* Mutated form: the resume point is not checked.
NoUnalignedRest(final, skip, pending, next) == FALSE

\* The rest would be a non-final chunk that Drive refuses.
UnalignedRest(final, skip, pending, next) ==
    ~final /\ skip < pending /\ next % ChunkMultiple # 0

\* Mutated form: every 308 counts as progress.
StallsNever(moved, s) == 0

StallsAfter(moved, s) == IF moved THEN 0 ELSE s.stalls + 1

AfterResume(offset, pending, final, s, next) ==
    LET skip     == next - offset
        accepted == Accepted(final, skip, pending)
        stalls   == StallsAfter(skip > s.skip \/ accepted, s)
        held     == [s EXCEPT !.skip = skip, !.stalls = stalls]
    IN  CASE ~Resumable(offset, pending, next) \/ stalls > MaxChunkAttempts ->
                 Fail(final, s)
          [] OTHER ->
                 IF accepted THEN Step("ACCEPTED", held)
                 ELSE IF UnalignedRest(final, skip, pending, next) THEN Fail(final, held)
                 ELSE Step("SEND", held)

\* Mutated form: a 5xx is not remembered as a possible publication.
AfterErrorForgets5xx(final, s, status) ==
    LET tried == [s EXCEPT !.finalMaybeSent = @ \/ (final /\ status = "Lost"),
                           !.failures = IF status \in Retryable THEN @ + 1 ELSE @]
    IN  IF status \in Retryable /\ tried.failures <= MaxChunkAttempts
        THEN Step("ASK_STATUS", tried)
        ELSE Fail(final, tried)

AfterError(final, s, status) ==
    LET maybe    == final /\ status \in {"Lost", "ServerError"}
        retry    == status \in Retryable
        tried    == [s EXCEPT !.finalMaybeSent = @ \/ maybe,
                              !.failures = IF retry THEN @ + 1 ELSE @]
    IN  IF retry /\ tried.failures <= MaxChunkAttempts
        THEN Step("ASK_STATUS", tried)
        ELSE Fail(final, tried)

NextUploadStep(offset, pending, final, s, reply) ==
    CASE reply.status = "Done"   -> IF final THEN Step("DONE", s) ELSE Fail(final, s)
      [] reply.status = "Resume" -> AfterResume(offset, pending, final, s, reply.next)
      [] OTHER                   -> AfterError(final, s, reply.status)
=============================================================================
