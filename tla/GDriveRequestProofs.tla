------------------------- MODULE GDriveRequestProofs -------------------------
(***************************************************************************)
(* Proofs about GDriveRequest: what a call reports is what became of it, a *)
(* 401 that surfaces is one of two tokens, nothing is minted for nothing,  *)
(* and no token is believed to live longer than it does, for any threads,  *)
(* attempts, lifetimes and delays of the endpoint.                         *)
(***************************************************************************)
EXTENDS GDriveRequest, FiniteSetTheorems, TLAPS

(***************************************************************************)
(* What classification and the wait before a retry do, for every reply,    *)
(* every header and every width of int.                                    *)
(***************************************************************************)

\* A known reason belongs to one kind, and neither asks for a retry unless it is
\* a rate limit.
LEMMA ReasonKinds ==
    ASSUME NEW reason \in KnownReasons
    PROVE  /\ ClassifyFromReason(reason) \in DOMAIN ReasonsOf
           /\ reason \in ReasonsOf[ClassifyFromReason(reason)]
           /\ IsRetryable(ClassifyFromReason(reason)) => reason \in ReasonsOf.RATE_LIMIT
<1>1. PICK kind \in DOMAIN ReasonsOf : reason \in ReasonsOf[kind]  BY DEF KnownReasons
<1>2. /\ ClassifyFromReason(reason) \in DOMAIN ReasonsOf
      /\ reason \in ReasonsOf[ClassifyFromReason(reason)]
  BY <1>1 DEF ClassifyFromReason
<1>3. DOMAIN ReasonsOf = {"NOT_FOUND", "UNAUTHENTICATED", "PERMISSION_DENIED",
                          "STORAGE_QUOTA", "RATE_LIMIT", "NOT_DOWNLOADABLE", "INVALID_REQUEST"}
  BY DEF ReasonsOf
<1>4. IsRetryable(ClassifyFromReason(reason)) => ClassifyFromReason(reason) = "RATE_LIMIT"
  BY <1>2, <1>3 DEF IsRetryable
<1> QED  BY <1>2, <1>4

\* gdrive_client.cpp: "Only TRANSIENT (5xx) and RATE_LIMIT (429) are retried."  No
\* body makes the client repeat a request that Drive refused for another reason
\* than load, and a missing scope, which arrives as a 403 like a rate limit, is
\* never taken for one.
THEOREM OnlyLoadIsRetried ==
    ASSUME NEW http_status \in Nat, NEW reason, NEW detail_reason,
           IsRetryable(ClassifyDriveError(Reply(http_status, reason, detail_reason)))
    PROVE  /\ http_status = 429 \/ http_status \in 500..599 \/ reason \in ReasonsOf.RATE_LIMIT
           /\ detail_reason # "ACCESS_TOKEN_SCOPE_INSUFFICIENT"
<1> DEFINE r == Reply(http_status, reason, detail_reason)
<1>1. /\ r.http_status = http_status /\ r.reason = reason /\ r.detail_reason = detail_reason
  BY DEF Reply
<1> HIDE DEF r
<1>2. detail_reason # "ACCESS_TOKEN_SCOPE_INSUFFICIENT"
  BY <1>1 DEF ClassifyDriveError, IsRetryable, r
<1>3. CASE http_status = 429  BY <1>2, <1>3
<1>4. CASE http_status # 429 /\ reason \in KnownReasons
  <2>1. ClassifyDriveError(r) = ClassifyFromReason(reason)
    BY <1>1, <1>2, <1>4 DEF ClassifyDriveError
  <2> QED  BY <2>1, <1>2, <1>4, ReasonKinds DEF r
<1>5. CASE http_status # 429 /\ reason \notin KnownReasons
  <2>1. ClassifyDriveError(r) = ClassifyFromStatus(http_status)
    BY <1>1, <1>2, <1>5 DEF ClassifyDriveError
  <2>2. IsRetryable(ClassifyFromStatus(http_status))  BY <2>1 DEF r
  <2>3. http_status \in 500..599
    BY <2>2, <1>5 DEF ClassifyFromStatus, IsRetryable
  <2> QED  BY <1>2, <2>3
<1> QED  BY <1>3, <1>4, <1>5

\* An int holds what fits in it.
LEMMA IntHolds ==
    ASSUME NEW n \in 0..INT_MAX
    PROVE  ParseRetryAfterSeconds(n) = n
<1>1. INT_MAX \in Nat \ {0}  BY IntAssumption
<1>2. IntWidth \in Nat /\ IntWidth = 2 * INT_MAX + 2  BY <1>1 DEF IntWidth
<1>3. n + INT_MAX + 1 \in 0..(IntWidth - 1)  BY <1>1, <1>2
<1>4. (n + INT_MAX + 1) % IntWidth = n + INT_MAX + 1  BY <1>1, <1>2, <1>3
<1>5. ToInt(n) = n  BY <1>1, <1>4 DEF ToInt
<1>6. LONG_MAX \in Int /\ n <= LONG_MAX
  <2>1. IntWidth * (INT_MAX + 1) >= IntWidth
    <3>1. \A a, b \in Nat : a * (b + 1) = a * b + a /\ a * b \in Nat  OBVIOUS
    <3> QED  BY <3>1, <1>1, <1>2
  <2>2. IntWidth * (INT_MAX + 1) \in Int  BY <1>1, <1>2
  <2> QED  BY <2>1, <2>2, <1>1, <1>2 DEF LONG_MAX
<1>7. Strtol(n) = n  BY <1>1, <1>6 DEF Strtol
<1> QED  BY <1>5, <1>7 DEF ParseRetryAfterSeconds

\* gdrive_client.cpp: "When Drive supplies a Retry-After, the computed delay is
\* never allowed to be shorter than it."  True of every header an int holds; a
\* longer one may come out as any number of seconds, negative ones too.
THEOREM RetryAfterHonoured ==
    ASSUME NEW n \in 0..INT_MAX, NEW jittered \in Nat
    PROVE  /\ DelayMs(jittered, n) >= 1000 * n
           /\ DelayMs(jittered, n) >= jittered
           /\ DelayMs(jittered, n) \in {jittered, 1000 * n}
<1>1. INT_MAX \in Nat  BY IntAssumption
<1> QED  BY <1>1, IntHolds DEF DelayMs, SleepMs

-----------------------------------------------------------------------------
(***************************************************************************)
(* What a call is at each of its places.                                   *)
(***************************************************************************)

Places == {"idle", "token", "lock", "minting", "minted", "send", "response"}
Responses == {"none", "ok"} \cup Kinds
AnyCached == [token : Nat, expires_at : Nat, minted_at : Nat]
AnyCall ==
    [method : {"GET", "POST", "PATCH", "DELETE"}, reserved : BOOLEAN, attempt : Int,
     access_token : Nat, refreshed : BOOLEAN, response : Responses, asked_at : Nat,
     minted : AnyCached, requests : Nat, applied : Nat, turned_down : SUBSET Nat,
     outcome : {"none", "ok", "TRANSIENT", "UNAUTHENTICATED", "refused"}]

\* Tokens are numbered as they are issued.
Numbered ==
    /\ \E n \in Nat : Issued = 1..n
    /\ \A token \in Issued : expires[token] \in Nat
    /\ provider \in {"unrefreshable", "seeded"} => 1 \in Issued

Types ==
    /\ now \in Nat /\ cache \in AnyCached /\ Numbered
    /\ pc \in [Threads -> Places] /\ call \in [Threads -> AnyCall]

\* A call that must not be repeated, and how often it was applied.
Counted(c, p) ==
    ~Repeatable(c) =>
        CASE p = "idle" ->
               /\ c.applied \in {0, 1}
               /\ c.outcome = "ok" => c.applied = 1
               /\ c.outcome \in {"UNAUTHENTICATED", "refused"} => c.applied = 0
          [] p = "response" ->
               /\ c.applied \in {0, 1}
               /\ c.response = "ok" => c.applied = 1
               /\ c.response \notin {"ok", "TRANSIENT"} => c.applied = 0
          [] OTHER -> c.applied = 0

\* The tokens Drive turned down: the one of the last answer, and before the
\* refresh another.
Remembered(c, p) ==
    IF p = "idle"
    THEN c.outcome = "UNAUTHENTICATED" /\ can_mint
           => \E a, b \in Nat : a # b /\ c.turned_down = {a, b}
    ELSE /\ c.outcome = "none"
         /\ p \in {"token", "send"} => c.response = "none"
         /\ p \in {"lock", "minting", "minted"} => c.response \in {"none", "UNAUTHENTICATED"}
         /\ p \in {"token", "lock", "minting", "minted"} => ~c.refreshed
         /\ \E earlier \in SUBSET Nat :
              /\ c.turned_down = earlier \cup (IF c.response = "UNAUTHENTICATED"
                                               THEN {c.access_token} ELSE {})
              /\ IF c.refreshed THEN \E a \in Nat \ {c.access_token} : earlier = {a}
                                ELSE earlier = {}

\* What Drive refused stays refused.
Refused(c) ==
    /\ c.access_token \in Issued \cup {NoToken}
    /\ c.response = "UNAUTHENTICATED" => ~Accepted(c.access_token)

\* A mint in progress: the token it was given is newer than any in use, and is
\* believed to live no longer than it does.
Underway(c, p) ==
    /\ p = "minting" => c.asked_at <= now
    /\ p = "minted" =>
         /\ c.minted.token \in Issued
         /\ c.minted.token # c.access_token
         /\ c.minted.token > cache.token
         /\ provider = "seeded" => c.minted.token > 1
         /\ c.minted.expires_at <= expires[c.minted.token]

CallSound(t) ==
    /\ Counted(call[t], pc[t]) /\ Remembered(call[t], pc[t])
    /\ Refused(call[t]) /\ Underway(call[t], pc[t])
    /\ Minting(pc[t]) => mint_lock = t

IInv ==
    /\ Types
    /\ cache.token \in Issued \cup {NoToken}
    /\ \A t \in Threads : CallSound(t)
-----------------------------------------------------------------------------
(***************************************************************************)
(* Answers, and what a call becomes.                                       *)
(***************************************************************************)

\* How the answers Drive gives are read.
LEMMA AnswersRead ==
    /\ \A r \in UnauthorizedReplies : ClassifyDriveError(r) = "UNAUTHENTICATED"
    /\ \A r \in RefusingReplies :
         ClassifyDriveError(r) \in {"INSUFFICIENT_SCOPE", "RATE_LIMIT"}
    /\ \A r \in FailingReplies : ClassifyDriveError(r) = "TRANSIENT"
<1>1. /\ {"authError", "userRateLimitExceeded"} \subseteq KnownReasons
      /\ {NoReason, "internalError"} \cap KnownReasons = {}
  <2>1. DOMAIN ReasonsOf = {"NOT_FOUND", "UNAUTHENTICATED", "PERMISSION_DENIED",
                            "STORAGE_QUOTA", "RATE_LIMIT", "NOT_DOWNLOADABLE", "INVALID_REQUEST"}
    BY DEF ReasonsOf
  <2>2. /\ ReasonsOf["NOT_FOUND"] = {"notFound"}
        /\ ReasonsOf["UNAUTHENTICATED"] = {"authError", "required"}
        /\ ReasonsOf["PERMISSION_DENIED"] = {"insufficientPermissions", "insufficientFilePermissions"}
        /\ ReasonsOf["STORAGE_QUOTA"] = {"storageQuotaExceeded"}
        /\ ReasonsOf["RATE_LIMIT"] = {"rateLimitExceeded", "userRateLimitExceeded"}
        /\ ReasonsOf["NOT_DOWNLOADABLE"] = {"fileNotDownloadable", "cannotDownloadAbusiveFile"}
        /\ ReasonsOf["INVALID_REQUEST"] = {"invalidParameter", "invalid"}
    BY DEF ReasonsOf
  <2>3. \A reason : reason \in KnownReasons
                     <=> \E kind \in DOMAIN ReasonsOf : reason \in ReasonsOf[kind]
    BY DEF KnownReasons
  <2>4. "authError" \in KnownReasons /\ "userRateLimitExceeded" \in KnownReasons
    BY <2>1, <2>2, <2>3
  <2>5. NoReason \notin {"notFound", "authError", "required", "insufficientPermissions",
                        "insufficientFilePermissions", "storageQuotaExceeded",
                        "rateLimitExceeded", "userRateLimitExceeded", "fileNotDownloadable",
                        "cannotDownloadAbusiveFile", "invalidParameter", "invalid"}
    BY Zenon DEF NoReason
  <2>6. NoReason \notin KnownReasons /\ "internalError" \notin KnownReasons
    BY <2>1, <2>2, <2>3, <2>5
  <2> QED  BY <2>4, <2>6
<1>0. NoReason # "ACCESS_TOKEN_SCOPE_INSUFFICIENT"  BY Zenon DEF NoReason
<1>2. ClassifyFromReason("authError") = "UNAUTHENTICATED"
  BY <1>1, ReasonKinds DEF ReasonsOf
<1>3. ClassifyFromReason("userRateLimitExceeded") = "RATE_LIMIT"
  BY <1>1, ReasonKinds DEF ReasonsOf
<1>4. \A h, x, d : /\ Reply(h, x, d).http_status = h /\ Reply(h, x, d).reason = x
                   /\ Reply(h, x, d).detail_reason = d
  BY DEF Reply
<1>5. ASSUME NEW r \in UnauthorizedReplies
      PROVE  ClassifyDriveError(r) = "UNAUTHENTICATED"
  <2>1. r.http_status = 401 /\ r.detail_reason = NoReason /\ r.reason \in {"authError", NoReason}
    BY <1>4 DEF UnauthorizedReplies
  <2>2. ClassifyFromStatus(401) = "UNAUTHENTICATED"  BY DEF ClassifyFromStatus
  <2> QED  BY <1>0, <1>1, <1>2, <2>1, <2>2 DEF ClassifyDriveError
<1>6. ASSUME NEW r \in RefusingReplies
      PROVE  ClassifyDriveError(r) \in {"INSUFFICIENT_SCOPE", "RATE_LIMIT"}
  <2>1. \/ r.detail_reason = "ACCESS_TOKEN_SCOPE_INSUFFICIENT"
        \/ r.http_status = 403 /\ r.reason = "userRateLimitExceeded"
        \/ r.http_status = 429
    BY <1>4 DEF RefusingReplies
  <2> QED  BY <1>1, <1>3, <2>1 DEF ClassifyDriveError
<1>7. ASSUME NEW r \in FailingReplies
      PROVE  ClassifyDriveError(r) = "TRANSIENT"
  <2>1. /\ r.http_status \in {500, 502} /\ r.detail_reason = NoReason
        /\ r.reason \in {"internalError", NoReason}
    BY <1>4 DEF FailingReplies
  <2>2. ClassifyFromStatus(500) = "TRANSIENT" /\ ClassifyFromStatus(502) = "TRANSIENT"
    BY DEF ClassifyFromStatus
  <2> QED  BY <1>0, <1>1, <2>1, <2>2 DEF ClassifyDriveError
<1> QED  BY <1>5, <1>6, <1>7

\* The call of t becomes c, at p.
Becomes(t, c, p) ==
    /\ c \in AnyCall /\ p \in Places
    /\ pc' = [pc EXCEPT ![t] = p] /\ call' = [call EXCEPT ![t] = c]
    /\ Counted(c, p) /\ Remembered(c, p) /\ Refused(c)

LEMMA CallTyped ==
    ASSUME IInv, NEW t \in Threads
    PROVE  /\ call[t] \in AnyCall /\ pc[t] \in Places
           /\ Counted(call[t], pc[t]) /\ Remembered(call[t], pc[t])
           /\ Refused(call[t]) /\ Underway(call[t], pc[t])
BY DEF IInv, Types, CallSound

LEMMA NoCallTyped == NoCall \in AnyCall /\ ~NoCall.refreshed
BY DEF NoCall, AnyCall, AnyCached, NothingCached, Cached, NoToken, Responses, Kinds

\* A call that returns reports what it counted.
LEMMA Returns ==
    ASSUME IInv, NEW t \in Threads, NEW outcome, Finish(t, outcome),
           outcome \in {"ok", "TRANSIENT", "UNAUTHENTICATED", "refused"},
           ~Repeatable(call[t]) =>
             /\ call[t].applied \in {0, 1}
             /\ outcome = "ok" => call[t].applied = 1
             /\ outcome \in {"UNAUTHENTICATED", "refused"} => call[t].applied = 0,
           outcome = "UNAUTHENTICATED" /\ can_mint
             => \E a, b \in Nat : a # b /\ call[t].turned_down = {a, b}
    PROVE  \E c : Becomes(t, c, "idle")
<1> DEFINE c0 == call[t]
           c == IF outcome = "UNAUTHENTICATED"
                THEN [NoCall EXCEPT !.outcome = outcome, !.turned_down = c0.turned_down,
                                    !.method = c0.method, !.reserved = c0.reserved,
                                    !.applied = c0.applied]
                ELSE IF Repeatable(c0) THEN NoCall
                ELSE [NoCall EXCEPT !.outcome = outcome, !.method = c0.method,
                                    !.applied = c0.applied]
<1>1. c0 \in AnyCall  BY CallTyped
<1>2. c \in AnyCall /\ c.access_token = NoToken /\ c.response = "none"
  BY <1>1, NoCallTyped DEF AnyCall, NoCall
<1>3. Counted(c, "idle")
  BY <1>1, NoCallTyped DEF AnyCall, NoCall, Counted, Repeatable, IsIdempotent
<1>4. Remembered(c, "idle")
  BY <1>1 DEF Remembered, AnyCall, NoCall
<1>5. pc' = [pc EXCEPT ![t] = "idle"] /\ call' = [call EXCEPT ![t] = c]
  BY DEF Finish, Proceed, Goto
<1> QED  BY <1>2, <1>3, <1>4, <1>5 DEF Becomes, Places, Refused

\* Token() returns.
LEMMA Sends ==
    ASSUME IInv, NEW t \in Threads, NEW token \in Nat, SendWith(t, token),
           token \in Issued \cup {NoToken},
           pc[t] \in {"token", "lock", "minted"}, call[t].response = "none"
    PROVE  \E c : Becomes(t, c, "send")
<1> DEFINE c == [call[t] EXCEPT !.access_token = token, !.asked_at = 0,
                                !.minted = NothingCached]
<1>1. call[t] \in AnyCall /\ Counted(call[t], pc[t]) /\ Remembered(call[t], pc[t])
  BY CallTyped
<1>2. NothingCached \in AnyCached
  BY DEF NothingCached, Cached, AnyCached, NoToken
<1>3. c \in AnyCall /\ c.access_token = token /\ c.response = "none"
      /\ c.refreshed = call[t].refreshed /\ c.turned_down = call[t].turned_down
      /\ c.outcome = call[t].outcome /\ c.applied = call[t].applied
      /\ c.method = call[t].method /\ c.reserved = call[t].reserved
  BY <1>1, <1>2 DEF AnyCall
<1>4. Counted(c, "send")
  BY <1>1, <1>3 DEF Counted, Repeatable
<1>5. Remembered(c, "send")
  <2>1. ~call[t].refreshed /\ call[t].turned_down = {} /\ call[t].outcome = "none"
    BY <1>1 DEF Remembered
  <2> QED  BY <1>3, <2>1 DEF Remembered
<1> QED  BY <1>3, <1>4, <1>5 DEF Becomes, Places, Refused, SendWith, Proceed, Goto

\* Refresh() returns: with another token, unless nothing can be minted.
LEMMA Resends ==
    ASSUME IInv, NEW t \in Threads, NEW token \in Nat, Resend(t, token),
           token \in Issued \cup {NoToken},
           pc[t] \in {"lock", "minted"}, call[t].response = "UNAUTHENTICATED",
           ~can_mint \/ (token # NoToken /\ token # call[t].access_token)
    PROVE  \E c, p : Becomes(t, c, p) /\ p \in {"send", "idle"}
<1> DEFINE c0 == call[t]
           c == [c0 EXCEPT !.refreshed = TRUE, !.attempt = @ - 1,
                           !.access_token = token, !.response = "none",
                           !.asked_at = 0, !.minted = NothingCached]
<1>1. c0 \in AnyCall /\ Counted(c0, pc[t]) /\ Remembered(c0, pc[t])
  BY CallTyped
<1>2. NothingCached \in AnyCached
  BY DEF NothingCached, Cached, AnyCached, NoToken
<1>3. ~c0.refreshed /\ c0.turned_down = {c0.access_token} /\ c0.outcome = "none"
  BY <1>1 DEF Remembered
<1>4. CASE ShouldResendAfter401(c0.refreshed, c0.access_token, token)
  <2>1. /\ c \in AnyCall /\ c.access_token = token /\ c.response = "none"
        /\ c.refreshed /\ c.turned_down = c0.turned_down
        /\ c.outcome = c0.outcome /\ c.applied = c0.applied
        /\ c.method = c0.method /\ c.reserved = c0.reserved
    <3>1. "none" \in Responses  BY DEF Responses
    <3>2. c0.attempt - 1 \in Int  BY <1>1 DEF AnyCall
    <3> QED  BY <1>1, <1>2, <3>1, <3>2 DEF AnyCall
  <2>2. Counted(c, "send")
    BY <1>1, <2>1 DEF Counted, Repeatable
  <2>3. Remembered(c, "send")
    <3>1. c0.access_token \in Nat \ {token}
      BY <1>1, <1>4 DEF AnyCall, ShouldResendAfter401
    <3>2. {c0.access_token} \in SUBSET Nat  BY <3>1
    <3>3. c.turned_down = {c0.access_token} \cup {}  BY <1>3, <2>1
    <3> HIDE DEF c
    <3> QED  BY <1>3, <2>1, <3>1, <3>2, <3>3 DEF Remembered
  <2>4. pc' = [pc EXCEPT ![t] = "send"] /\ call' = [call EXCEPT ![t] = c]
    BY <1>4 DEF Resend, Proceed, Goto
  <2> QED  BY <2>1, <2>2, <2>3, <2>4 DEF Becomes, Places, Refused
<1>5. CASE ~ShouldResendAfter401(c0.refreshed, c0.access_token, token)
  <2>1. ~can_mint  BY <1>3, <1>5 DEF ShouldResendAfter401
  <2>2. Finish(t, "UNAUTHENTICATED")  BY <1>5 DEF Resend
  <2>3. ~Repeatable(c0) => c0.applied = 0  BY <1>1 DEF Counted
  <2> QED  BY <2>1, <2>2, <2>3, Returns
<1> QED  BY <1>4, <1>5

\* What is decided under the lock.
LEMMA Decided ==
    ASSUME IInv, NEW t \in Threads, pc[t] = "lock"
    PROVE  /\ LockedDecision(t) = "MINT" => can_mint \/ ~Refreshing(t)
           /\ LockedDecision(t) \in {"MINT", "REUSE_CACHED", "GIVE_UP"}
           /\ LockedDecision(t) = "REUSE_CACHED" =>
                /\ cache.token # NoToken
                /\ Refreshing(t) => cache.token # call[t].access_token
           /\ LockedDecision(t) = "GIVE_UP" => Refreshing(t) /\ ~can_mint
           /\ LockedDecision(t) = "MINT" => \/ ~TryFresh
                                            \/ Refreshing(t) /\ cache.token = call[t].access_token
BY DEF LockedDecision, DecideAfterRejection, TryFresh

\* Each step of a thread leaves a call that is told as it was.
LEMMA StepBecomes ==
    ASSUME IInv, NEW t \in Threads, Call(t) \/ Step(t)
    PROVE  \E c, p : Becomes(t, c, p)
<1> DEFINE c0 == call[t]
<1>1. /\ c0 \in AnyCall /\ pc[t] \in Places
      /\ Counted(c0, pc[t]) /\ Remembered(c0, pc[t]) /\ Refused(c0)
      /\ Underway(c0, pc[t])
  BY CallTyped
<1>2. /\ cache \in AnyCached /\ cache.token \in Nat /\ cache.token \in Issued \cup {NoToken}
      /\ now \in Nat
      /\ call = [call EXCEPT ![t] = c0] /\ \A token \in Issued : token \in Nat
  BY DEF IInv, Types, AnyCached, Numbered
<1>3. CASE Call(t)
  <2>1. PICK method \in Methods, reserved \in BOOLEAN :
          Proceed(t, "token", [NoCall EXCEPT !.method = method, !.reserved = reserved])
    BY <1>3 DEF Call
  <2> DEFINE c == [NoCall EXCEPT !.method = method, !.reserved = reserved]
  <2>2. c \in AnyCall /\ c.access_token = NoToken /\ c.response = "none" /\ c.applied = 0
        /\ c.outcome = "none" /\ ~c.refreshed /\ c.turned_down = {}
    BY NoCallTyped, RequestAssumption DEF AnyCall, NoCall
  <2>3. Counted(c, "token") /\ Remembered(c, "token") /\ Refused(c)
    BY <2>2 DEF Counted, Remembered, Refused
  <2> HIDE DEF c
  <2> QED  BY <2>1, <2>2, <2>3 DEF c, Becomes, Places, Proceed, Goto
<1>4. CASE TokenFromCache(t)
  <2>1. c0.response = "none"  BY <1>1, <1>4 DEF Remembered, TokenFromCache
  <2> QED  BY <1>2, <1>4, <2>1, Sends DEF TokenFromCache
<1>5. CASE TokenWantsLock(t)
  <2>1. Counted(c0, "lock") /\ Remembered(c0, "lock")
    BY <1>1, <1>5 DEF Counted, Remembered, TokenWantsLock
  <2> QED  BY <1>1, <1>2, <1>5, <2>1 DEF TokenWantsLock, Goto, Becomes, Places
<1>6. CASE DecideNotToMint(t)
  <2> DEFINE token == IF LockedDecision(t) = "GIVE_UP" THEN NoToken ELSE cache.token
  <2>1. pc[t] = "lock" /\ LockedDecision(t) # "MINT" /\ Obtained(t, token)
    BY <1>6 DEF DecideNotToMint
  <2>2. token \in Nat /\ token \in Issued \cup {NoToken}  BY <1>2 DEF NoToken
  <2>3. c0.response \in {"none", "UNAUTHENTICATED"}  BY <1>1, <2>1 DEF Remembered
  <2>4. CASE Refreshing(t)
    <3>1. ~can_mint \/ (token # NoToken /\ token # c0.access_token)
      BY <2>1, <2>4, Decided
    <3> QED  BY <2>1, <2>2, <2>4, <3>1, Resends DEF Refreshing, Obtained
  <2>5. CASE ~Refreshing(t)
    BY <2>1, <2>2, <2>3, <2>5, Sends DEF Refreshing, Obtained
  <2> QED  BY <2>4, <2>5
<1>7. CASE RethrowMintFailure(t)
  <2>1. ~Repeatable(c0) => c0.applied = 0  BY <1>1, <1>7 DEF Counted, RethrowMintFailure
  <2> QED  BY <1>7, <2>1, Returns DEF RethrowMintFailure
<1>8. CASE StartMint(t)
  <2> DEFINE c == [c0 EXCEPT !.asked_at = now]
  <2>1. c \in AnyCall /\ c.access_token = c0.access_token /\ c.response = c0.response
        /\ c.refreshed = c0.refreshed /\ c.turned_down = c0.turned_down
        /\ c.outcome = c0.outcome /\ c.applied = c0.applied
        /\ c.method = c0.method /\ c.reserved = c0.reserved
    BY <1>1, <1>2 DEF AnyCall
  <2>2. Counted(c, "minting") /\ Remembered(c, "minting") /\ Refused(c)
    BY <1>1, <1>8, <2>1 DEF Counted, Remembered, Refused, StartMint, Repeatable
  <2> QED  BY <1>8, <2>1, <2>2 DEF StartMint, Becomes, Places, Proceed, Goto
<1>9. ASSUME NEW lifetime \in Lifetimes, NEW believed \in Lifetimes,
             Issue(t, lifetime, believed)
      PROVE  \E c, p : Becomes(t, c, p)
  <2> DEFINE token == Cardinality(Issued) + 1
             minted == Cached(token, c0.asked_at + believed, 0)
             c == [c0 EXCEPT !.minted = minted]
  <2>1. token \in Nat /\ c0.asked_at + believed \in Nat
    <3>1. PICK n \in Nat : Issued = 1..n  BY DEF IInv, Types, Numbered
    <3>2. Cardinality(1..n) = n  BY <3>1, FS_Interval
    <3> QED  BY <1>1, <3>1, <3>2, RequestAssumption DEF AnyCall
  <2>2. minted \in AnyCached  BY <2>1 DEF Cached, AnyCached
  <2> HIDE DEF minted
  <2>3. c \in AnyCall /\ c.access_token = c0.access_token /\ c.response = c0.response
        /\ c.refreshed = c0.refreshed /\ c.turned_down = c0.turned_down
        /\ c.outcome = c0.outcome /\ c.applied = c0.applied
        /\ c.method = c0.method /\ c.reserved = c0.reserved
    BY <1>1, <2>2 DEF AnyCall
  <2>4. pc[t] = "minting" /\ Proceed(t, "minted", c)  BY <1>9 DEF Issue, minted
  <2>5. Counted(c, "minted") /\ Remembered(c, "minted") /\ Refused(c)
    BY <1>1, <2>3, <2>4 DEF Counted, Remembered, Refused, Repeatable
  <2> QED  BY <2>3, <2>4, <2>5 DEF Becomes, Places, Proceed, Goto
<1>10. CASE EndpointIssues(t) \/ Impersonate(t)
  BY <1>9, <1>10, RequestAssumption DEF EndpointIssues, Impersonate
<1>11. CASE StoreMinted(t)
  <2>1. pc[t] = "minted" /\ Obtained(t, c0.minted.token)  BY <1>11 DEF StoreMinted
  <2>2. /\ c0.minted.token \in Issued /\ c0.minted.token # c0.access_token
        /\ c0.minted.token \in Nat
    BY <1>1, <1>2, <2>1 DEF Underway
  <2>3. c0.minted.token # NoToken
    BY <1>1, <1>2, <2>1 DEF Underway, NoToken
  <2>4. c0.response \in {"none", "UNAUTHENTICATED"}  BY <1>1, <2>1 DEF Remembered
  <2>5. CASE Refreshing(t)
    BY <2>1, <2>2, <2>3, <2>5, Resends DEF Refreshing, Obtained
  <2>6. CASE ~Refreshing(t)
    BY <2>1, <2>2, <2>4, <2>6, Sends DEF Refreshing, Obtained
  <2> QED  BY <2>5, <2>6
<1>12. CASE MintFails(t)
  <2>1. ~Repeatable(c0) => c0.applied = 0
    BY <1>1, <1>12 DEF Counted, MintFails, Minting
  <2> QED  BY <1>12, <2>1, Returns DEF MintFails
<1>13. ASSUME NEW response \in {"ok"} \cup (Kinds \ {"UNAUTHENTICATED"}), NEW applied \in BOOLEAN,
              pc[t] = "send", Exchange(t, response, applied),
              applied => response \in {"ok", "TRANSIENT"}, response = "ok" => applied
       PROVE  \E c, p : Becomes(t, c, p)
  <2> DEFINE n == IF applied /\ ~Repeatable(c0) THEN c0.applied + 1 ELSE c0.applied
             c == [c0 EXCEPT !.attempt = @ + 1, !.requests = @ + 1,
                             !.response = response, !.applied = n]
  <2>1. n \in Nat /\ c0.attempt + 1 \in Int /\ c0.requests + 1 \in Nat
        /\ response \in Responses
    BY <1>1, <1>13 DEF AnyCall, Responses
  <2>2. ~Repeatable(c0) => n = (IF applied THEN 1 ELSE 0)
    BY <1>1, <1>13 DEF Counted
  <2>3. Proceed(t, "response", c)  BY <1>13 DEF Exchange
  <2> HIDE DEF n
  <2>4. c \in AnyCall /\ c.access_token = c0.access_token /\ c.response = response
        /\ c.refreshed = c0.refreshed /\ c.turned_down = c0.turned_down
        /\ c.outcome = c0.outcome /\ c.applied = n
        /\ c.method = c0.method /\ c.reserved = c0.reserved
    BY <1>1, <2>1 DEF AnyCall
  <2>5. Counted(c, "response")
    BY <1>13, <2>2, <2>4 DEF Counted, Repeatable
  <2>6. Remembered(c, "response") /\ Refused(c)
    BY <1>1, <1>13, <2>4 DEF Remembered, Refused, Kinds
  <2> QED  BY <2>3, <2>4, <2>5, <2>6 DEF Becomes, Places, Proceed, Goto
<1>14. CASE DriveTakesRequest(t)
  <2>1. /\ {"ok", NoAnswer} \subseteq {"ok", "TRANSIENT"}
        /\ "TRANSIENT" \in Kinds \ {"UNAUTHENTICATED"}
    BY DEF NoAnswer, Kinds
  <2>2. \E response \in {"ok", "TRANSIENT"} : Exchange(t, response, TRUE)
    BY <1>14, <2>1, AnswersRead DEF DriveTakesRequest
  <2> QED  BY <1>13, <1>14, <2>1, <2>2 DEF DriveTakesRequest
<1>15. CASE RequestFails(t)
  <2>1. \E response \in {"TRANSIENT", "INSUFFICIENT_SCOPE", "RATE_LIMIT"} :
          Exchange(t, response, FALSE)
    BY <1>15, AnswersRead DEF RequestFails, NoAnswer
  <2> QED  BY <1>13, <1>15, <2>1 DEF RequestFails, Kinds
<1>16. CASE DriveRefusesToken(t)
  <2> DEFINE c == [c0 EXCEPT !.attempt = @ + 1, !.requests = @ + 1,
                             !.response = "UNAUTHENTICATED",
                             !.turned_down = @ \cup {c0.access_token}]
  <2>1. pc[t] = "send" /\ ~Accepted(c0.access_token) /\ Proceed(t, "response", c)
    BY <1>16, AnswersRead DEF DriveRefusesToken
  <2>2. c0.attempt + 1 \in Int /\ c0.requests + 1 \in Nat
        /\ "UNAUTHENTICATED" \in Responses
        /\ c0.turned_down \cup {c0.access_token} \in SUBSET Nat
    BY <1>1 DEF AnyCall, Responses, Kinds
  <2>3. c \in AnyCall /\ c.access_token = c0.access_token
        /\ c.response = "UNAUTHENTICATED"
        /\ c.refreshed = c0.refreshed
        /\ c.turned_down = c0.turned_down \cup {c0.access_token}
        /\ c.outcome = c0.outcome /\ c.applied = c0.applied
        /\ c.method = c0.method /\ c.reserved = c0.reserved
    BY <1>1, <2>2 DEF AnyCall
  <2>4. Counted(c, "response")
    BY <1>1, <2>1, <2>3 DEF Counted, Repeatable
  <2>5. Remembered(c, "response") /\ Refused(c)
    BY <1>1, <2>1, <2>3 DEF Remembered, Refused
  <2> QED  BY <2>1, <2>3, <2>4, <2>5 DEF Becomes, Places, Proceed, Goto
<1>17. CASE Retry(t)
  <2> DEFINE c == [c0 EXCEPT !.response = "none"]
  <2>1. pc[t] = "response" /\ Proceed(t, "send", c) /\ Repeatable(c0)
        /\ c0.response # "UNAUTHENTICATED"
    BY <1>17 DEF Retry, MayRetry, IsRetryable
  <2>2. c \in AnyCall /\ c.access_token = c0.access_token /\ c.response = "none"
        /\ c.refreshed = c0.refreshed /\ c.turned_down = c0.turned_down
        /\ c.outcome = c0.outcome /\ c.method = c0.method /\ c.reserved = c0.reserved
    BY <1>1 DEF AnyCall, Responses
  <2>3. Counted(c, "send") /\ Remembered(c, "send") /\ Refused(c)
    BY <1>1, <2>1, <2>2 DEF Counted, Remembered, Refused, Repeatable
  <2> QED  BY <2>1, <2>2, <2>3 DEF Becomes, Places, Proceed, Goto
<1>18. CASE RefreshAfter401(t)
  <2>1. Counted(c0, "lock") /\ Remembered(c0, "lock")
    BY <1>1, <1>18 DEF Counted, Remembered, RefreshAfter401, Refreshing, MayRefresh
  <2> QED  BY <1>1, <1>2, <1>18, <2>1 DEF RefreshAfter401, Goto, Becomes, Places
<1>19. CASE Surface(t)
  <2> DEFINE outcome == IF c0.response \in {"ok", "UNAUTHENTICATED", "TRANSIENT"}
                        THEN c0.response ELSE "refused"
  <2>1. pc[t] = "response" /\ Finish(t, outcome)
        /\ (c0.response = "UNAUTHENTICATED" => c0.refreshed)
    BY <1>19 DEF Surface, Refreshing, MayRefresh
  <2>2. outcome \in {"ok", "TRANSIENT", "UNAUTHENTICATED", "refused"}  OBVIOUS
  <2>3. ~Repeatable(c0) =>
             /\ c0.applied \in {0, 1}
             /\ outcome = "ok" => c0.applied = 1
             /\ outcome \in {"UNAUTHENTICATED", "refused"} => c0.applied = 0
    BY <1>1, <2>1 DEF Counted
  <2>4. outcome = "UNAUTHENTICATED" => \E a, b \in Nat : a # b /\ c0.turned_down = {a, b}
    <3>1. SUFFICES ASSUME c0.response = "UNAUTHENTICATED"
                   PROVE  \E a, b \in Nat : a # b /\ c0.turned_down = {a, b}
      OBVIOUS
    <3>2. PICK a \in Nat \ {c0.access_token} : c0.turned_down = {a} \cup {c0.access_token}
      BY <1>1, <2>1, <3>1 DEF Remembered
    <3>3. c0.access_token \in Nat  BY <1>1 DEF AnyCall
    <3> QED  BY <3>2, <3>3
  <2> QED  BY <2>1, <2>2, <2>3, <2>4, Returns
<1> QED
  BY <1>3, <1>4, <1>5, <1>6, <1>7, <1>8, <1>10, <1>11, <1>12, <1>14, <1>15, <1>16, <1>17,
     <1>18, <1>19 DEF Step, GetToken, MakeRequest

-----------------------------------------------------------------------------
(***************************************************************************)
(* What all threads see.                                                   *)
(***************************************************************************)

\* Tokens are only added, time goes on, and what is refused stays refused.
LEMMA Forward ==
    ASSUME IInv, [Next]_vars
    PROVE  /\ provider' = provider /\ now' \in Nat /\ now <= now' /\ Numbered'
           /\ Issued \subseteq Issued'
           /\ \A token \in Issued : expires'[token] = expires[token]
           /\ \A token \in Issued \cup {NoToken} : Accepted(token)' => Accepted(token)
<1>1. PICK n \in Nat : Issued = 1..n  BY DEF IInv, Types, Numbered
<1>2. now \in Nat /\ \A token \in Issued : expires[token] \in Nat
  BY DEF IInv, Types, Numbered
<1>3. provider' = provider
  BY DEF Next, Call, Step, GetToken, MakeRequest, TokenFromCache, TokenWantsLock,
         DecideNotToMint, RethrowMintFailure, StartMint, EndpointIssues, Impersonate, Issue,
         StoreMinted, MintFails, DriveRefusesToken, DriveTakesRequest, RequestFails, Retry,
         RefreshAfter401, Surface, Tick, Revoke, vars
<1>4. CASE \E t \in Threads, lifetime, believed \in Lifetimes : Issue(t, lifetime, believed)
  <2>1. PICK t \in Threads, lifetime, believed \in Lifetimes : Issue(t, lifetime, believed)
    BY <1>4
  <2>2. Cardinality(Issued) = n  BY <1>1, FS_Interval
  <2>3. expires' = [k \in Issued \cup {n + 1} |-> IF k = n + 1 THEN now + lifetime
                                                              ELSE expires[k]]
        /\ now' = now /\ revoked' = revoked
    BY <2>1, <2>2 DEF Issue
  <2>4. Issued' = 1..(n + 1)  BY <1>1, <2>3 DEF Issued
  <2>5. lifetime \in Nat  BY <2>1, RequestAssumption
  <2>6. \A token \in Issued : expires'[token] = expires[token]
    BY <1>1, <2>3
  <2>7. \A token \in Issued' : expires'[token] \in Nat
    BY <1>1, <1>2, <2>3, <2>4, <2>5
  <2>8. Numbered'  BY <1>1, <1>3, <2>4, <2>7 DEF Numbered, IInv, Types
  <2>9. \A token \in Issued \cup {NoToken} : Accepted(token)' => Accepted(token)
    BY <1>1, <2>3, <2>4, <2>6 DEF Accepted, NoToken
  <2> QED  BY <1>1, <1>2, <1>3, <2>3, <2>4, <2>6, <2>8, <2>9
<1>5. CASE expires' = expires /\ now' \in Nat /\ now <= now' /\ revoked \subseteq revoked'
  BY <1>1, <1>2, <1>3, <1>5 DEF IInv, Types, Numbered, Issued, Accepted, NoToken
<1>6. \/ \E t \in Threads, lifetime, believed \in Lifetimes : Issue(t, lifetime, believed)
      \/ expires' = expires /\ now' \in Nat /\ now <= now' /\ revoked \subseteq revoked'
  <2>1. ASSUME NEW t \in Threads, EndpointIssues(t) \/ Impersonate(t)
        PROVE  \E lifetime, believed \in Lifetimes : Issue(t, lifetime, believed)
    BY <2>1, RequestAssumption DEF EndpointIssues, Impersonate
  <2>2. CASE Tick \/ Revoke  BY <1>2, <2>2 DEF Tick, Revoke, driveVars
  <2>3. CASE UNCHANGED vars  BY <1>2, <2>3 DEF vars, driveVars
  <2>4. ASSUME NEW t \in Threads, Call(t) \/ Step(t), ~(EndpointIssues(t) \/ Impersonate(t))
        PROVE  expires' = expires /\ now' = now /\ revoked' = revoked
    BY <2>4 DEF Call, Step, GetToken, MakeRequest, TokenFromCache, TokenWantsLock,
         DecideNotToMint, RethrowMintFailure, StartMint, StoreMinted, MintFails,
         DriveRefusesToken, DriveTakesRequest, RequestFails, Retry, RefreshAfter401, Surface,
         driveVars
  <2> QED  BY <1>2, <2>1, <2>2, <2>3, <2>4 DEF Next
<1> QED  BY <1>4, <1>5, <1>6

\* The cache changes when a pasted token is seeded and when a minted one is stored.
LEMMA CacheMoves ==
    ASSUME IInv, [Next]_vars
    PROVE  \/ cache' = cache
           \/ /\ provider = "seeded" /\ cache.token = NoToken
              /\ cache' = Cached(1, kUnknownExpiry, now)
           \/ \E t \in Threads : /\ pc[t] = "minted" /\ pc'[t] # "minted"
                                 /\ cache' = MintedState(call[t], now) /\ expires' = expires
<1>1. ASSUME NEW t \in Threads, StoreMinted(t)
      PROVE  /\ pc[t] = "minted" /\ pc'[t] # "minted"
             /\ cache' = MintedState(call[t], now) /\ expires' = expires
  <2>1. pc \in [Threads -> Places]  BY DEF IInv, Types
  <2> QED  BY <1>1, <2>1 DEF StoreMinted, Obtained, Resend, SendWith, Finish, Proceed, Goto, driveVars
<1>2. ASSUME NEW t \in Threads, Call(t) \/ Step(t), ~StoreMinted(t)
      PROVE  \/ cache' = cache
             \/ /\ provider = "seeded" /\ cache.token = NoToken
                /\ cache' = Cached(1, kUnknownExpiry, now)
  BY <1>2 DEF Call, Seed, Step, GetToken, MakeRequest, TokenFromCache, TokenWantsLock,
         DecideNotToMint, RethrowMintFailure, StartMint, EndpointIssues, Impersonate, Issue,
         MintFails, DriveRefusesToken, DriveTakesRequest, RequestFails, Retry,
         RefreshAfter401, Surface, tokenVars
<1>3. CASE Tick \/ Revoke \/ UNCHANGED vars  BY <1>3 DEF Tick, Revoke, vars, tokenVars
<1> QED  BY <1>1, <1>2, <1>3 DEF Next

LEMMA CacheKeeps ==
    ASSUME IInv, [Next]_vars
    PROVE  /\ cache' \in AnyCached
           /\ cache'.token \in Issued' \cup {NoToken}
           /\ cache' # cache => /\ cache'.token > cache.token
                                /\ cache'.expires_at # kUnknownExpiry =>
                                     cache'.expires_at <= expires[cache'.token]
<1>1. cache \in AnyCached /\ cache.token \in Issued \cup {NoToken} /\ now \in Nat
  BY DEF IInv, Types
<1>2. CASE cache' = cache  BY <1>1, <1>2, Forward
<1>3. CASE /\ provider = "seeded" /\ cache.token = NoToken
           /\ cache' = Cached(1, kUnknownExpiry, now)
  <2>1. 1 \in Issued  BY <1>3 DEF IInv, Types, Numbered
  <2> QED
    BY <1>1, <1>3, <2>1, Forward, TokenPolicyAssumption
    DEF Cached, AnyCached, kUnknownExpiry, NoToken
<1>4. ASSUME NEW t \in Threads, pc[t] = "minted", cache' = MintedState(call[t], now),
             expires' = expires
      PROVE  /\ cache' \in AnyCached /\ cache'.token \in Issued'
             /\ cache'.token > cache.token
             /\ cache'.expires_at <= expires[cache'.token]
  <2>1. call[t] \in AnyCall /\ Underway(call[t], pc[t])  BY CallTyped
  <2>2. call[t].minted \in AnyCached  BY <2>1 DEF AnyCall
  <2>3. /\ cache' \in AnyCached
        /\ cache'.token = call[t].minted.token /\ cache'.expires_at = call[t].minted.expires_at
    BY <1>1, <1>4, <2>2 DEF MintedState, AnyCached
  <2> QED  BY <1>4, <2>1, <2>3, Forward DEF Underway
<1> QED  BY <1>2, <1>3, <1>4, CacheMoves

\* Who holds the mint lock, and whose mint goes on.
LEMMA LockMoves ==
    ASSUME IInv, NEW t \in Threads, Call(t) \/ Step(t)
    PROVE  \/ mint_lock' = mint_lock
           \/ mint_lock = Nobody /\ mint_lock' = t
           \/ mint_lock' = Nobody /\ Minting(pc[t]) /\ ~Minting(pc'[t])
<1>1. pc \in [Threads -> Places]  BY DEF IInv, Types
<1>2. CASE StoreMinted(t)
  BY <1>1, <1>2
  DEF StoreMinted, Minting, Obtained, Resend, SendWith, Finish, Proceed, Goto
<1>3. CASE MintFails(t)
  BY <1>1, <1>3 DEF MintFails, Minting, Finish, Proceed, Goto
<1>4. CASE StartMint(t)  BY <1>4 DEF StartMint
<1>5. CASE ~StoreMinted(t) /\ ~MintFails(t) /\ ~StartMint(t)
  BY <1>5 DEF Call, Step, GetToken, MakeRequest, TokenFromCache, TokenWantsLock,
         DecideNotToMint, RethrowMintFailure, EndpointIssues, Impersonate, Issue,
         DriveRefusesToken, DriveTakesRequest, RequestFails, Retry,
         RefreshAfter401, Surface, tokenVars
<1> QED  BY <1>2, <1>3, <1>4, <1>5

\* A thread is within a mint when it began one, was issued a token, or does nothing.
LEMMA MintMoves ==
    ASSUME IInv, NEW t \in Threads, Call(t) \/ Step(t)
    PROVE  /\ pc'[t] = "minting" =>
                /\ StartMint(t) /\ mint_lock' = t /\ call'[t].asked_at = now /\ now' = now
           /\ pc'[t] = "minted" =>
                /\ pc[t] = "minting" /\ mint_lock' = mint_lock
                /\ \E lifetime, believed \in Lifetimes :
                     believed <= lifetime /\ Issue(t, lifetime, believed)
<1>1. pc \in [Threads -> Places] /\ call \in [Threads -> AnyCall]  BY DEF IInv, Types
<1>2. call[t] \in AnyCall  BY <1>1
<1>3. CASE StartMint(t)
  BY <1>1, <1>2, <1>3 DEF StartMint, Proceed, Goto, AnyCall
<1>4. CASE EndpointIssues(t) \/ Impersonate(t)
  <2>1. \E lifetime, believed \in Lifetimes :
           believed <= lifetime /\ Issue(t, lifetime, believed)
    BY <1>4, RequestAssumption DEF EndpointIssues, Impersonate
  <2> QED  BY <1>1, <2>1 DEF Issue, Proceed, Goto, tokenVars
<1>5. CASE ~StartMint(t) /\ ~(EndpointIssues(t) \/ Impersonate(t))
  <2>1. pc'[t] \notin {"minting", "minted"}
    BY <1>1, <1>5 DEF Call, Step, GetToken, MakeRequest, TokenFromCache, TokenWantsLock,
         DecideNotToMint, RethrowMintFailure, StoreMinted, MintFails,
         DriveRefusesToken, DriveTakesRequest, RequestFails, Retry, RefreshAfter401, Surface,
         Obtained, Resend, SendWith, Finish, Exchange, Proceed, Goto
  <2> QED  BY <2>1
<1> QED  BY <1>3, <1>4, <1>5

\* A mint goes on undisturbed: the lock keeps others from minting and storing.
LEMMA MintsKeep ==
    ASSUME IInv, NEW t \in Threads, Call(t) \/ Step(t), NEW u \in Threads
    PROVE  /\ Underway(call[u], pc[u])'
           /\ Minting(pc[u])' => mint_lock' = u
<1> USE DEF Minting
<1>1. [Next]_vars  BY DEF Next
<1>2. /\ call[u] \in AnyCall /\ Underway(call[u], pc[u]) /\ (Minting(pc[u]) => mint_lock = u)
      /\ now \in Nat /\ cache \in AnyCached /\ cache.token \in Issued \cup {NoToken}
      /\ Minting(pc[t]) => mint_lock = t
  BY CallTyped DEF IInv, Types, CallSound
<1>3. CASE u # t
  <2>1. pc'[u] = pc[u] /\ call'[u] = call[u]
    <3>1. PICK c, p : Becomes(t, c, p)  BY StepBecomes
    <3> QED  BY <1>3, <3>1 DEF Becomes, IInv, Types
  <2>2. Minting(pc[u])' => mint_lock' = u
    BY <1>2, <1>3, <2>1, LockMoves, RequestAssumption
  <2>3. pc[u] = "minting" => call[u].asked_at <= now'
    BY <1>1, <1>2, Forward DEF Underway, AnyCall
  <2>4. ASSUME pc[u] = "minted"
        PROVE  call[u].minted.token > cache'.token
    <3>1. CASE cache' = cache  BY <1>2, <2>4, <3>1 DEF Underway
    <3>2. CASE provider = "seeded" /\ cache' = Cached(1, kUnknownExpiry, now)
      BY <1>2, <2>4, <3>2 DEF Underway, Cached
    <3>3. ASSUME NEW v \in Threads, pc[v] = "minted", pc'[v] # "minted"  PROVE FALSE
      <4>1. mint_lock = v /\ mint_lock = u  BY <1>2, <2>4, <3>3 DEF IInv, CallSound
      <4> QED  BY <2>1, <2>4, <3>3, <4>1
    <3> QED  BY <1>1, <3>1, <3>2, <3>3, CacheMoves
  <2>5. Underway(call[u], pc[u])'
    BY <1>1, <1>2, <2>1, <2>3, <2>4, Forward DEF Underway
  <2> QED  BY <2>2, <2>5
<1>4. CASE u = t
  <2>1. CASE pc'[t] = "minting"
    BY <1>2, <1>4, <2>1, MintMoves DEF Underway
  <2>2. CASE pc'[t] = "minted"
    <3>1. PICK lifetime, believed \in Lifetimes :
            believed <= lifetime /\ Issue(t, lifetime, believed)
      BY <2>2, MintMoves
    <3>2. PICK n \in Nat : Issued = 1..n  BY DEF IInv, Types, Numbered
    <3>3. Cardinality(Issued) = n  BY <3>2, FS_Interval
    <3>4. lifetime \in Nat /\ believed \in Nat  BY RequestAssumption
    <3> DEFINE minted == Cached(n + 1, call[t].asked_at + believed, 0)
    <3>5. /\ expires' = [k \in Issued \cup {n + 1} |-> IF k = n + 1 THEN now + lifetime
                                                                ELSE expires[k]]
          /\ call' = [call EXCEPT ![t] = [call[t] EXCEPT !.minted = minted]]
          /\ cache' = cache
      BY <3>1, <3>3 DEF Issue, Proceed, tokenVars
    <3>6. /\ call'[t].minted.token = n + 1
          /\ call'[t].minted.expires_at = call[t].asked_at + believed
          /\ call'[t].access_token = call[t].access_token
      <4> HIDE DEF minted
      <4>1. call'[t] = [call[t] EXCEPT !.minted = minted]  BY <3>5 DEF IInv, Types
      <4>2. call'[t].minted = minted /\ call'[t].access_token = call[t].access_token
        BY <1>2, <1>4, <4>1 DEF AnyCall
      <4> QED  BY <4>2 DEF minted, Cached
    <3>7. n + 1 \in Issued' /\ expires'[n + 1] = now + lifetime  BY <3>5 DEF Issued
    <3>8. call[t].access_token \in Issued \cup {NoToken}  BY CallTyped DEF Refused
    <3>9. call[t].asked_at <= now /\ call[t].asked_at \in Nat
      BY <1>2, <1>4, <2>2, MintMoves DEF Underway, AnyCall
    <3>10. provider' = provider /\ (provider = "seeded" => 1 \in Issued)
      BY <1>1, Forward DEF IInv, Types, Numbered
    <3>11. call[t].asked_at + believed <= now + lifetime
      BY <1>2, <3>1, <3>4, <3>9
    <3>12. Underway(call[t], pc[t])'
      <4>1. n + 1 # call[t].access_token /\ n + 1 > cache.token
        BY <1>2, <3>2, <3>8 DEF NoToken
      <4>2. provider' = "seeded" => n + 1 > 1  BY <3>2, <3>10
      <4> QED  BY <2>2, <3>5, <3>6, <3>7, <3>11, <4>1, <4>2 DEF Underway
    <3> QED  BY <1>2, <1>4, <2>2, <3>12, MintMoves
  <2>3. CASE pc'[t] \notin {"minting", "minted"}
    BY <1>4, <2>3 DEF Underway
  <2> QED  BY <2>1, <2>2, <2>3
<1> QED  BY <1>3, <1>4

-----------------------------------------------------------------------------
(***************************************************************************)
(* The invariant and the theorems.                                         *)
(***************************************************************************)

THEOREM InitEstablishes == Init => IInv
<1> SUFFICES ASSUME Init PROVE IInv  OBVIOUS
<1>1. /\ now \in Nat /\ Numbered /\ cache \in AnyCached
      /\ cache.token \in Issued \cup {NoToken}
  <2>1. Issued = IF provider \in {"unrefreshable", "seeded"} THEN {1} ELSE {}
    BY DEF Init, Issued
  <2>2. \A token \in Issued : expires[token] \in Nat
    BY <2>1, RequestAssumption DEF Init
  <2>3. Numbered
    <3>1. CASE provider \in {"unrefreshable", "seeded"}
      BY <2>1, <2>2, <3>1 DEF Numbered
    <3>2. CASE provider \notin {"unrefreshable", "seeded"}
      <4>1. Issued = 1..0  BY <2>1, <3>2
      <4> QED  BY <2>2, <3>2, <4>1 DEF Numbered
    <3> QED  BY <3>1, <3>2
  <2>4. CASE provider = "unrefreshable"
    BY <2>1, <2>2, <2>3, <2>4 DEF Init, Cached, AnyCached
  <2>5. CASE provider # "unrefreshable"
    BY <2>3, <2>5 DEF Init, NothingCached, Cached, AnyCached, NoToken
  <2> QED  BY <2>3, <2>4, <2>5 DEF Init
<1>2. pc \in [Threads -> Places] /\ call \in [Threads -> AnyCall]
  BY NoCallTyped DEF Init, Places
<1>3. ASSUME NEW t \in Threads PROVE CallSound(t)
  <2>1. call[t] = NoCall /\ pc[t] = "idle"  BY <1>3 DEF Init
  <2> QED
    BY <2>1 DEF CallSound, Counted, Remembered, Refused, Underway, Minting, NoCall,
                Repeatable, IsIdempotent
<1> QED  BY <1>1, <1>2, <1>3 DEF IInv, Types

\* Every step of a thread, of Drive, of the endpoint and of the clock keeps the
\* invariant.
THEOREM StepKeeps == IInv /\ [Next]_vars => IInv'
<1> SUFFICES ASSUME IInv, [Next]_vars PROVE IInv'  OBVIOUS
<1>1. ASSUME NEW t \in Threads, Call(t) \/ Step(t)
      PROVE  IInv'
  <2>1. PICK c, p : Becomes(t, c, p)  BY <1>1, StepBecomes
  <2>2. pc' \in [Threads -> Places] /\ call' \in [Threads -> AnyCall]
    BY <2>1 DEF Becomes, IInv, Types
  <2>3. Types' /\ cache'.token \in Issued' \cup {NoToken}
    BY <2>2, Forward, CacheKeeps DEF Types
  <2>4. ASSUME NEW u \in Threads PROVE CallSound(u)'
    <3>1. /\ Counted(call'[u], pc'[u]) /\ Remembered(call'[u], pc'[u]) /\ Refused(call'[u])
      BY <2>1, CallTyped DEF Becomes, IInv, Types
    <3>2. Refused(call[u])'
      BY <3>1, Forward DEF Refused
    <3>3. Remembered(call[u], pc[u])'
      BY <3>1, Forward DEF Remembered, can_mint
    <3>4. Counted(call[u], pc[u])'  BY <3>1 DEF Counted
    <3> QED  BY <1>1, <3>2, <3>3, <3>4, MintsKeep DEF CallSound
  <2> QED  BY <2>3, <2>4 DEF IInv
<1>2. CASE Tick \/ Revoke \/ UNCHANGED vars
  <2>1. /\ pc' = pc /\ call' = call /\ mint_lock' = mint_lock /\ cache' = cache
        /\ expires' = expires
    BY <1>2 DEF Tick, Revoke, vars, tokenVars, driveVars
  <2>2. Types' /\ cache'.token \in Issued' \cup {NoToken}
    BY <2>1, Forward, CacheKeeps DEF IInv, Types
  <2>3. ASSUME NEW u \in Threads PROVE CallSound(u)'
    <3>1. /\ Counted(call[u], pc[u]) /\ Remembered(call[u], pc[u]) /\ Refused(call[u])
          /\ Underway(call[u], pc[u]) /\ call[u] \in AnyCall
          /\ Minting(pc[u]) => mint_lock = u
      BY CallTyped DEF IInv, CallSound
    <3>2. Refused(call[u])'  BY <2>1, <3>1, Forward DEF Refused
    <3>3. Remembered(call[u], pc[u])'  BY <2>1, <3>1, Forward DEF Remembered, can_mint
    <3>4. Counted(call[u], pc[u])'  BY <2>1, <3>1 DEF Counted
    <3>5. Underway(call[u], pc[u])'
      <4>1. pc[u] = "minting" => call[u].asked_at <= now'
        BY <3>1, Forward DEF Underway, AnyCall, IInv, Types
      <4> QED  BY <2>1, <3>1, <4>1, Forward DEF Underway
    <3> QED  BY <2>1, <3>1, <3>2, <3>3, <3>4, <3>5 DEF CallSound
  <2> QED  BY <2>2, <2>3 DEF IInv
<1> QED  BY <1>1, <1>2 DEF Next

\* The invariant holds of every run.
THEOREM Invariance == Spec => []IInv
<1> QED  BY InitEstablishes, StepKeeps, PTL DEF Spec

\* ExecuteWithRetry: a create or an update is applied at most once, a success says
\* that it was, and a failure that is not a 5xx or silence that it was not, for any
\* number of threads, attempts and tokens.
THEOREM ReportsAreTrue == Spec => []AppliedAsReported
<1>1. IInv => AppliedAsReported
  <2> SUFFICES ASSUME IInv, NEW t \in Threads, ~Repeatable(call[t])
               PROVE  /\ call[t].applied <= 1
                      /\ call[t].outcome = "ok" => call[t].applied = 1
                      /\ call[t].outcome \in {"UNAUTHENTICATED", "refused"}
                           => call[t].applied = 0
    BY DEF AppliedAsReported
  <2>1. Counted(call[t], pc[t]) /\ Remembered(call[t], pc[t]) /\ call[t] \in AnyCall
    BY CallTyped
  <2>2. CASE pc[t] = "idle"  BY <2>1, <2>2 DEF Counted
  <2>3. CASE pc[t] # "idle"
    <3>1. call[t].outcome = "none"  BY <2>1, <2>3 DEF Remembered
    <3>2. call[t].applied \in {0, 1}  BY <2>1, <2>3 DEF Counted
    <3> QED  BY <3>1, <3>2
  <2> QED  BY <2>2, <2>3
<1> QED  BY <1>1, Invariance, PTL

\* Refresh() and the 401 branch: where a token can be minted, a call fails as
\* unauthenticated only after Drive refused two different tokens.
THEOREM TwoTokensRefused == Spec => []UnauthenticatedMeansIt
<1>1. IInv => UnauthenticatedMeansIt
  <2> SUFFICES ASSUME IInv, NEW t \in Threads, call[t].outcome = "UNAUTHENTICATED", can_mint
               PROVE  Cardinality(call[t].turned_down) = 2
    BY DEF UnauthenticatedMeansIt
  <2>1. PICK a, b \in Nat : a # b /\ call[t].turned_down = {a, b}
    BY CallTyped DEF Remembered
  <2>2. IsFiniteSet({a}) /\ Cardinality({a}) = 1  BY FS_Singleton
  <2>3. Cardinality({a} \cup {b}) = 2  BY <2>1, <2>2, FS_AddElement
  <2>4. {a} \cup {b} = {a, b}  OBVIOUS
  <2> QED  BY <2>1, <2>3, <2>4
<1> QED  BY <1>1, Invariance, PTL

\* MintAndStore under the mint lock: the endpoint is asked only when no token is
\* cached that would do, so threads refused together mint one token.
THEOREM NothingMintedForNothing == Spec => MintsJustified
<1>1. IInv /\ [Next]_vars =>
        [\A t \in Threads : ~Minting(pc[t]) /\ Minting(pc'[t])
            => ~TryFresh \/ ~Accepted(cache.token)]_vars
  <2> SUFFICES ASSUME IInv, [Next]_vars, NEW u \in Threads,
                      ~Minting(pc[u]), Minting(pc'[u])
               PROVE  ~TryFresh \/ ~Accepted(cache.token)
    OBVIOUS
  <2>1. pc'[u] # pc[u]  OBVIOUS
  <2>2. PICK t \in Threads : Call(t) \/ Step(t)
    BY <2>1 DEF Next, Tick, Revoke, vars
  <2>3. u = t
    <3>1. PICK c, p : Becomes(t, c, p)  BY <2>2, StepBecomes
    <3> QED  BY <2>1, <3>1 DEF Becomes, IInv, Types
  <2>4. StartMint(t)
    BY <2>2, <2>3, MintMoves DEF Minting
  <2>5. pc[t] = "lock" /\ LockedDecision(t) = "MINT"  BY <2>4 DEF StartMint
  <2>6. CASE Refreshing(t) /\ cache.token = call[t].access_token
    BY <2>6, CallTyped DEF Refused, Refreshing
  <2> QED  BY <2>5, <2>6, Decided
<1> QED  BY <1>1, Invariance, PTL DEF Spec, MintsJustified

\* CachedTokenSource and the mint functions: what is cached changes for a later
\* token only, and no minted token is believed to live longer than it does, whatever
\* its lifetime and however long the endpoint takes.
THEOREM LifetimesHonest == Spec => CacheHonest
<1>1. IInv /\ [Next]_vars =>
        [cache' # cache =>
            /\ cache'.token > cache.token
            /\ cache'.expires_at # kUnknownExpiry =>
                  cache'.expires_at <= expires[cache'.token]]_vars
  BY CacheKeeps
<1> QED  BY <1>1, Invariance, PTL DEF Spec, CacheHonest
-----------------------------------------------------------------------------
(***************************************************************************)
(* How often a call asks, and the bounds of every variable.                *)
(***************************************************************************)

\* The HTTP requests of a call are the attempts it counted and the one the
\* re-send gave back; what waits to be sent has an attempt left.
Metered(c, p) ==
    /\ c.requests = c.attempt + (IF c.refreshed THEN 1 ELSE 0)
    /\ p # "response" /\ c.response = "none" => c.attempt < MaxAttempts
    /\ c.response = "UNAUTHENTICATED" => c.attempt >= 1
    /\ Repeatable(c) => c.applied = 0

\* The part of TypeOK that bounds a call's counters, whatever is minted.
Attempted(c, p) == c.attempt \in 0..MaxAttempts /\ Metered(c, p)

\* No HTTP exchange begins after kMaxAttempts of them, but for one re-send.
RequestsBounded == \A t \in Threads : call[t].requests <= MaxAttempts + 1

RInv == IInv /\ \A t \in Threads : Attempted(call[t], pc[t])

LEMMA NoCallMetered == \A p : Attempted(NoCall, p)
BY RequestAssumption DEF Attempted, Metered, NoCall, Repeatable

\* What every step of a thread leaves of its call's counters.
LEMMA StepAttempts ==
    ASSUME RInv, NEW t \in Threads, Call(t) \/ Step(t)
    PROVE  /\ Attempted(call'[t], pc'[t])
           /\ \A u \in Threads \ {t} : call'[u] = call[u] /\ pc'[u] = pc[u]
<1>1. PICK c0 : c0 = call[t]  OBVIOUS
<1>2. /\ c0 \in AnyCall /\ pc[t] \in Places /\ Remembered(c0, pc[t])
      /\ Attempted(c0, pc[t])
      /\ pc \in [Threads -> Places] /\ call \in [Threads -> AnyCall]
  BY <1>1, CallTyped DEF RInv, IInv, Types
<1>3. /\ c0.attempt \in 0..MaxAttempts /\ c0.requests \in Nat /\ MaxAttempts \in Nat \ {0}
      /\ c0.refreshed \in BOOLEAN
  BY <1>2, RequestAssumption DEF AnyCall, Attempted
<1>4. \A u \in Threads \ {t} : call'[u] = call[u] /\ pc'[u] = pc[u]
  <2>1. PICK c, p : Becomes(t, c, p)  BY StepBecomes DEF RInv
  <2> QED  BY <1>2, <2>1 DEF Becomes
<1>5. ASSUME NEW c, NEW p, Proceed(t, p, c)
      PROVE  call'[t] = c /\ pc'[t] = p
  BY <1>2, <1>5 DEF Proceed, Goto
<1>6. ASSUME NEW outcome, Finish(t, outcome)
      PROVE  Attempted(call'[t], pc'[t])
  <2>1. PICK c : /\ Proceed(t, "idle", c)
                 /\ c = IF outcome = "UNAUTHENTICATED"
                        THEN [NoCall EXCEPT !.outcome = outcome,
                                !.turned_down = c0.turned_down, !.method = c0.method,
                                !.reserved = c0.reserved, !.applied = c0.applied]
                        ELSE IF Repeatable(c0) THEN NoCall
                        ELSE [NoCall EXCEPT !.outcome = outcome, !.method = c0.method,
                                !.applied = c0.applied]
    BY <1>1, <1>6 DEF Finish
  <2>2. call'[t] = c /\ pc'[t] = "idle"  BY <1>5, <2>1
  <2>3. c.requests = 0 /\ c.attempt = 0 /\ c.refreshed = FALSE /\ c.response = "none"
    BY <2>1 DEF NoCall
  <2>4. Repeatable(c) => c.applied = 0
    <3>1. CASE outcome = "UNAUTHENTICATED"
      <4>1. c.method = c0.method /\ c.reserved = c0.reserved /\ c.applied = c0.applied
        BY <2>1, <3>1 DEF NoCall
      <4> QED  BY <1>2, <4>1 DEF Attempted, Metered, Repeatable
    <3>2. CASE outcome # "UNAUTHENTICATED" /\ Repeatable(c0)
      BY <2>1, <3>2 DEF NoCall
    <3>3. CASE outcome # "UNAUTHENTICATED" /\ ~Repeatable(c0)
      <4>1. c.method = c0.method /\ c.reserved = FALSE  BY <2>1, <3>3 DEF NoCall
      <4> QED  BY <3>3, <4>1 DEF Repeatable
    <3> QED  BY <3>1, <3>2, <3>3
  <2> QED  BY <1>3, <2>2, <2>3, <2>4 DEF Attempted, Metered
<1>7. ASSUME NEW c, NEW p, Proceed(t, p, c),
             c.method = c0.method, c.reserved = c0.reserved, c.applied = c0.applied,
             c.attempt = c0.attempt, c.requests = c0.requests, c.refreshed = c0.refreshed,
             c.response = c0.response, p # "response", pc[t] # "response"
      PROVE  Attempted(call'[t], pc'[t])
  <2>1. Attempted(c, p)  BY <1>2, <1>7 DEF Attempted, Metered, Repeatable
  <2> QED  BY <1>5, <1>7, <2>1
<1>8. ASSUME NEW token, Resend(t, token), c0.response = "UNAUTHENTICATED",
             pc[t] \in {"lock", "minted"}
      PROVE  Attempted(call'[t], pc'[t])
  <2>1. ~c0.refreshed  BY <1>2, <1>8 DEF Remembered
  <2>2. CASE ~ShouldResendAfter401(c0.refreshed, c0.access_token, token)
    BY <1>1, <1>6, <1>8, <2>2 DEF Resend
  <2>3. CASE ShouldResendAfter401(c0.refreshed, c0.access_token, token)
    <3>1. PICK c : /\ Proceed(t, "send", c)
                   /\ c = [c0 EXCEPT !.refreshed = TRUE, !.attempt = c0.attempt - 1,
                                     !.access_token = token, !.response = "none",
                                     !.asked_at = 0, !.minted = NothingCached]
      BY <1>1, <1>8, <2>3 DEF Resend
    <3>2. /\ c.refreshed = TRUE /\ c.attempt = c0.attempt - 1 /\ c.response = "none"
          /\ c.requests = c0.requests /\ c.method = c0.method
          /\ c.reserved = c0.reserved /\ c.applied = c0.applied
      BY <1>2, <3>1 DEF AnyCall
    <3>3. c0.requests = c0.attempt /\ c0.attempt >= 1
      BY <1>2, <1>3, <1>8, <2>1 DEF Attempted, Metered
    <3>4. Attempted(c, "send")
      <4>1. Repeatable(c) => c.applied = 0
        BY <1>2, <3>2 DEF Attempted, Metered, Repeatable
      <4>2. /\ c.requests = c.attempt + 1 /\ c.attempt \in 0..MaxAttempts
            /\ c.attempt < MaxAttempts
        BY <1>3, <3>2, <3>3
      <4> QED  BY <3>2, <4>1, <4>2 DEF Attempted, Metered
    <3> QED  BY <1>5, <3>1, <3>4
  <2> QED  BY <2>2, <2>3
<1>9. ASSUME NEW token, SendWith(t, token), pc[t] # "response"
      PROVE  Attempted(call'[t], pc'[t])
  <2>1. PICK c : /\ Proceed(t, "send", c)
                 /\ c = [c0 EXCEPT !.access_token = token, !.asked_at = 0,
                                   !.minted = NothingCached]
    BY <1>1, <1>9 DEF SendWith
  <2>2. /\ c.method = c0.method /\ c.reserved = c0.reserved /\ c.applied = c0.applied
        /\ c.attempt = c0.attempt /\ c.requests = c0.requests
        /\ c.refreshed = c0.refreshed /\ c.response = c0.response
    BY <1>2, <2>1 DEF AnyCall
  <2> QED  BY <1>7, <1>9, <2>1, <2>2
<1>10. ASSUME NEW token, Obtained(t, token), pc[t] \in {"lock", "minted"}
       PROVE  Attempted(call'[t], pc'[t])
  BY <1>1, <1>8, <1>9, <1>10 DEF Obtained, Refreshing
<1>11. CASE Call(t)
  <2>1. PICK method \in Methods, reserved \in BOOLEAN :
          Proceed(t, "token", [NoCall EXCEPT !.method = method, !.reserved = reserved])
    BY <1>11 DEF Call
  <2>2. PICK c : c = [NoCall EXCEPT !.method = method, !.reserved = reserved]  OBVIOUS
  <2>3. c.requests = 0 /\ c.attempt = 0 /\ c.refreshed = FALSE /\ c.response = "none"
        /\ c.applied = 0
    BY <2>2 DEF NoCall
  <2>4. Attempted(c, "token")  BY <1>3, <2>3 DEF Attempted, Metered
  <2> QED  BY <1>4, <1>5, <2>1, <2>2, <2>4
<1>12. CASE TokenFromCache(t)
  BY <1>4, <1>9, <1>12 DEF TokenFromCache
<1>13. CASE TokenWantsLock(t) \/ RefreshAfter401(t)
  <2>1. pc'[t] = "lock" /\ call'[t] = c0
        /\ (pc[t] = "response" => c0.response = "UNAUTHENTICATED")
    BY <1>1, <1>2, <1>13 DEF TokenWantsLock, RefreshAfter401, Refreshing, Goto
  <2>2. Attempted(c0, "lock")  BY <1>2, <2>1 DEF Attempted, Metered
  <2> QED  BY <1>4, <2>1, <2>2
<1>14. CASE DecideNotToMint(t) \/ StoreMinted(t)
  BY <1>4, <1>10, <1>14 DEF DecideNotToMint, StoreMinted
<1>15. CASE RethrowMintFailure(t) \/ MintFails(t) \/ Surface(t)
  BY <1>4, <1>6, <1>15 DEF RethrowMintFailure, MintFails, Surface
<1>16. CASE StartMint(t)
  <2>1. PICK c : Proceed(t, "minting", c) /\ c = [c0 EXCEPT !.asked_at = now]
    BY <1>1, <1>16 DEF StartMint
  <2>2. /\ c.method = c0.method /\ c.reserved = c0.reserved /\ c.applied = c0.applied
        /\ c.attempt = c0.attempt /\ c.requests = c0.requests
        /\ c.refreshed = c0.refreshed /\ c.response = c0.response
    BY <1>2, <2>1 DEF AnyCall
  <2> QED  BY <1>4, <1>7, <1>16, <2>1, <2>2 DEF StartMint
<1>17. ASSUME NEW lifetime, NEW believed, Issue(t, lifetime, believed)
       PROVE  Attempted(call'[t], pc'[t])
  <2>1. PICK minted, c : Proceed(t, "minted", c) /\ c = [c0 EXCEPT !.minted = minted]
    BY <1>1, <1>17 DEF Issue
  <2>2. /\ c.method = c0.method /\ c.reserved = c0.reserved /\ c.applied = c0.applied
        /\ c.attempt = c0.attempt /\ c.requests = c0.requests
        /\ c.refreshed = c0.refreshed /\ c.response = c0.response
    BY <1>2, <2>1 DEF AnyCall
  <2> QED  BY <1>7, <1>17, <2>1, <2>2 DEF Issue
<1>18. CASE EndpointIssues(t) \/ Impersonate(t)
  BY <1>4, <1>17, <1>18 DEF EndpointIssues, Impersonate
<1>19. ASSUME NEW c, NEW response, pc[t] = "send", Proceed(t, "response", c),
              c.attempt = c0.attempt + 1, c.requests = c0.requests + 1,
              c.refreshed = c0.refreshed, c.response = response,
              Repeatable(c) => c.applied = 0
       PROVE  Attempted(call'[t], pc'[t])
  <2>1. c0.response = "none"  BY <1>2, <1>19 DEF Remembered
  <2>2. c0.attempt < MaxAttempts
        /\ c0.requests = c0.attempt + (IF c0.refreshed THEN 1 ELSE 0)
    BY <1>2, <1>19, <2>1 DEF Attempted, Metered
  <2>3. /\ c.attempt \in 0..MaxAttempts /\ c.attempt >= 1
        /\ c.requests = c.attempt + (IF c.refreshed THEN 1 ELSE 0)
    BY <1>3, <1>19, <2>2
  <2>4. Attempted(c, "response")  BY <1>19, <2>3 DEF Attempted, Metered
  <2> QED  BY <1>5, <1>19, <2>4
<1>20. ASSUME NEW response, NEW applied, pc[t] = "send", Exchange(t, response, applied)
       PROVE  Attempted(call'[t], pc'[t])
  <2>1. PICK n : n = IF applied /\ ~Repeatable(c0) THEN c0.applied + 1 ELSE c0.applied
    OBVIOUS
  <2>2. PICK c : /\ Proceed(t, "response", c)
                 /\ c = [c0 EXCEPT !.attempt = c0.attempt + 1, !.requests = c0.requests + 1,
                                   !.response = response, !.applied = n]
    BY <1>1, <1>20, <2>1 DEF Exchange
  <2>3. /\ c.attempt = c0.attempt + 1 /\ c.requests = c0.requests + 1
        /\ c.refreshed = c0.refreshed /\ c.response = response /\ c.applied = n
        /\ c.method = c0.method /\ c.reserved = c0.reserved
    BY <1>2, <2>2 DEF AnyCall
  <2>4. Repeatable(c) => c.applied = 0
    BY <1>2, <2>1, <2>3 DEF Attempted, Metered, Repeatable
  <2> QED  BY <1>19, <1>20, <2>2, <2>3, <2>4
<1>21. CASE DriveTakesRequest(t) \/ RequestFails(t)
  BY <1>4, <1>20, <1>21 DEF DriveTakesRequest, RequestFails
<1>22. CASE DriveRefusesToken(t)
  <2>1. PICK response, td, c :
          /\ pc[t] = "send" /\ Proceed(t, "response", c)
          /\ c = [c0 EXCEPT !.attempt = c0.attempt + 1, !.requests = c0.requests + 1,
                            !.response = response, !.turned_down = td]
    BY <1>1, <1>22 DEF DriveRefusesToken
  <2>2. /\ c.attempt = c0.attempt + 1 /\ c.requests = c0.requests + 1
        /\ c.refreshed = c0.refreshed /\ c.response = response /\ c.applied = c0.applied
        /\ c.method = c0.method /\ c.reserved = c0.reserved
    BY <1>2, <2>1 DEF AnyCall
  <2>3. Repeatable(c) => c.applied = 0
    BY <1>2, <2>2 DEF Attempted, Metered, Repeatable
  <2> QED  BY <1>4, <1>19, <2>1, <2>2, <2>3
<1>23. CASE Retry(t)
  <2>1. PICK c : Proceed(t, "send", c) /\ c = [c0 EXCEPT !.response = "none"]
    BY <1>1, <1>23 DEF Retry
  <2>2. /\ c.method = c0.method /\ c.reserved = c0.reserved /\ c.applied = c0.applied
        /\ c.attempt = c0.attempt /\ c.requests = c0.requests
        /\ c.refreshed = c0.refreshed /\ c.response = "none"
    BY <1>2, <2>1 DEF AnyCall
  <2>3. c.attempt < MaxAttempts  BY <1>1, <1>23, <2>2 DEF Retry, MayRetry
  <2>4. Attempted(c, "send")
    BY <1>2, <2>2, <2>3 DEF Attempted, Metered, Repeatable
  <2> QED  BY <1>4, <1>5, <2>1, <2>4
<1> QED
  BY <1>11, <1>12, <1>13, <1>14, <1>15, <1>16, <1>18, <1>21, <1>22, <1>23
  DEF Step, GetToken, MakeRequest

THEOREM AttemptsInvariant == Spec => []RInv
<1>1. Init => RInv
  <2>1. Init => \A t \in Threads : Attempted(call[t], pc[t])
    BY NoCallMetered DEF Init
  <2> QED  BY <2>1, InitEstablishes DEF RInv
<1>2. RInv /\ [Next]_vars => RInv'
  <2> SUFFICES ASSUME RInv, [Next]_vars
               PROVE  \A u \in Threads : Attempted(call'[u], pc'[u])
    BY StepKeeps DEF RInv, Attempted, Metered, Repeatable
  <2>1. CASE \E t \in Threads : Call(t) \/ Step(t)
    <3>1. PICK t \in Threads : Call(t) \/ Step(t)  BY <2>1
    <3>2. /\ Attempted(call'[t], pc'[t])
          /\ \A u \in Threads \ {t} : call'[u] = call[u] /\ pc'[u] = pc[u]
      BY <3>1, StepAttempts
    <3>3. \A u \in Threads : Attempted(call[u], pc[u])  BY DEF RInv
    <3>4. \A u \in Threads \ {t} : Attempted(call'[u], pc'[u])
      BY <3>2, <3>3
    <3> QED  BY <3>2, <3>4
  <2>2. CASE Tick \/ Revoke \/ UNCHANGED vars
    <3>1. pc' = pc /\ call' = call  BY <2>2 DEF Tick, Revoke, vars
    <3> QED  BY <3>1 DEF RInv
  <2> QED  BY <2>1, <2>2 DEF Next
<1> QED  BY <1>1, <1>2, PTL DEF Spec

\* ExecuteWithRetry: "A call therefore makes at most kMaxAttempts + 1 HTTP requests":
\* whatever Drive answers, with refreshes and retries interleaved.
THEOREM LoopBounded == Spec => []RequestsBounded
<1>1. RInv => RequestsBounded
  <2> SUFFICES ASSUME RInv, NEW t \in Threads PROVE call[t].requests <= MaxAttempts + 1
    BY DEF RequestsBounded
  <2>1. /\ call[t].attempt \in 0..MaxAttempts
        /\ call[t].requests = call[t].attempt + (IF call[t].refreshed THEN 1 ELSE 0)
    BY DEF RInv, Attempted, Metered
  <2> QED  BY <2>1, RequestAssumption
<1> QED  BY <1>1, AttemptsInvariant, PTL
\* What a step of a thread does to the other fields of its call.
LEMMA StepFields ==
    ASSUME RInv, NEW t \in Threads, Call(t) \/ Step(t)
    PROVE  /\ call'[t].method \in Methods \cup {"GET", call[t].method}
           /\ call'[t].asked_at \in {0, now, call[t].asked_at}
           /\ call'[t].turned_down \in {{}, call[t].turned_down,
                                        call[t].turned_down \cup {call[t].access_token}}
           /\ \/ call'[t].minted \in {NothingCached, call[t].minted}
              \/ /\ Cardinality(Issued) + 1 <= MaxTokens
                 /\ \E believed \in Lifetimes :
                      call'[t].minted = Cached(Cardinality(Issued) + 1,
                                               call[t].asked_at + believed, 0)
<1> DEFINE Kept(c, c0) ==
             /\ c.method \in Methods \cup {"GET", c0.method}
             /\ c.asked_at \in {0, now, c0.asked_at}
             /\ c.turned_down \in {{}, c0.turned_down, c0.turned_down \cup {c0.access_token}}
           Empty(c, c0) == Kept(c, c0) /\ c.minted \in {NothingCached, c0.minted}
<1>1. PICK c0 : c0 = call[t]  OBVIOUS
<1>2. c0 \in AnyCall /\ pc \in [Threads -> Places] /\ call \in [Threads -> AnyCall]
  BY <1>1 DEF RInv, IInv, Types
<1>3. ASSUME NEW c, NEW p, Proceed(t, p, c)
      PROVE  call'[t] = c
  BY <1>2, <1>3 DEF Proceed
<1>4. Empty(c0, c0)  OBVIOUS
<1>5. Empty(NoCall, c0)  BY DEF NoCall
<1>6. ASSUME NEW outcome, Finish(t, outcome)
      PROVE  Empty(call'[t], c0)
  <2>1. PICK c : /\ Proceed(t, "idle", c)
                 /\ c = IF outcome = "UNAUTHENTICATED"
                        THEN [NoCall EXCEPT !.outcome = outcome,
                                !.turned_down = c0.turned_down, !.method = c0.method,
                                !.reserved = c0.reserved, !.applied = c0.applied]
                        ELSE IF Repeatable(c0) THEN NoCall
                        ELSE [NoCall EXCEPT !.outcome = outcome, !.method = c0.method,
                                !.applied = c0.applied]
    BY <1>1, <1>6 DEF Finish
  <2>2. c.method \in {"GET", c0.method} /\ c.asked_at = 0
        /\ c.turned_down \in {{}, c0.turned_down} /\ c.minted = NothingCached
    BY <2>1 DEF NoCall
  <2>3. call'[t] = c  BY <1>3, <2>1
  <2> QED  BY <2>2, <2>3
<1>7. ASSUME NEW token, SendWith(t, token)
      PROVE  Empty(call'[t], c0)
  <2>1. PICK c : /\ Proceed(t, "send", c)
                 /\ c = [c0 EXCEPT !.access_token = token, !.asked_at = 0,
                                   !.minted = NothingCached]
    BY <1>1, <1>7 DEF SendWith
  <2>2. c.method = c0.method /\ c.asked_at = 0 /\ c.turned_down = c0.turned_down
        /\ c.minted = NothingCached
    BY <1>2, <2>1 DEF AnyCall
  <2>3. call'[t] = c  BY <1>3, <2>1
  <2> QED  BY <2>2, <2>3
<1>8. ASSUME NEW token, Resend(t, token)
      PROVE  Empty(call'[t], c0)
  <2>1. CASE Finish(t, "UNAUTHENTICATED")  BY <1>6, <2>1
  <2>2. CASE ~Finish(t, "UNAUTHENTICATED")
    <3>1. PICK c : /\ Proceed(t, "send", c)
                   /\ c = [c0 EXCEPT !.refreshed = TRUE, !.attempt = c0.attempt - 1,
                                     !.access_token = token, !.response = "none",
                                     !.asked_at = 0, !.minted = NothingCached]
      BY <1>1, <1>8, <2>2 DEF Resend
    <3>2. c.method = c0.method /\ c.asked_at = 0 /\ c.turned_down = c0.turned_down
          /\ c.minted = NothingCached
      BY <1>2, <3>1 DEF AnyCall
    <3>3. call'[t] = c  BY <1>3, <3>1
    <3> QED  BY <3>2, <3>3
  <2> QED  BY <2>1, <2>2
<1>9. CASE Call(t)
  <2>1. PICK method, c :
          /\ method \in Methods /\ Proceed(t, "token", c)
          /\ c.method = method /\ c.asked_at = 0 /\ c.turned_down = {}
          /\ c.minted = NothingCached
    <3>1. PICK method \in Methods, reserved \in BOOLEAN :
            Proceed(t, "token", [NoCall EXCEPT !.method = method, !.reserved = reserved])
      BY <1>9 DEF Call
    <3>2. PICK c : c = [NoCall EXCEPT !.method = method, !.reserved = reserved]  OBVIOUS
    <3>3. c.method = method /\ c.asked_at = 0 /\ c.turned_down = {}
          /\ c.minted = NothingCached
      BY <3>2 DEF NoCall
    <3> QED  BY <3>1, <3>2, <3>3
  <2>2. call'[t] = c  BY <1>3, <2>1
  <2> QED  BY <1>1, <2>1, <2>2
<1>10. CASE TokenFromCache(t)  BY <1>1, <1>7, <1>10 DEF TokenFromCache
<1>11. CASE TokenWantsLock(t) \/ RefreshAfter401(t)
  <2>1. call'[t] = c0  BY <1>1, <1>11 DEF TokenWantsLock, RefreshAfter401
  <2> QED  BY <1>1, <1>4, <2>1
<1>12. CASE DecideNotToMint(t) \/ StoreMinted(t)
  <2>1. \E token : Obtained(t, token)  BY <1>12 DEF DecideNotToMint, StoreMinted
  <2>2. PICK token : Resend(t, token) \/ SendWith(t, token)  BY <2>1 DEF Obtained
  <2> QED  BY <1>1, <1>7, <1>8, <2>2
<1>13. CASE RethrowMintFailure(t) \/ MintFails(t) \/ Surface(t)
  <2>1. \E outcome : Finish(t, outcome)
    BY <1>13 DEF RethrowMintFailure, MintFails, Surface
  <2> QED  BY <1>1, <1>6, <2>1
<1>14. CASE StartMint(t)
  <2>1. PICK c : Proceed(t, "minting", c) /\ c = [c0 EXCEPT !.asked_at = now]
    BY <1>1, <1>14 DEF StartMint
  <2>2. c.method = c0.method /\ c.asked_at = now /\ c.turned_down = c0.turned_down
        /\ c.minted = c0.minted
    BY <1>2, <2>1 DEF AnyCall
  <2>3. call'[t] = c  BY <1>3, <2>1
  <2> QED  BY <1>1, <2>2, <2>3
<1>15. CASE EndpointIssues(t) \/ Impersonate(t)
  <2>1. PICK lifetime, believed \in Lifetimes : Issue(t, lifetime, believed)
    BY <1>15, RequestAssumption DEF EndpointIssues, Impersonate
  <2>2. PICK minted : minted = Cached(Cardinality(Issued) + 1, c0.asked_at + believed, 0)
    OBVIOUS
  <2>3. PICK c : Proceed(t, "minted", c) /\ c = [c0 EXCEPT !.minted = minted]
    BY <1>1, <2>1, <2>2 DEF Issue
  <2>4. c.method = c0.method /\ c.asked_at = c0.asked_at /\ c.turned_down = c0.turned_down
        /\ c.minted = minted
    BY <1>2, <2>3 DEF AnyCall
  <2>5. call'[t] = c  BY <1>3, <2>3
  <2>6. Cardinality(Issued) + 1 <= MaxTokens  BY <2>1 DEF Issue
  <2> QED  BY <1>1, <2>2, <2>4, <2>5, <2>6
<1>16. CASE DriveTakesRequest(t) \/ RequestFails(t)
  <2>1. \E response, applied : Exchange(t, response, applied)
    BY <1>16 DEF DriveTakesRequest, RequestFails
  <2>2. PICK response, n, c :
          /\ Proceed(t, "response", c)
          /\ c = [c0 EXCEPT !.attempt = c0.attempt + 1, !.requests = c0.requests + 1,
                            !.response = response, !.applied = n]
    BY <1>1, <2>1 DEF Exchange
  <2>3. c.method = c0.method /\ c.asked_at = c0.asked_at /\ c.turned_down = c0.turned_down
        /\ c.minted = c0.minted
    BY <1>2, <2>2 DEF AnyCall
  <2>4. call'[t] = c  BY <1>3, <2>2
  <2> QED  BY <1>1, <2>3, <2>4
<1>17. CASE DriveRefusesToken(t)
  <2>1. PICK response, c :
          /\ Proceed(t, "response", c)
          /\ c = [c0 EXCEPT !.attempt = c0.attempt + 1, !.requests = c0.requests + 1,
                            !.response = response,
                            !.turned_down = c0.turned_down \cup {c0.access_token}]
    BY <1>1, <1>17 DEF DriveRefusesToken
  <2>2. c.method = c0.method /\ c.asked_at = c0.asked_at /\ c.minted = c0.minted
        /\ c.turned_down = c0.turned_down \cup {c0.access_token}
    BY <1>2, <2>1 DEF AnyCall
  <2>3. call'[t] = c  BY <1>3, <2>1
  <2> QED  BY <1>1, <2>2, <2>3
<1>18. CASE Retry(t)
  <2>1. PICK c : Proceed(t, "send", c) /\ c = [c0 EXCEPT !.response = "none"]
    BY <1>1, <1>18 DEF Retry
  <2>2. c.method = c0.method /\ c.asked_at = c0.asked_at /\ c.turned_down = c0.turned_down
        /\ c.minted = c0.minted
    BY <1>2, <2>1 DEF AnyCall
  <2>3. call'[t] = c  BY <1>3, <2>1
  <2> QED  BY <1>1, <2>2, <2>3
<1> HIDE DEF Empty, Kept
<1> QED
  BY <1>9, <1>10, <1>11, <1>12, <1>13, <1>14, <1>15, <1>16, <1>17, <1>18
  DEF Step, GetToken, MakeRequest

\* The expiries that can be computed are representable: `now + lifetime` is not
\* checked for overflow by the code.
ExpiriesFit == \A lifetime \in Lifetimes : MaxTime + lifetime <= MaxInt

FInv == RInv /\ TypeOK

\* The variables all threads share, but for the cache, keep their types.
LEMMA SharedTypes ==
    ASSUME FInv, [Next]_vars
    PROVE  /\ now' \in 0..MaxTime /\ provider' \in Providers /\ max_age_seconds' \in Nat
           /\ failed_until' \in Nat /\ mint_lock' \in Threads \cup {Nobody}
           /\ revoked' \subseteq Issued' /\ calls' \in 0..MaxCalls
           /\ Issued' \subseteq Tokens /\ \A token \in Issued' : expires'[token] \in Nat
<1>1. /\ now \in 0..MaxTime /\ provider \in Providers /\ max_age_seconds \in Nat
      /\ failed_until \in Nat /\ mint_lock \in Threads \cup {Nobody}
      /\ revoked \subseteq Issued /\ calls \in 0..MaxCalls /\ Issued \subseteq Tokens
  BY DEF FInv, TypeOK
<1>2. provider' = provider /\ Issued \subseteq Issued'
      /\ \A token \in Issued' : expires'[token] \in Nat
  BY Forward DEF FInv, RInv, Numbered
<1>3. max_age_seconds' = max_age_seconds
  BY DEF Next, Call, Step, GetToken, MakeRequest, TokenFromCache, TokenWantsLock,
         DecideNotToMint, RethrowMintFailure, StartMint, EndpointIssues, Impersonate, Issue,
         StoreMinted, MintFails, DriveRefusesToken, DriveTakesRequest, RequestFails, Retry,
         RefreshAfter401, Surface, Tick, Revoke, vars
<1>4. now' \in 0..MaxTime
  <2>1. now' = now \/ (now < MaxTime /\ now' = now + 1)
    BY DEF Next, Call, Step, GetToken, MakeRequest, TokenFromCache, TokenWantsLock,
         DecideNotToMint, RethrowMintFailure, StartMint, EndpointIssues, Impersonate, Issue,
         StoreMinted, MintFails, DriveRefusesToken, DriveTakesRequest, RequestFails, Retry,
         RefreshAfter401, Surface, Tick, Revoke, vars
  <2> QED  BY <1>1, <2>1, RequestAssumption
<1>5. failed_until' \in Nat
  <2>1. failed_until' \in {failed_until, 0, now + MintBackoff}
    BY DEF Next, Call, Step, GetToken, MakeRequest, TokenFromCache, TokenWantsLock,
         DecideNotToMint, RethrowMintFailure, StartMint, EndpointIssues, Impersonate, Issue,
         StoreMinted, MintFails, DriveRefusesToken, DriveTakesRequest, RequestFails, Retry,
         RefreshAfter401, Surface, Tick, Revoke, vars, tokenVars
  <2> QED  BY <1>1, <2>1, RequestAssumption
<1>6. mint_lock' \in Threads \cup {Nobody}
  <2>1. CASE Tick \/ Revoke \/ UNCHANGED vars
    BY <1>1, <2>1 DEF Tick, Revoke, vars, tokenVars
  <2>2. CASE \E t \in Threads : Call(t) \/ Step(t)
    <3>1. PICK t \in Threads : Call(t) \/ Step(t)  BY <2>2
    <3> QED  BY <1>1, <3>1, LockMoves DEF FInv, RInv
  <2> QED  BY <2>1, <2>2 DEF Next
<1>7. revoked' \subseteq Issued'
  <2>1. revoked' = revoked \/ \E token \in Issued : revoked' = revoked \cup {token}
    BY DEF Next, Call, Step, GetToken, MakeRequest, TokenFromCache, TokenWantsLock,
         DecideNotToMint, RethrowMintFailure, StartMint, EndpointIssues, Impersonate, Issue,
         StoreMinted, MintFails, DriveRefusesToken, DriveTakesRequest, RequestFails, Retry,
         RefreshAfter401, Surface, Tick, Revoke, vars, driveVars
  <2> QED  BY <1>1, <1>2, <2>1
<1>8. calls' \in 0..MaxCalls
  <2>1. calls' = calls \/ (calls < MaxCalls /\ calls' = calls + 1)
    BY DEF Next, Call, Step, GetToken, MakeRequest, TokenFromCache, TokenWantsLock,
         DecideNotToMint, RethrowMintFailure, StartMint, EndpointIssues, Impersonate, Issue,
         StoreMinted, MintFails, DriveRefusesToken, DriveTakesRequest, RequestFails, Retry,
         RefreshAfter401, Surface, Tick, Revoke, vars
  <2> QED  BY <1>1, <2>1, RequestAssumption
<1>9. Issued' \subseteq Tokens
  <2>1. \/ expires' = expires
        \/ \E token : /\ token = Cardinality(Issued) + 1 /\ token <= MaxTokens
                      /\ \E e : expires' = [k \in Issued \cup {token} |-> e[k]]
    <3>1. ASSUME NEW t \in Threads, NEW lifetime, NEW believed, Issue(t, lifetime, believed)
          PROVE  \E token : /\ token = Cardinality(Issued) + 1 /\ token <= MaxTokens
                            /\ DOMAIN expires' = Issued \cup {token}
      BY <3>1 DEF Issue
    <3>2. ASSUME NEW t \in Threads, EndpointIssues(t) \/ Impersonate(t)
          PROVE  \E token : /\ token = Cardinality(Issued) + 1 /\ token <= MaxTokens
                      /\ \E e : expires' = [k \in Issued \cup {token} |-> e[k]]
      <4>1. PICK lifetime, believed : Issue(t, lifetime, believed)
        BY <3>2 DEF EndpointIssues, Impersonate
      <4>2. PICK token : /\ token = Cardinality(Issued) + 1 /\ token <= MaxTokens
                         /\ expires' = [k \in Issued \cup {token} |->
                              IF k = token THEN now + lifetime ELSE expires[k]]
        BY <4>1 DEF Issue
      <4>3. PICK e : e = [k \in Issued \cup {token} |->
                              IF k = token THEN now + lifetime ELSE expires[k]]
        OBVIOUS
      <4>4. expires' = [k \in Issued \cup {token} |-> e[k]]  BY <4>2, <4>3
      <4> QED  BY <4>2, <4>4
    <3>3. ASSUME NEW t \in Threads, Call(t) \/ Step(t), ~(EndpointIssues(t) \/ Impersonate(t))
          PROVE  expires' = expires
      BY <3>3 DEF Call, Step, GetToken, MakeRequest, TokenFromCache, TokenWantsLock,
           DecideNotToMint, RethrowMintFailure, StartMint, StoreMinted, MintFails,
           DriveRefusesToken, DriveTakesRequest, RequestFails, Retry, RefreshAfter401,
           Surface, driveVars
    <3>4. CASE Tick \/ Revoke \/ UNCHANGED vars
      BY <3>4 DEF Tick, Revoke, vars, driveVars
    <3> QED  BY <3>2, <3>3, <3>4 DEF Next
  <2>2. CASE expires' = expires  BY <1>1, <2>2 DEF Issued
  <2>3. CASE expires' # expires
    <3>1. PICK token, e : /\ token = Cardinality(Issued) + 1 /\ token <= MaxTokens
                          /\ expires' = [k \in Issued \cup {token} |-> e[k]]
      BY <2>1, <2>3
    <3>2. PICK n \in Nat : Issued = 1..n  BY DEF FInv, RInv, IInv, Types, Numbered
    <3>3. Cardinality(Issued) = n  BY <3>2, FS_Interval
    <3>4. token \in Tokens  BY <3>1, <3>3, RequestAssumption DEF Tokens
    <3>5. Issued' = Issued \cup {token}  BY <3>1 DEF Issued
    <3> QED  BY <1>1, <3>4, <3>5
  <2> QED  BY <2>2, <2>3
<1> QED  BY <1>1, <1>2, <1>3, <1>4, <1>5, <1>6, <1>7, <1>8, <1>9

\* What is cached fits its type: a pasted token at the largest time there is, a
\* minted one at what it was given.
LEMMA CacheTyped ==
    ASSUME FInv, [Next]_vars
    PROVE  cache' \in CachedType
<1>1. /\ cache \in CachedType /\ now \in 0..MaxTime /\ MaxInt \in Nat
      /\ MaxTokens \in Nat \ {0}
  BY RequestAssumption, TokenPolicyAssumption DEF FInv, TypeOK
<1>2. CASE cache' = cache  BY <1>1, <1>2
<1>3. CASE cache' = Cached(1, kUnknownExpiry, now)
  <2>1. 1 \in 0..MaxTokens /\ kUnknownExpiry \in 0..MaxInt  BY <1>1 DEF kUnknownExpiry
  <2> QED  BY <1>1, <1>3, <2>1 DEF Cached, CachedType
<1>4. ASSUME NEW t \in Threads, cache' = MintedState(call[t], now)
      PROVE  cache' \in CachedType
  <2>1. PICK m : m = call[t].minted  OBVIOUS
  <2>2. m \in CachedType  BY <2>1 DEF FInv, TypeOK, CallType
  <2>3. cache' = [m EXCEPT !.minted_at = now]  BY <1>4, <2>1 DEF MintedState
  <2> QED  BY <1>1, <2>2, <2>3 DEF CachedType
<1> QED  BY <1>2, <1>3, <1>4, CacheMoves DEF FInv, RInv

\* A step of a thread leaves its call within the bounds.
LEMMA CallFits ==
    ASSUME FInv, ExpiriesFit, NEW t \in Threads, Call(t) \/ Step(t)
    PROVE  call'[t] \in CallType
<1>1. PICK c0 : c0 = call[t]  OBVIOUS
<1>2. PICK c, p : Becomes(t, c, p)  BY StepBecomes DEF FInv, RInv
<1>3. call'[t] = c /\ pc'[t] = p
  BY <1>2 DEF Becomes, FInv, RInv, IInv, Types
<1>4. /\ c \in AnyCall /\ Counted(c, p) /\ Attempted(c, p)
      /\ c.access_token \in Issued \cup {NoToken}
  BY <1>2, <1>3, StepAttempts DEF Becomes, Refused, FInv
<1>5. /\ c0 \in CallType /\ now \in 0..MaxTime /\ Issued \subseteq Tokens
      /\ MaxTokens \in Nat \ {0} /\ MaxTime \in Nat /\ MaxInt \in Nat
      /\ MaxAttempts \in Nat \ {0}
  BY <1>1, RequestAssumption, TokenPolicyAssumption DEF FInv, TypeOK
<1>6. c.access_token \in 0..MaxTokens
  <2>1. \A token \in Tokens : token \in 0..MaxTokens  BY <1>5 DEF Tokens
  <2>2. NoToken \in 0..MaxTokens  BY <1>5 DEF NoToken
  <2>3. CASE c.access_token \in Issued  BY <1>5, <2>1, <2>3
  <2>4. CASE c.access_token = NoToken  BY <2>2, <2>4
  <2> QED  BY <1>4, <2>3, <2>4
<1>7. /\ c0.method \in Methods \cup {"GET"} /\ c0.asked_at \in 0..MaxTime
      /\ c0.minted \in CachedType /\ c0.turned_down \in SUBSET (0..MaxTokens)
      /\ c0.access_token \in 0..MaxTokens
  BY <1>5 DEF CallType
<1>8. /\ c.method \in Methods \cup {"GET", c0.method}
      /\ c.asked_at \in {0, now, c0.asked_at}
      /\ c.turned_down \in {{}, c0.turned_down, c0.turned_down \cup {c0.access_token}}
      /\ \/ c.minted \in {NothingCached, c0.minted}
         \/ /\ Cardinality(Issued) + 1 <= MaxTokens
            /\ \E believed \in Lifetimes :
                 c.minted = Cached(Cardinality(Issued) + 1, c0.asked_at + believed, 0)
  <2>1. RInv  BY DEF FInv
  <2> QED  BY <1>1, <1>3, <2>1, StepFields
<1>9. c.method \in Methods \cup {"GET"}  BY <1>7, <1>8
<1>10. c.asked_at \in 0..MaxTime  BY <1>5, <1>7, <1>8
<1>11. c.turned_down \in SUBSET (0..MaxTokens)  BY <1>7, <1>8
<1>12. c.minted \in CachedType
  <2>1. CASE c.minted = c0.minted  BY <1>7, <2>1
  <2>2. CASE c.minted = NothingCached
    BY <1>5, <2>2 DEF NothingCached, Cached, CachedType, NoToken
  <2>3. CASE /\ Cardinality(Issued) + 1 <= MaxTokens
             /\ \E believed \in Lifetimes :
                 c.minted = Cached(Cardinality(Issued) + 1, c0.asked_at + believed, 0)
    <3>1. PICK n \in Nat : Issued = 1..n  BY DEF FInv, RInv, IInv, Types, Numbered
    <3>2. Cardinality(Issued) = n  BY <3>1, FS_Interval
    <3>3. PICK believed \in Lifetimes :
            c.minted = Cached(Cardinality(Issued) + 1, c0.asked_at + believed, 0)
      BY <2>3
    <3>4. believed \in Nat /\ MaxTime + believed <= MaxInt
      BY RequestAssumption DEF ExpiriesFit
    <3>5. c0.asked_at + believed \in 0..MaxInt  BY <1>5, <1>7, <3>4
    <3>6. n + 1 \in 0..MaxTokens  BY <1>5, <2>3, <3>2
    <3> QED  BY <1>5, <3>2, <3>3, <3>5, <3>6 DEF Cached, CachedType
  <2> QED  BY <1>8, <2>1, <2>2, <2>3
<1>13. c.attempt \in 0..MaxAttempts /\ c.requests \in 0..(MaxAttempts + 1)
  BY <1>4, <1>5 DEF Attempted, Metered, AnyCall
<1>14. c.applied \in 0..(MaxAttempts + 1)
  <2>1. CASE Repeatable(c)  BY <1>4, <1>5, <2>1 DEF Attempted, Metered
  <2>2. CASE ~Repeatable(c)
    <3>1. c.applied \in {0, 1}  BY <1>4, <2>2 DEF Counted
    <3> QED  BY <1>5, <3>1
  <2> QED  BY <2>1, <2>2
<1>15. c.response \in {"none", "ok"} \cup Kinds  BY <1>4 DEF AnyCall, Responses
<1>16. c \in CallType
  BY <1>4, <1>6, <1>9, <1>10, <1>11, <1>12, <1>13, <1>14, <1>15 DEF AnyCall, CallType
<1> QED  BY <1>3, <1>16

\* NormalizeMaxAgeSeconds keeps a cap a natural number.
LEMMA MaxAgeTyped ==
    ASSUME NEW m \in MaxAges
    PROVE  NormalizeMaxAgeSeconds(m) \in Nat
BY RequestAssumption, TokenPolicyAssumption DEF NormalizeMaxAgeSeconds

LEMMA TypesInitially ==
    ASSUME ExpiriesFit, Init
    PROVE  TypeOK
<1> USE RequestAssumption, TokenPolicyAssumption
<1>1. Issued \subseteq {1} /\ \A token \in Issued : expires[token] \in Lifetimes
  BY DEF Init, Issued
<1>2. Issued \subseteq Tokens /\ \A token \in Issued : expires[token] \in Nat
  <2>1. 1 \in Tokens  BY DEF Tokens
  <2>2. \A l \in Lifetimes : l \in Nat  OBVIOUS
  <2>3. Issued \subseteq Tokens  BY <1>1, <2>1
  <2>4. \A token \in Issued : expires[token] \in Nat  BY <1>1, <2>2
  <2> QED  BY <2>3, <2>4
<1>3. NothingCached \in CachedType
  BY DEF NothingCached, Cached, CachedType, NoToken
<1>4. cache \in CachedType
  <2>1. CASE provider # "unrefreshable"  BY <1>3, <2>1 DEF Init
  <2>2. CASE provider = "unrefreshable"
    <3>1. cache = Cached(1, expires[1], 0) /\ 1 \in Issued  BY <2>2 DEF Init, Issued
    <3>2. expires[1] \in 0..MaxInt
      <4>1. PICK l \in Lifetimes : l = expires[1]  BY <1>1, <3>1
      <4>2. l \in Nat /\ MaxTime + l <= MaxInt /\ MaxTime \in Nat  BY DEF ExpiriesFit
      <4> QED  BY <4>1, <4>2
    <3> QED  BY <3>1, <3>2 DEF Cached, CachedType
  <2> QED  BY <2>1, <2>2
<1>5. NoCall \in CallType
  <2>1. {} \in SUBSET (0..MaxTokens)  OBVIOUS
  <2>2. 0 \in 0..MaxAttempts /\ 0 \in 0..(MaxAttempts + 1) /\ 0 \in 0..MaxTokens
        /\ 0 \in 0..MaxTime
    OBVIOUS
  <2> QED  BY <1>3, <2>1, <2>2 DEF NoCall, CallType, NoToken
<1>6. max_age_seconds \in Nat  BY MaxAgeTyped DEF Init
<1>7. pc = [t \in Threads |-> "idle"] /\ call = [t \in Threads |-> NoCall]  BY DEF Init
<1>8. /\ pc \in [Threads -> {"idle", "token", "lock", "minting", "minted", "send", "response"}]
      /\ call \in [Threads -> CallType]
  BY <1>5, <1>7
<1>9. /\ now \in 0..MaxTime /\ provider \in Providers /\ failed_until \in Nat
      /\ mint_lock \in Threads \cup {Nobody} /\ revoked \subseteq Issued
      /\ calls \in 0..MaxCalls
  BY DEF Init
<1> QED  BY <1>2, <1>4, <1>6, <1>8, <1>9 DEF TypeOK

\* Where expiries are representable, every variable keeps its type, and so every
\* counter of ExecuteWithRetry and of the token source its bound.
THEOREM RequestTypes == ExpiriesFit => (Spec => []TypeOK)
<1> SUFFICES ASSUME ExpiriesFit PROVE Spec => []TypeOK  OBVIOUS
<1>1. Init => TypeOK  BY TypesInitially
<1>2. TypeOK /\ RInv /\ [Next]_vars => TypeOK'
  <2> SUFFICES ASSUME TypeOK, RInv, [Next]_vars PROVE TypeOK'  OBVIOUS
  <2>1. FInv  BY DEF FInv
  <2>2. call' \in [Threads -> CallType] /\ pc' \in [Threads -> Places]
    <3>1. CASE Tick \/ Revoke \/ UNCHANGED vars
      <4>1. pc' = pc /\ call' = call  BY <3>1 DEF Tick, Revoke, vars
      <4> QED  BY <4>1 DEF TypeOK, Places
    <3>2. CASE \E t \in Threads : Call(t) \/ Step(t)
      <4>1. PICK t \in Threads : Call(t) \/ Step(t)  BY <3>2
      <4>2. PICK c, p : Becomes(t, c, p)  BY <4>1, StepBecomes DEF RInv
      <4>3. /\ call' = [call EXCEPT ![t] = c] /\ pc' = [pc EXCEPT ![t] = p]
            /\ p \in Places /\ call \in [Threads -> CallType] /\ pc \in [Threads -> Places]
        BY <4>2 DEF Becomes, TypeOK, Places
      <4>4. c \in CallType
        <5>1. call'[t] \in CallType  BY <2>1, <4>1, CallFits
        <5> QED  BY <4>3, <5>1
      <4> QED  BY <4>3, <4>4
    <3> QED  BY <3>1, <3>2 DEF Next
  <2>3. cache' \in CachedType  BY <2>1, CacheTyped
  <2> QED  BY <2>1, <2>2, <2>3, SharedTypes DEF TypeOK, Places
<1> QED  BY <1>1, <1>2, AttemptsInvariant, PTL DEF Spec
=============================================================================
