---------------------------- MODULE GDriveRequest ----------------------------
(***************************************************************************)
(* Drive API calls of several threads on one credential: ExecuteWithRetry  *)
(* (gdrive_client.cpp) over the process-wide token cache (gdrive_auth.cpp, *)
(* CachedTokenSource).  A token is the number of its issue.                *)
(*                                                                         *)
(* CacheMutex is held within an action; mint_lock is held across the calls *)
(* of the token endpoint.  Drive is external: it refuses tokens that are   *)
(* expired or revoked, and callers it limits or does not let in, before it *)
(* applies anything, and may apply a request whose answer is a 5xx or      *)
(* never arrives.                                                          *)
(***************************************************************************)
EXTENDS TokenPolicy, DriveErrors, FiniteSets

CONSTANTS
    Threads, Nobody,
    MaxAttempts,      \* kMaxAttempts
    MintBackoff,      \* kMintFailureBackoffSeconds
    MaxAges,          \* settings of gdrive_debug_token_max_age_seconds
    Providers,        \* where a credential's tokens come from
    Methods,          \* HTTP methods of the calls
    Lifetimes,        \* lifetimes the token endpoint gives
    DefaultLifetime,  \* 3600: what is asked for, and assumed when nothing is said
    MaxTime,          \* bound: seconds
    MaxTokens,        \* bound: tokens issued
    MaxCalls          \* bound: API calls

ASSUME RequestAssumption ==
    /\ IsFiniteSet(Threads) /\ Nobody \notin Threads
    /\ MaxAttempts \in Nat \ {0} /\ MintBackoff \in Nat
    /\ MaxAges \subseteq Nat /\ Lifetimes \subseteq Nat \ {0}
    /\ DefaultLifetime \in Lifetimes
    /\ Providers \subseteq {"unrefreshable", "seeded", "granted", "federated"}
    /\ Methods \subseteq {"GET", "POST", "PATCH", "DELETE"}
    /\ MaxTime \in Nat /\ MaxTokens \in Nat \ {0} /\ MaxCalls \in Nat

VARIABLES
    now,
    provider,        \* a pasted token without the means to refresh it
                     \* ("unrefreshable"), one with them ("seeded"), a token from the
                     \* refresh grant or a service account's assertion ("granted"), one
                     \* from the two hops of workload identity federation ("federated")
    max_age_seconds,
    cache,           \* TokenCache()[cache_key]
    failed_until,    \* MintFailures()[cache_key].until_unix, 0 for none
    mint_lock,       \* the thread that holds it
    expires,         \* token endpoint: issued token -> its real expiry
    revoked,         \* tokens Drive no longer accepts
    calls,           \* calls made so far
    pc, call         \* per thread: where it is, and its call

tokenVars == <<cache, failed_until, mint_lock>>
driveVars == <<expires, revoked>>
vars == <<now, provider, max_age_seconds, tokenVars, driveVars, calls, pc, call>>

Tokens == 1..MaxTokens
Issued == DOMAIN expires

Cached(token, expires_at, minted_at) ==
    [token |-> token, expires_at |-> expires_at, minted_at |-> minted_at]

NothingCached == Cached(NoToken, 0, 0)

\* One logical call: its method, whether it reserved its file's id first
\* (retry_non_idempotent), the locals of ExecuteWithRetry, the locals of a mint
\* (when it began, what it was given), and what became of it.  `response` is
\* "ok" or the kind of the error.  History: `requests`,
\* `applied` (how often Drive applied it, if it must not be repeated) and
\* `turned_down`.
NoCall ==
    [method |-> "GET", reserved |-> FALSE, attempt |-> 0, access_token |-> NoToken,
     refreshed |-> FALSE, response |-> "none", asked_at |-> 0, minted |-> NothingCached,
     outcome |-> "none", requests |-> 0, applied |-> 0, turned_down |-> {}]

Init ==
    /\ now = 0
    /\ provider \in Providers
    /\ max_age_seconds \in {NormalizeMaxAgeSeconds(m) : m \in MaxAges}
    /\ failed_until = 0 /\ mint_lock = Nobody
    /\ expires \in [IF provider \in {"unrefreshable", "seeded"} THEN {1} ELSE {}
                       -> Lifetimes]
    /\ cache = IF provider = "unrefreshable" THEN Cached(1, expires[1], 0)
                                             ELSE NothingCached
    /\ revoked = {}
    /\ calls = 0
    /\ pc = [t \in Threads |-> "idle"]
    /\ call = [t \in Threads |-> NoCall]

-----------------------------------------------------------------------------
can_mint == provider # "unrefreshable"

TryFresh == cache.token # NoToken /\ TokenIsFresh(cache, now, max_age_seconds)

Accepted(token) ==
    token \in Issued /\ token \notin revoked /\ now < expires[token]

\* Places of a thread within the mint function.
Minting(place) == place \in {"minting", "minted"}

Goto(t, place) == pc' = [pc EXCEPT ![t] = place]

\* The call of t goes on at `place` with these fields changed.
Proceed(t, place, changed) ==
    /\ Goto(t, place)
    /\ call' = [call EXCEPT ![t] = changed]

IsIdempotent(method) == method \in {"GET", "DELETE"}

\* IsIdempotent or retry_non_idempotent.
Repeatable(c) == IsIdempotent(c.method) \/ c.reserved

\* The call returns or throws.  Its locals are gone; of what became of it is kept
\* what the properties ask about.
Finish(t, outcome) ==
    LET c == call[t]
    IN  Proceed(t, "idle",
                IF outcome = "UNAUTHENTICATED"
                THEN [NoCall EXCEPT !.outcome = outcome, !.turned_down = c.turned_down,
                                    !.method = c.method, !.reserved = c.reserved,
                                    !.applied = c.applied]
                ELSE IF Repeatable(c) THEN NoCall
                ELSE [NoCall EXCEPT !.outcome = outcome, !.method = c.method,
                                    !.applied = c.applied])

\* CachedTokenSource's constructor: a pasted token, of unknown lifetime, is
\* cached only if nothing is.
Seed ==
    IF provider = "seeded" /\ cache.token = NoToken
    THEN Cached(1, kUnknownExpiry, now)
    ELSE cache

\* A call of a handle of this credential; the handle may just have been opened.
Call(t) ==
    /\ pc[t] = "idle" /\ calls < MaxCalls
    /\ calls' = calls + 1
    /\ cache' = Seed
    /\ \E method \in Methods, reserved \in BOOLEAN :
          /\ reserved => method = "POST"
          /\ Proceed(t, "token", [NoCall EXCEPT !.method = method,
                                                !.reserved = reserved])
    /\ UNCHANGED <<now, provider, max_age_seconds, failed_until, mint_lock, driveVars>>

-----------------------------------------------------------------------------
(***************************************************************************)
(* Token() and Refresh().                                                  *)
(***************************************************************************)
SendWith(t, token) ==
    Proceed(t, "send", [call[t] EXCEPT !.access_token = token, !.asked_at = 0,
                                       !.minted = NothingCached])

TokenFromCache(t) ==
    /\ pc[t] = "token"
    /\ TryFresh \/ ~can_mint
    /\ SendWith(t, cache.token)
    /\ UNCHANGED <<now, provider, max_age_seconds, tokenVars, driveVars, calls>>

TokenWantsLock(t) ==
    /\ pc[t] = "token" /\ ~TryFresh /\ can_mint
    /\ Goto(t, "lock")
    /\ UNCHANGED <<now, provider, max_age_seconds, tokenVars, driveVars, calls, call>>

\* Token() and Refresh() take the same lock; a call refreshes after a 401.
Refreshing(t) == call[t].response = "UNAUTHENTICATED"

\* ExecuteWithRetry with what Refresh() returned.
Resend(t, replacement) ==
    LET c == call[t]
    IN  IF ShouldResendAfter401(c.refreshed, c.access_token, replacement)
        THEN Proceed(t, "send", [c EXCEPT !.refreshed = TRUE, !.attempt = @ - 1,
                                          !.access_token = replacement,
                                          !.response = "none",
                                          !.asked_at = 0, !.minted = NothingCached])
        ELSE Finish(t, "UNAUTHENTICATED")

Obtained(t, token) ==
    IF Refreshing(t) THEN Resend(t, token) ELSE SendWith(t, token)

\* Mutated form: whoever waited for the lock does not look again.
LockedDecisionBlind(t) == "MINT"

\* What to do under the mint lock.
LockedDecision(t) ==
    IF Refreshing(t)
    THEN DecideAfterRejection(cache, call[t].access_token, now, max_age_seconds, can_mint)
    ELSE IF TryFresh THEN "REUSE_CACHED" ELSE "MINT"

\* The lock is taken, and released again if there is nothing to mint: what a
\* thread does between is not seen by the others, who wait for the lock.
DecideNotToMint(t) ==
    /\ pc[t] = "lock" /\ mint_lock = Nobody
    /\ LockedDecision(t) # "MINT"
    /\ Obtained(t, IF LockedDecision(t) = "GIVE_UP" THEN NoToken ELSE cache.token)
    /\ UNCHANGED <<now, provider, max_age_seconds, tokenVars, driveVars, calls>>

\* MintAndStore: a recent failure is rethrown.  No one else touches the cache
\* or the failures while the mint lock is held.
RethrowMintFailure(t) ==
    /\ pc[t] = "lock" /\ mint_lock = Nobody
    /\ LockedDecision(t) = "MINT" /\ failed_until > now
    /\ Finish(t, "refused")
    /\ UNCHANGED <<now, provider, max_age_seconds, tokenVars, driveVars, calls>>

\* The mint function reads the clock before its first request.
StartMint(t) ==
    /\ pc[t] = "lock" /\ mint_lock = Nobody
    /\ LockedDecision(t) = "MINT" /\ failed_until <= now
    /\ mint_lock' = t
    /\ failed_until' = 0
    /\ Proceed(t, "minting", [call[t] EXCEPT !.asked_at = now])
    /\ UNCHANGED <<now, provider, max_age_seconds, cache, driveVars, calls>>

\* Mutated form: the lifetime counts from the reply.
MintedStateLate(c, replied_at) ==
    [c.minted EXCEPT !.expires_at = @ - c.asked_at + replied_at, !.minted_at = replied_at]

\* What is cached of a reply that arrives then: the lifetime counts from before
\* the request (RefreshUserToken, MintServiceAccountToken,
\* ExchangeExternalAccountToken), the age from the reply (MintAndStore).
MintedState(c, replied_at) == [c.minted EXCEPT !.minted_at = replied_at]

\* A token is issued, and will be believed to live so long from asked_at on.
Issue(t, lifetime, believed) ==
    LET token == Cardinality(Issued) + 1
    IN  /\ pc[t] = "minting" /\ token <= MaxTokens
        /\ expires' = [k \in Issued \cup {token} |->
                         IF k = token THEN now + lifetime ELSE expires[k]]
        /\ Proceed(t, "minted",
                   [call[t] EXCEPT !.minted = Cached(token, call[t].asked_at + believed, 0)])
        /\ UNCHANGED <<now, provider, max_age_seconds, tokenVars, revoked, calls>>

\* The token endpoint says for how long (expires_in), or says nothing having given
\* the lifetime asked for.
EndpointIssues(t) ==
    /\ provider # "federated"
    /\ \E lifetime \in Lifetimes, expires_in \in Lifetimes \cup {0} :
          /\ expires_in = lifetime \/ (expires_in = 0 /\ lifetime = DefaultLifetime)
          /\ Issue(t, lifetime, IF expires_in > 0 THEN expires_in ELSE DefaultLifetime)

\* The second hop of a federation, with what the first exchanged the subject token
\* for: its reply is not asked for the lifetime.
Impersonate(t) ==
    /\ provider = "federated"
    /\ Issue(t, DefaultLifetime, DefaultLifetime)

\* The reply arrives.
StoreMinted(t) ==
    /\ pc[t] = "minted"
    /\ cache' = MintedState(call[t], now)
    /\ Obtained(t, call[t].minted.token)
    /\ mint_lock' = Nobody
    /\ UNCHANGED <<now, provider, max_age_seconds, failed_until, driveVars, calls>>

\* Mutated form: the exception leaves the lock held.
MintFailsLocked(t) ==
    /\ Minting(pc[t])
    /\ failed_until' = now + MintBackoff
    /\ Finish(t, "refused")
    /\ UNCHANGED <<now, provider, max_age_seconds, cache, mint_lock, driveVars, calls>>

\* The mint function throws: the subject token's file is missing or empty, an
\* endpoint does not answer, its reply is not a 200 or holds no token, no service
\* account is named, or signing fails.
MintFails(t) ==
    /\ Minting(pc[t])
    /\ failed_until' = now + MintBackoff
    /\ mint_lock' = Nobody
    /\ Finish(t, "refused")
    /\ UNCHANGED <<now, provider, max_age_seconds, cache, driveVars, calls>>

-----------------------------------------------------------------------------
(***************************************************************************)
(* The request loop.                                                       *)
(***************************************************************************)

\* Drive's answers.  To a token it does not accept:
UnauthorizedReplies ==
    {Reply(401, "authError", NoReason), Reply(401, NoReason, NoReason)}

\* To callers it does not let in or slows down, before it applies anything:
RefusingReplies ==
    {Reply(403, "insufficientPermissions", "ACCESS_TOKEN_SCOPE_INSUFFICIENT"),
     Reply(403, "userRateLimitExceeded", NoReason),
     Reply(429, NoReason, NoReason)}

\* Of a server or proxy that fails:
FailingReplies == {Reply(500, "internalError", NoReason), Reply(502, NoReason, NoReason)}

\* A request without an answer is TRANSIENT too, and goes through the same gates.
NoAnswer == "TRANSIENT"

\* One HTTP exchange: what Drive did with the request and what came back.
Exchange(t, response, applied) ==
    LET c == call[t]
    IN  Proceed(t, "response",
                [c EXCEPT !.attempt = @ + 1, !.requests = @ + 1,
                          !.response = response,
                          !.applied = IF applied /\ ~Repeatable(c) THEN @ + 1 ELSE @])

DriveRefusesToken(t) ==
    /\ pc[t] = "send" /\ ~Accepted(call[t].access_token)
    /\ \E r \in UnauthorizedReplies :
          LET c == call[t]
          IN  Proceed(t, "response",
                      [c EXCEPT !.attempt = @ + 1, !.requests = @ + 1,
                                !.response = ClassifyDriveError(r),
                                !.turned_down = @ \cup {c.access_token}])
    /\ UNCHANGED <<now, provider, max_age_seconds, tokenVars, driveVars, calls>>

DriveTakesRequest(t) ==
    /\ pc[t] = "send" /\ Accepted(call[t].access_token)
    /\ \/ \E response \in {"ok", NoAnswer} : Exchange(t, response, TRUE)
       \/ \E r \in FailingReplies : Exchange(t, ClassifyDriveError(r), TRUE)
    /\ UNCHANGED <<now, provider, max_age_seconds, tokenVars, driveVars, calls>>

RequestFails(t) ==
    /\ pc[t] = "send"
    /\ \/ Exchange(t, NoAnswer, FALSE)
       \/ /\ Accepted(call[t].access_token)
          /\ \E r \in RefusingReplies \cup FailingReplies :
                Exchange(t, ClassifyDriveError(r), FALSE)
    /\ UNCHANGED <<now, provider, max_age_seconds, tokenVars, driveVars, calls>>

\* Mutated form: a 5xx is retried whatever the method.
MayRetryAny5xx(t) ==
    /\ IsRetryable(call[t].response)
    /\ Repeatable(call[t]) \/ call[t].response = "TRANSIENT"
    /\ call[t].attempt < MaxAttempts

\* Mutated form: one attempt too many.
MayRetryOnceMore(t) ==
    /\ IsRetryable(call[t].response)
    /\ Repeatable(call[t])
    /\ call[t].attempt <= MaxAttempts

\* The same on both branches: no answer, and an answer worth a retry.
MayRetry(t) ==
    /\ IsRetryable(call[t].response)
    /\ Repeatable(call[t])
    /\ call[t].attempt < MaxAttempts

Retry(t) ==
    /\ pc[t] = "response" /\ MayRetry(t)
    /\ Proceed(t, "send", [call[t] EXCEPT !.response = "none"])
    /\ UNCHANGED <<now, provider, max_age_seconds, tokenVars, driveVars, calls>>

\* Mutated form: the first token's word is final if the call was sent before.
MayRefreshFirstOnly(t) == ~call[t].refreshed /\ call[t].requests = 1

MayRefresh(t) == ~call[t].refreshed

RefreshAfter401(t) ==
    /\ pc[t] = "response" /\ Refreshing(t) /\ MayRefresh(t)
    /\ Goto(t, "lock")
    /\ UNCHANGED <<now, provider, max_age_seconds, tokenVars, driveVars, calls, call>>

Surface(t) ==
    /\ pc[t] = "response" /\ ~MayRetry(t)
    /\ Refreshing(t) => ~MayRefresh(t)
    /\ Finish(t, IF call[t].response \in {"ok", "UNAUTHENTICATED", "TRANSIENT"}
                 THEN call[t].response ELSE "refused")
    /\ UNCHANGED <<now, provider, max_age_seconds, tokenVars, driveVars, calls>>

-----------------------------------------------------------------------------
Tick ==
    /\ now < MaxTime /\ now' = now + 1
    /\ UNCHANGED <<provider, max_age_seconds, tokenVars, driveVars, calls, pc, call>>

\* To revoke a token that no longer works changes nothing.
Revoke ==
    /\ \E token \in Issued : Accepted(token) /\ revoked' = revoked \cup {token}
    /\ UNCHANGED <<now, provider, max_age_seconds, tokenVars, expires, calls, pc,
                   call>>

GetToken(t) ==
    \/ TokenFromCache(t) \/ TokenWantsLock(t)
    \/ DecideNotToMint(t) \/ RethrowMintFailure(t) \/ StartMint(t)
    \/ EndpointIssues(t) \/ Impersonate(t)
    \/ StoreMinted(t) \/ MintFails(t)

MakeRequest(t) ==
    \/ DriveRefusesToken(t) \/ DriveTakesRequest(t) \/ RequestFails(t)
    \/ Retry(t) \/ RefreshAfter401(t) \/ Surface(t)

Step(t) == GetToken(t) \/ MakeRequest(t)

Next == (\E t \in Threads : Call(t) \/ Step(t)) \/ Tick \/ Revoke

Spec == Init /\ [][Next]_vars

\* Threads run, and timeouts end every exchange with Drive and the endpoint.
FairSpec == Spec /\ \A t \in Threads : WF_vars(Step(t))

-----------------------------------------------------------------------------
(***************************************************************************)
(* Properties.                                                             *)
(***************************************************************************)
CachedType ==
    [token : 0..MaxTokens, expires_at : 0..MaxInt, minted_at : 0..MaxTime]

CallType ==
    [method : Methods \cup {"GET"}, reserved : BOOLEAN, attempt : 0..MaxAttempts,
     access_token : 0..MaxTokens, refreshed : BOOLEAN,
     response : {"none", "ok"} \cup Kinds,
     asked_at : 0..MaxTime, minted : CachedType,
     outcome : {"none", "ok", "TRANSIENT", "UNAUTHENTICATED", "refused"},
     requests : 0..(MaxAttempts + 1), applied : 0..(MaxAttempts + 1),
     turned_down : SUBSET (0..MaxTokens)]

\* Every variable has its type; in particular a call makes at most
\* kMaxAttempts + 1 HTTP requests (the bound ExecuteWithRetry documents).
TypeOK ==
    /\ now \in 0..MaxTime
    /\ provider \in Providers
    /\ max_age_seconds \in Nat
    /\ cache \in CachedType /\ failed_until \in Nat
    /\ mint_lock \in Threads \cup {Nobody}
    /\ Issued \subseteq Tokens /\ \A token \in Issued : expires[token] \in Nat
    /\ revoked \subseteq Issued
    /\ calls \in 0..MaxCalls
    /\ pc \in [Threads -> {"idle", "token", "lock", "minting", "minted",
                           "send", "response"}]
    /\ call \in [Threads -> CallType]

\* What a call that must not be repeated reports is what became of it
\* (ExecuteWithRetry, ClassifyDriveError): Drive applied it at most once, as no
\* retry follows an ambiguous answer and the one re-send follows a refused token;
\* if it succeeded it was applied, and if it failed by anything but a 5xx or
\* silence it was not.
AppliedAsReported ==
    \A t \in Threads : LET c == call[t] IN
        ~Repeatable(c) =>
            /\ c.applied <= 1
            /\ c.outcome = "ok" => c.applied = 1
            /\ c.outcome \in {"UNAUTHENTICATED", "refused"} => c.applied = 0

\* The token endpoint is asked only when no usable token is cached: nothing
\* is, it is stale, or Drive refuses it.  So N threads rejected at once mint one token.
MintsJustified ==
    [][\A t \in Threads : ~Minting(pc[t]) /\ Minting(pc'[t]) =>
          ~TryFresh \/ ~Accepted(cache.token)]_vars

\* What is cached changes for a later token only (a failed mint does not empty
\* the slot, and a new handle does not bring a rejected pasted token back), and
\* a minted token is never believed to live longer than it does, however long
\* the endpoint, or the two hops of a federation, take to answer.
CacheHonest ==
    [][cache' # cache =>
          /\ cache'.token > cache.token
          /\ cache'.expires_at # kUnknownExpiry =>
                cache'.expires_at <= expires[cache'.token]]_vars

\* A 401 surfaces only when two different tokens were refused, or there was
\* nothing to refresh with: a token that died under a live handle is replaced.
UnauthenticatedMeansIt ==
    \A t \in Threads :
        call[t].outcome = "UNAUTHENTICATED" =>
            ~can_mint \/ Cardinality(call[t].turned_down) = 2

\* Every call returns, so that at last, calls being bounded, no thread is within
\* one: the retries end, and no thread waits for the mint lock for ever, also when
\* minting fails.
CallsReturn == []<>(\A t \in Threads : pc[t] = "idle")
=============================================================================
