----------------------------- MODULE DriveErrors -----------------------------
(***************************************************************************)
(* How the client reads an answer that is not a success                    *)
(* (gdrive_errors.cpp) and how long it waits before the next attempt       *)
(* (SleepBackoff).  A reply keeps what classification tells apart: the     *)
(* status, errors[0].reason and the reason of the first element of         *)
(* details[] that has one; "" where the body has none or is not JSON.      *)
(***************************************************************************)
EXTENDS Integers

CONSTANT INT_MAX

ASSUME IntAssumption == INT_MAX \in Nat \ {0}

NoReason == ""

Reply(http_status, reason, detail_reason) ==
    [http_status |-> http_status, reason |-> reason, detail_reason |-> detail_reason]

Kinds ==
    {"NOT_FOUND", "UNAUTHENTICATED", "PERMISSION_DENIED", "INSUFFICIENT_SCOPE",
     "STORAGE_QUOTA", "RATE_LIMIT", "TRANSIENT", "INVALID_REQUEST",
     "NOT_DOWNLOADABLE", "UNKNOWN"}

\* The reasons of each kind; a reason of none of them says nothing.
ReasonsOf ==
    [NOT_FOUND         |-> {"notFound"},
     UNAUTHENTICATED   |-> {"authError", "required"},
     PERMISSION_DENIED |-> {"insufficientPermissions", "insufficientFilePermissions"},
     STORAGE_QUOTA     |-> {"storageQuotaExceeded"},
     RATE_LIMIT        |-> {"rateLimitExceeded", "userRateLimitExceeded"},
     NOT_DOWNLOADABLE  |-> {"fileNotDownloadable", "cannotDownloadAbusiveFile"},
     INVALID_REQUEST   |-> {"invalidParameter", "invalid"}]

KnownReasons == UNION {ReasonsOf[kind] : kind \in DOMAIN ReasonsOf}

ClassifyFromReason(reason) ==
    CHOOSE kind \in DOMAIN ReasonsOf : reason \in ReasonsOf[kind]

ClassifyFromStatus(http_status) ==
    CASE http_status = 404 -> "NOT_FOUND"
      [] http_status = 401 -> "UNAUTHENTICATED"
      [] http_status = 400 -> "INVALID_REQUEST"
      [] http_status = 429 -> "RATE_LIMIT"
      [] http_status \in 500..599 -> "TRANSIENT"
      [] OTHER -> "UNKNOWN"

\* The missing scope is told by details[] alone, so it is looked for first; a
\* 429 needs no body; else a known reason, else the status.
ClassifyDriveError(r) ==
    IF r.detail_reason = "ACCESS_TOKEN_SCOPE_INSUFFICIENT" THEN "INSUFFICIENT_SCOPE"
    ELSE IF r.http_status = 429 THEN "RATE_LIMIT"
    ELSE IF r.reason \in KnownReasons THEN ClassifyFromReason(r.reason)
    ELSE ClassifyFromStatus(r.http_status)

IsRetryable(kind) == kind \in {"RATE_LIMIT", "TRANSIENT"}

-----------------------------------------------------------------------------
(***************************************************************************)
(* Waiting.  A header of n seconds is read by strtol, which stops at the   *)
(* largest long of 64 bits, and kept in an int: what does not fit is taken *)
(* modulo 2^32.                                                            *)
(***************************************************************************)
IntWidth == 2 * (INT_MAX + 1)
LONG_MAX == IntWidth * (INT_MAX + 1) - 1

Strtol(n) == IF n > LONG_MAX THEN LONG_MAX ELSE n

ToInt(n) == ((n + INT_MAX + 1) % IntWidth) - (INT_MAX + 1)

ParseRetryAfterSeconds(n) == ToInt(Strtol(n))

kInitialBackoffMs == 500
kMaxBackoffMs == 20000

Doubled(attempt) == kInitialBackoffMs * 2 ^ (attempt - 1)

\* Before jitter; the attempt that failed is numbered from one.
BackoffBase(attempt) ==
    IF Doubled(attempt) > kMaxBackoffMs THEN kMaxBackoffMs ELSE Doubled(attempt)

\* The delay when the jitter came to `jittered`, 0.75 to 1.25 of the base.
SleepMs(jittered, retry_after_seconds) ==
    IF 1000 * retry_after_seconds > jittered THEN 1000 * retry_after_seconds
                                             ELSE jittered

\* What the wait after a reply whose Retry-After says n seconds comes to.
DelayMs(jittered, n) == SleepMs(jittered, ParseRetryAfterSeconds(n))
=============================================================================
