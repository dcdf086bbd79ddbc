----------------------------- MODULE TokenPolicy -----------------------------
(***************************************************************************)
(* The rules a token source follows (gdrive_token_policy.cpp).  Times are  *)
(* Unix seconds in a signed integer whose largest value is MaxInt; a token *)
(* is a number, 0 for the empty string.                                    *)
(***************************************************************************)
EXTENDS Integers

CONSTANTS
    MaxInt,         \* INT64_MAX
    RefreshSlack    \* kTokenRefreshSlackSeconds

ASSUME TokenPolicyAssumption ==
    /\ MaxInt \in Nat /\ RefreshSlack \in Nat /\ RefreshSlack < MaxInt

kUnknownExpiry == MaxInt
NoToken == 0

SaturatingAdd(a, b) == IF a > MaxInt - b THEN MaxInt ELSE a + b

TokenIsFresh(cached, now, max_age) ==
    LET horizon == SaturatingAdd(now, RefreshSlack)
    IN  /\ cached.expires_at > horizon
        /\ max_age <= 0 \/ SaturatingAdd(cached.minted_at, max_age) > horizon

\* What a cap of `requested` seconds, not negative, comes to.
NormalizeMaxAgeSeconds(requested) ==
    IF requested > 0 /\ requested <= RefreshSlack THEN RefreshSlack + 1 ELSE requested

\* NoToken is cached when nothing is.
DecideAfterRejection(cached, rejected, now, max_age, can_mint) ==
    IF /\ cached.token # NoToken /\ cached.token # rejected
       /\ TokenIsFresh(cached, now, max_age)
    THEN "REUSE_CACHED"
    ELSE IF can_mint THEN "MINT" ELSE "GIVE_UP"

ShouldResendAfter401(already_refreshed, rejected, replacement) ==
    ~already_refreshed /\ replacement # NoToken /\ replacement # rejected
=============================================================================
