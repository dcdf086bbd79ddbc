-------------------------- MODULE GDriveAuthContext --------------------------
(***************************************************************************)
(* Resolving a secret to a token source (GetAuthContext, gdrive_auth.cpp)  *)
(* while secrets and the credential file are replaced.  The databases of   *)
(* one process share the token cache; each has one gdrive secret, all of   *)
(* one name, scope and OAuth client, so that only the credential tells     *)
(* them apart.                                                             *)
(*                                                                         *)
(* A credential or a token is the user it acts as.  A mint is one step     *)
(* (GDriveRequest has its lock); errors thrown before anything was read or *)
(* stored are left out, as are drive_id, quota project and debug max age.  *)
(***************************************************************************)
EXTENDS Integers, FiniteSets, Sequences

CONSTANTS
    Threads, Databases, Users, None,
    Providers,         \* the providers of the secrets
    MaxFiles,          \* bound: versions of the credential file
    MaxRecreations,    \* bound: CREATE OR REPLACE SECRET
    MaxResolutions,    \* bound: calls of GetAuthContext
    MaxConsents,       \* bound: browser consents given
    MaxLapses          \* bound: tokens that run out or are refused

ASSUME AuthAssumption ==
    /\ Providers \subseteq {"service_account", "credential_chain", "config",
                            "authorization_code"}
    /\ MaxFiles \in Nat \ {0}
    /\ MaxRecreations \in Nat /\ MaxResolutions \in Nat
    /\ MaxConsents \in Nat /\ MaxLapses \in Nat

VARIABLES
    secrets,       \* per database, its secret
    file,          \* the users of the credential file's versions; the last is on disk
    cache,         \* TokenCache()
    failures,      \* keys of MintFailures() still in their backoff
    call,          \* per thread, its call of GetAuthContext
    handles,       \* what the calls returned: the sources file handles hold
    counts         \* what the bounds cap

vars == <<secrets, file, cache, failures, call, handles, counts>>

\* A refresh token: its user, and the consent it came from, 0 for one that
\* CREATE SECRET was given.
RefreshTokens == Users \X (0..MaxConsents)
Secret == [provider : Providers, refresh : RefreshTokens \cup {None},
           access : Users \cup {None}]

\* Secrets as users create them.  A refresh token stands for the triple with
\* the client; beside a pasted access token it is of the same user.  Both
\* providers with a file name the one file.
SecretOf(provider, refresh, access) ==
    [provider |-> provider, refresh |-> refresh, access |-> access]
CreateConfigSecret ==
    {SecretOf("config", None, u) : u \in Users}
    \cup {SecretOf("config", <<u, 0>>, None) : u \in Users}
    \cup {SecretOf("config", <<u, 0>>, u) : u \in Users}
CreateServiceAccountSecret == {SecretOf("service_account", None, None)}
CreateCredentialChainSecret == {SecretOf("credential_chain", None, None)}
CreateAuthorizationCodeSecret ==
    {SecretOf("authorization_code", r, None) : r \in (Users \X {0}) \cup {None}}

NewSecrets ==
    {s \in CreateConfigSecret \cup CreateServiceAccountSecret
             \cup CreateCredentialChainSecret \cup CreateAuthorizationCodeSecret :
       s.provider \in Providers}

Material == [stamp : 0..MaxFiles, refresh : RefreshTokens \cup {None},
             access : Users \cup {None}]
Key == [provider : Providers, material : Material]

\* mint, the user whose credential the source mints with; static, the user of a
\* StaticTokenSource, which has no key.  History: `first`, the user of the token
\* it got at once; `torn`, whether the file was replaced meanwhile.
Handle == [database : Databases, identity : Key, key : Key \cup {None},
           mint : Users \cup {None}, first : Users, torn : BOOLEAN]

\* Where a value may be missing, None says so.
ASSUME NoneAssumption == None \notin Users \cup RefreshTokens \cup Key

Call == [pc : {"idle", "build", "stamp", "read", "token", "consent", "persist",
               "store"},
         database : Databases \cup {None}, kv : Secret \cup {None},
         identity : Key \cup {None}, key : Key \cup {None},
         mint : Users \cup {None}, torn : BOOLEAN,
         consented : Users \cup {None},      \* what the browser flow returned
         refresh : RefreshTokens \cup {None}]

Idle == [pc |-> "idle", database |-> None, kv |-> None, identity |-> None,
         key |-> None, mint |-> None, torn |-> FALSE, consented |-> None,
         refresh |-> None]

Init ==
    /\ secrets \in [Databases -> NewSecrets]
    /\ file \in {<<u>> : u \in Users}
    /\ cache = <<>>
    /\ failures = {}
    /\ call = [t \in Threads |-> Idle]
    /\ handles = {}
    /\ counts = [recreations |-> 0, resolutions |-> 0, consents |-> 0, lapses |-> 0]

-----------------------------------------------------------------------------
(***************************************************************************)
(* Keys.                                                                   *)
(***************************************************************************)
FileProviders == {"service_account", "credential_chain"}

\* KeyFileStamp: every replacement changes it (inode, ctime).
KeyFileStamp == Len(file)
OnDisk == file[Len(file)]

Fields(stamp, refresh, access) ==
    [stamp |-> stamp, refresh |-> refresh, access |-> access]

\* Mutated form: a key of the secret's name and provider.
NameOnlyKey(provider, material) ==
    [provider |-> provider, material |-> Fields(0, None, None)]

\* FingerprintKey: SHA-256 keeps different material apart.
FingerprintKey(provider, material) ==
    [provider |-> provider, material |-> material]

IdentityMaterial(kv, stamp) ==
    Fields(stamp, kv.refresh,
           IF kv.provider = "authorization_code" THEN None ELSE kv.access)

FileKey(provider) == FingerprintKey(provider, Fields(KeyFileStamp, None, None))
AuthorizationCodeKey(refresh) ==
    FingerprintKey("authorization_code", Fields(0, refresh, None))

-----------------------------------------------------------------------------
(***************************************************************************)
(* The token cache.                                                        *)
(***************************************************************************)
Stored(key, user) ==
    [k \in DOMAIN cache \cup {key} |->
        IF k = key THEN [user |-> user, fresh |-> TRUE] ELSE cache[k]]

TryFresh(key) == key \in DOMAIN cache /\ cache[key].fresh

\* The user a request through the source acts as.
ActsAs(h) == IF h.key = None THEN h.first
             ELSE IF TryFresh(h.key) \/ h.mint = None THEN cache[h.key].user
             ELSE h.mint

Goto(t, c) == call' = [call EXCEPT ![t] = c]
At(t, pc) == call[t].pc = pc

\* GetAuthContext returns a context whose first token is of this user.
Return(t, key, mint, first) ==
    /\ Goto(t, Idle)
    /\ handles' = handles \cup
        {[database |-> call[t].database, identity |-> call[t].identity,
          key |-> key, mint |-> mint, first |-> first, torn |-> call[t].torn]}

Counted(what, max) ==
    /\ counts[what] < max
    /\ counts' = [counts EXCEPT ![what] = @ + 1]

-----------------------------------------------------------------------------
(***************************************************************************)
(* GetAuthContext: the lookup copies the secret and stamps the identity,   *)
(* then the provider's branch resolves it.                                 *)
(***************************************************************************)
Resolve(t, d) ==
    LET kv == secrets[d]
        stamp == IF kv.provider \in FileProviders THEN KeyFileStamp ELSE 0
    IN /\ At(t, "idle") /\ Counted("resolutions", MaxResolutions)
       /\ Goto(t, [Idle EXCEPT
            !.pc = CASE kv.provider = "service_account" -> "stamp"
                     [] kv.provider = "credential_chain" -> "read"
                     [] OTHER -> "build",
            !.database = d, !.kv = kv,
            !.identity = FingerprintKey(kv.provider, IdentityMaterial(kv, stamp))])
       /\ UNCHANGED <<secrets, file, cache, failures, handles>>

Provider(t) == call[t].kv.provider

\* BuildContextFromServiceAccount stamps the key file, then reads it;
\* BuildContextFromCredentialChain reads the ADC file, then stamps it.
StampFile(t) ==
    /\ At(t, "stamp")
    /\ Goto(t, [call[t] EXCEPT !.key = FileKey(Provider(t)),
                    !.pc = IF Provider(t) = "service_account" THEN "read" ELSE "token"])
    /\ UNCHANGED <<secrets, file, cache, failures, handles, counts>>

ReadFile(t) ==
    /\ At(t, "read")
    /\ Goto(t, [call[t] EXCEPT !.mint = OnDisk,
                    !.pc = IF Provider(t) = "service_account" THEN "token" ELSE "stamp"])
    /\ UNCHANGED <<secrets, file, cache, failures, handles, counts>>

\* Missing, malformed, or without the quota project a user credential needs.
FileUnusable(t) ==
    /\ At(t, "read") /\ Goto(t, Idle)
    /\ UNCHANGED <<secrets, file, cache, failures, handles, counts>>

\* A pasted token alone is used as it is; beside a refresh token it is cached
\* unless something is (the constructor of CachedTokenSource).
BuildFromConfig(t) ==
    LET kv == call[t].kv
        key == FingerprintKey("config", Fields(0, kv.refresh, kv.access))
        seeded == kv.access # None /\ key \notin DOMAIN cache
    IN /\ At(t, "build") /\ Provider(t) = "config"
       /\ \/ /\ kv.refresh = None
             /\ Return(t, None, None, kv.access)
             /\ UNCHANGED cache
          \/ /\ kv.refresh # None
             /\ cache' = IF seeded THEN Stored(key, kv.access) ELSE cache
             /\ Goto(t, [call[t] EXCEPT !.pc = "token", !.key = key,
                                        !.mint = kv.refresh[1]])
             /\ UNCHANGED handles
       /\ UNCHANGED <<secrets, file, failures, counts>>

\* A stored refresh token mints; without one, a token of an earlier consent
\* is used as long as it is fresh.
BuildFromAuthorizationCode(t) ==
    LET refresh == call[t].kv.refresh
        key == AuthorizationCodeKey(refresh)
        c == [call[t] EXCEPT !.key = key]
    IN /\ At(t, "build") /\ Provider(t) = "authorization_code"
       /\ \/ /\ refresh # None
             /\ Goto(t, [c EXCEPT !.pc = "token", !.mint = refresh[1]])
             /\ UNCHANGED handles
          \/ /\ refresh = None /\ TryFresh(key)
             /\ Return(t, key, None, cache[key].user)
          \/ /\ refresh = None /\ ~TryFresh(key)
             /\ Goto(t, [c EXCEPT !.pc = "consent"])
             /\ UNCHANGED handles
       /\ UNCHANGED <<secrets, file, cache, failures, counts>>

-----------------------------------------------------------------------------
(***************************************************************************)
(* The first token.                                                        *)
(***************************************************************************)
TokenCached(t) ==
    /\ At(t, "token") /\ TryFresh(call[t].key)
    /\ Return(t, call[t].key, call[t].mint, cache[call[t].key].user)
    /\ UNCHANGED <<secrets, file, cache, failures, counts>>

TokenMinted(t) ==
    LET c == call[t] IN
    /\ At(t, "token") /\ ~TryFresh(c.key) /\ c.key \notin failures
    /\ cache' = Stored(c.key, c.mint)
    /\ Return(t, c.key, c.mint, c.mint)
    /\ UNCHANGED <<secrets, file, failures, counts>>

\* The mint fails, or is known to: only a browser consent can help.
TokenRefused(t) ==
    /\ At(t, "token") /\ ~TryFresh(call[t].key)
    /\ failures' = failures \cup {call[t].key}
    /\ Goto(t, IF Provider(t) = "authorization_code"
               THEN [call[t] EXCEPT !.pc = "consent"] ELSE Idle)
    /\ UNCHANGED <<secrets, file, cache, handles, counts>>

-----------------------------------------------------------------------------
(***************************************************************************)
(* The browser flow.  Who signs in is up to the user; Google may withhold  *)
(* a refresh token.                                                        *)
(***************************************************************************)
Consent(t) ==
    /\ At(t, "consent") /\ Counted("consents", MaxConsents)
    /\ \E u \in Users :
         \/ Goto(t, [call[t] EXCEPT !.pc = "persist", !.consented = u,
                                    !.refresh = <<u, counts'.consents>>])
         \/ Goto(t, [call[t] EXCEPT !.pc = "store", !.consented = u])
    /\ UNCHANGED <<secrets, file, cache, failures, handles>>

\* No display, no free port, or the user never answers.
ConsentFails(t) ==
    /\ At(t, "consent") /\ Goto(t, Idle)
    /\ UNCHANGED <<secrets, file, cache, failures, handles, counts>>

\* UpdateSecretWithTokens writes the copy of the secret, with the new tokens,
\* back through the secret manager.
Persist(t) ==
    LET c == call[t] IN
    /\ At(t, "persist") /\ Goto(t, [c EXCEPT !.pc = "store"])
    /\ secrets' = [secrets EXCEPT
            ![c.database] = [c.kv EXCEPT !.refresh = c.refresh, !.access = c.consented]]
    /\ UNCHANGED <<file, cache, failures, handles, counts>>

\* Mutated form: the key this resolution started from.
KeyOfOldSecret(t) == call[t].key

\* flow_key: the key the next resolution will compute.
FlowKey(t) ==
    IF call[t].refresh = None THEN call[t].key ELSE AuthorizationCodeKey(call[t].refresh)

StoreConsented(t) ==
    LET c == call[t] IN
    /\ At(t, "store")
    /\ cache' = Stored(FlowKey(t), c.consented)
    /\ Return(t, FlowKey(t), IF c.refresh = None THEN None ELSE c.refresh[1],
              c.consented)
    /\ UNCHANGED <<secrets, file, failures, counts>>

-----------------------------------------------------------------------------
(***************************************************************************)
(* Handles go on asking for tokens; time passes; users replace secrets and *)
(* the file.                                                               *)
(***************************************************************************)
\* Mutated form: a mint that fails takes the lapsed token along.
HandleMintsForgets(h) ==
    /\ h.mint # None /\ ~TryFresh(h.key)
    /\ \/ /\ h.key \notin failures
          /\ cache' = Stored(h.key, h.mint) /\ UNCHANGED failures
       \/ /\ failures' = failures \cup {h.key}
          /\ cache' = [k \in DOMAIN cache \ {h.key} |-> cache[k]]
    /\ UNCHANGED <<secrets, file, call, handles, counts>>

HandleMints(h) ==
    /\ h.mint # None /\ ~TryFresh(h.key)
    /\ \/ /\ h.key \notin failures
          /\ cache' = Stored(h.key, h.mint) /\ UNCHANGED failures
       \/ /\ failures' = failures \cup {h.key} /\ UNCHANGED cache
    /\ UNCHANGED <<secrets, file, call, handles, counts>>

Lapse(key) ==
    /\ TryFresh(key) /\ Counted("lapses", MaxLapses)
    /\ cache' = [cache EXCEPT ![key].fresh = FALSE]
    /\ UNCHANGED <<secrets, file, failures, call, handles>>

BackoffEnds(key) ==
    /\ failures' = failures \ {key}
    /\ UNCHANGED <<secrets, file, cache, call, handles, counts>>

ReplaceFile(u) ==
    /\ Len(file) < MaxFiles
    /\ file' = Append(file, u)
    /\ call' = [t \in Threads |->
            [call[t] EXCEPT !.torn =
                @ \/ (~At(t, "idle") /\ Provider(t) \in FileProviders)]]
    /\ UNCHANGED <<secrets, cache, failures, handles, counts>>

CreateOrReplaceSecret(d, s) ==
    /\ Counted("recreations", MaxRecreations)
    /\ secrets' = [secrets EXCEPT ![d] = s]
    /\ UNCHANGED <<file, cache, failures, call, handles>>

Next ==
    \/ \E t \in Threads :
          \/ \E d \in Databases : Resolve(t, d)
          \/ StampFile(t) \/ ReadFile(t) \/ FileUnusable(t)
          \/ BuildFromConfig(t) \/ BuildFromAuthorizationCode(t)
          \/ TokenCached(t) \/ TokenMinted(t) \/ TokenRefused(t)
          \/ Consent(t) \/ ConsentFails(t) \/ Persist(t) \/ StoreConsented(t)
    \/ \E h \in handles : HandleMints(h)
    \/ \E key \in DOMAIN cache : Lapse(key)
    \/ \E key \in failures : BackoffEnds(key)
    \/ \E u \in Users : ReplaceFile(u)
    \/ \E d \in Databases, s \in NewSecrets : CreateOrReplaceSecret(d, s)

Spec == Init /\ [][Next]_vars

-----------------------------------------------------------------------------
TypeOK ==
    /\ secrets \in [Databases -> Secret]
    /\ file \in Seq(Users) /\ Len(file) \in 1..MaxFiles
    /\ DOMAIN cache \subseteq Key
    /\ \A k \in DOMAIN cache : cache[k] \in [user : Users, fresh : BOOLEAN]
    /\ failures \subseteq Key
    /\ call \in [Threads -> Call]
    /\ handles \subseteq Handle
    /\ \A h \in handles : h.key # None => h.key \in DOMAIN cache
    /\ counts \in [recreations : 0..MaxRecreations, resolutions : 0..MaxResolutions,
                   consents : 0..MaxConsents, lapses : 0..MaxLapses]

\* Keys whose token may be of another user than they name: the file was replaced
\* under a resolution, or a consent came without a refresh token and was stored
\* under the key the resolution began with.
ForeignKeys == {h.key : h \in {g \in handles : g.torn \/ g.mint = None}}

\* A source acts as the user of its own credential, whatever other secrets of
\* its name and earlier ones left in the cache (FingerprintKey), and a
\* service-account key is used from the first open after it was put in place
\* (KeyFileStamp), also when a replacement hit another open half way.
HandlesKeepToTheirUser ==
    \A h \in handles :
        h.mint # None =>
            /\ h.key \notin ForeignKeys => ActsAs(h) = h.mint
            /\ h.identity.provider = "service_account" /\ ~h.torn => h.first = h.mint

\* In one database two contexts of one identity, under which paths and blocks
\* are cached, are of one user.
IdentityNamesUser(providers) ==
    \A g, h \in handles :
        /\ g.identity.provider \in providers /\ ~g.torn /\ ~h.torn
        /\ g.database = h.database /\ g.identity = h.identity
        => g.first = h.first

\* No user acts through another's token or finds what was cached for another
\* (FingerprintKey, IdentityMaterial), for the providers whose credential is
\* in the secret or in its key file.
UsersApart ==
    /\ HandlesKeepToTheirUser
    /\ IdentityNamesUser({"service_account", "config"})

\* After a consent the next open needs no browser: the token is in the cache
\* under the key of the secret as it was persisted, for as long as the secret
\* has that refresh token, whatever consents and replacements ran besides
\* (flow_key in BuildContextFromAuthorizationCode).
ConsentIsFound ==
    \A d \in Databases :
        LET refresh == secrets[d].refresh
            key == AuthorizationCodeKey(refresh)
            storing == \E t \in Threads : At(t, "store") /\ call[t].refresh = refresh
        IN secrets[d].provider = "authorization_code" /\ refresh # None
             /\ refresh[2] > 0 /\ ~storing
           => /\ key \in DOMAIN cache
              /\ key \notin ForeignKeys => cache[key].user = refresh[1]

\* "a secret recreated under the same name with different credentials must not
\* be served the previous principal's cached ids or bytes", for the provider
\* whose user is known only after the consent.
ConsentedIdentityNamesUser == IdentityNamesUser({"authorization_code"})
=============================================================================
