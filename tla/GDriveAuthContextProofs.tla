---------------------- MODULE GDriveAuthContextProofs ----------------------
(***************************************************************************)
(* Proofs about GDriveAuthContext: no user acts through another's token,   *)
(* and a consent is found by the open after it, for any threads,           *)
(* databases, users, providers and bounds.                                 *)
(***************************************************************************)
EXTENDS GDriveAuthContext, SequenceTheorems, TLAPS

\* The user the credential that key k names acts as.  A key of a secret without
\* a refresh token names nobody.
Right(k, u) ==
    /\ k.provider = "config" => u = k.material.refresh[1]
    /\ k.provider = "authorization_code" /\ k.material.refresh # None
         => u = k.material.refresh[1]
    /\ k.provider \in FileProviders => u = file[k.material.stamp]

\* A key of a service-account file that is still in place names its user, also
\* when the file was put there during the resolution.
Latest(k, u) ==
    k.provider = "service_account" /\ k.material.stamp = Len(file) => u = OnDisk

\* The stamp in a key is that of a version of the file.
Stamped(k) == k.provider \in FileProviders => k.material.stamp \in 1..Len(file)

\* A config secret has a token, or a refresh token and perhaps a token of its user.
SecretSound(s) ==
    s.provider = "config" =>
        /\ s.refresh = None => s.access # None
        /\ s.refresh # None /\ s.access # None => s.access = s.refresh[1]

\* The key and the credential that a resolution of secret kv has found so far.
KeySound(c) ==
    /\ c.key.provider = c.kv.provider /\ Stamped(c.key)
    /\ c.kv.provider = "config" =>
         c.kv.refresh # None /\ c.key.material = Fields(0, c.kv.refresh, c.kv.access)
    /\ c.kv.provider = "authorization_code" => c.key = AuthorizationCodeKey(c.kv.refresh)
    /\ c.kv.provider \in FileProviders /\ ~c.torn => c.key.material.stamp = Len(file)

MintSound(c) ==
    /\ c.kv.provider \notin FileProviders =>
         c.kv.refresh # None /\ c.mint = c.kv.refresh[1]
    /\ c.kv.provider \in FileProviders /\ ~c.torn => c.mint = OnDisk
    /\ c.key # None => Latest(c.key, c.mint)

CallSound(c) ==
    c.pc # "idle" =>
        /\ c.database \in Databases
        /\ c.kv \in Secret /\ SecretSound(c.kv)
        /\ c.identity \in Key /\ Stamped(c.identity)
        /\ c.identity = FingerprintKey(c.kv.provider,
                            IdentityMaterial(c.kv, c.identity.material.stamp))
        /\ c.kv.provider \in FileProviders /\ ~c.torn
             => c.identity.material.stamp = Len(file)
        /\ c.kv.provider \notin FileProviders => ~c.torn
        /\ c.key # None => KeySound(c)
        /\ c.mint # None => MintSound(c)
        /\ c.pc = "build" => c.kv.provider \notin FileProviders
        /\ c.pc \in {"stamp", "read"} => c.kv.provider \in FileProviders
        /\ c.pc = "stamp" =>
             c.key = None /\ (c.mint = None <=> c.kv.provider = "service_account")
        /\ c.pc = "read" =>
             c.mint = None /\ (c.key # None <=> c.kv.provider = "service_account")
        /\ c.pc = "token" => c.key # None /\ c.mint # None
        /\ c.pc \in {"consent", "persist", "store"} =>
             c.kv.provider = "authorization_code" /\ c.key # None
        /\ c.pc \in {"persist", "store"} => c.consented # None
        /\ c.pc = "persist" => c.refresh # None
        /\ c.refresh # None =>
             c.pc \in {"persist", "store"} /\ c.refresh[1] = c.consented

\* What a context is and stays: of the user its key names.
HandleSound(h) ==
    /\ Stamped(h.identity)
    /\ h.key # None =>
         h.key \in DOMAIN cache /\ Stamped(h.key) /\ h.key.provider = h.identity.provider
    /\ h.mint # None =>
         /\ h.key # None
         /\ h.torn \/ Right(h.key, h.mint)
         /\ Latest(h.key, h.mint)
         /\ h.key.provider \notin FileProviders => h.key.material.refresh # None
    /\ h.identity.provider = "config" =>
         /\ ~h.torn /\ (h.key # None => h.mint # None)
         /\ h.first = IF h.identity.material.refresh = None
                      THEN h.identity.material.access
                      ELSE h.identity.material.refresh[1]
    /\ h.identity.provider = "service_account" /\ ~h.torn =>
         h.first = h.mint /\ h.first = file[h.identity.material.stamp]

\* A cached token is of the user its key names.
EntrySound(k) ==
    /\ Stamped(k)
    /\ k \in ForeignKeys \/ Right(k, cache[k].user)
    /\ Latest(k, cache[k].user)

\* A refresh token of a consent is in a secret only if its token is in the cache
\* or about to be.
ConsentStored(r) ==
    r # None /\ r[2] > 0 =>
        \/ AuthorizationCodeKey(r) \in DOMAIN cache
        \/ \E t \in Threads : At(t, "store") /\ call[t].refresh = r

IInv ==
    /\ TypeOK
    /\ \A d \in Databases : SecretSound(secrets[d]) /\ ConsentStored(secrets[d].refresh)
    /\ \A t \in Threads : CallSound(call[t])
    /\ \A h \in handles : HandleSound(h)
    /\ \A k \in DOMAIN cache : EntrySound(k)
-----------------------------------------------------------------------------
(***************************************************************************)
(* What a step leaves alone.                                               *)
(***************************************************************************)

\* The types of keys and of the parts of a call.
LEMMA KeyTypes ==
    ASSUME AuthAssumption, NEW p \in Providers, NEW n \in 0..MaxFiles,
           NEW r \in RefreshTokens \cup {None}, NEW a \in Users \cup {None}
    PROVE  LET k == FingerprintKey(p, Fields(n, r, a)) IN
           /\ k \in Key /\ k.provider = p /\ k.material = Fields(n, r, a)
           /\ k.material.stamp = n /\ k.material.refresh = r /\ k.material.access = a
BY DEF FingerprintKey, Fields, Key, Material

LEMMA RefreshUsers ==
    ASSUME AuthAssumption, NoneAssumption, NEW r \in RefreshTokens
    PROVE  r[1] \in Users /\ r[2] \in 0..MaxConsents /\ r # None /\ r = <<r[1], r[2]>>
BY DEF NoneAssumption, RefreshTokens

\* What is known of the file.
LEMMA Files ==
    ASSUME TypeOK, AuthAssumption
    PROVE  /\ Len(file) \in Nat /\ Len(file) \in 1..MaxFiles /\ Len(file) \in 0..MaxFiles
           /\ \A n \in 1..Len(file) : file[n] \in Users
           /\ OnDisk \in Users
<1>1. file \in Seq(Users) /\ Len(file) \in 1..MaxFiles  BY DEF TypeOK
<1>2. Len(file) \in Nat  BY <1>1, LenProperties
<1>3. \A n \in 1..Len(file) : file[n] \in Users  BY <1>1, ElementOfSeq
<1>4. Len(file) \in 1..Len(file) /\ Len(file) \in 0..MaxFiles
  BY <1>1, <1>2 DEF AuthAssumption
<1> QED  BY <1>1, <1>2, <1>3, <1>4 DEF OnDisk

\* A key has one user at most that it is right for.
LEMMA RightIsOne ==
    ASSUME NEW k \in Key, NEW u, NEW v, Right(k, u), Right(k, v), AuthAssumption,
           k.provider \notin FileProviders => k.material.refresh # None
    PROVE  u = v
<1>1. k.provider \in {"service_account", "credential_chain", "config", "authorization_code"}
  BY DEF Key, AuthAssumption
<1> QED  BY <1>1 DEF Right, FileProviders

\* The latest file names its user.
LEMMA RightIsLatest ==
    ASSUME NEW k, NEW u, Right(k, u)
    PROVE  Latest(k, u)
BY DEF Right, Latest, FileProviders, OnDisk

\* As long as the file stays, so do what keys name and what calls found.
LEMMA SameFile ==
    ASSUME file' = file
    PROVE  /\ \A k, u : Right(k, u)' <=> Right(k, u)
           /\ \A k, u : Latest(k, u)' <=> Latest(k, u)
           /\ \A k : Stamped(k)' <=> Stamped(k)
           /\ \A c : CallSound(c)' <=> CallSound(c)
<1>1. \A k, u : Right(k, u)' <=> Right(k, u)  BY DEF Right
<1>2. \A k, u : Latest(k, u)' <=> Latest(k, u)  BY DEF Latest, OnDisk
<1>3. \A k : Stamped(k)' <=> Stamped(k)  BY DEF Stamped
<1>4. \A c : KeySound(c)' <=> KeySound(c)  BY <1>3 DEF KeySound
<1>5. \A c : MintSound(c)' <=> MintSound(c)  BY <1>2 DEF MintSound, OnDisk
<1>6. \A c : CallSound(c)' <=> CallSound(c)  BY <1>3, <1>4, <1>5 DEF CallSound
<1> QED  BY <1>1, <1>2, <1>3, <1>6

\* A token of user u is stored under key k: of the right user, unless the key is
\* foreign by then.
Stores(k, u) ==
    /\ cache' = Stored(k, u)
    /\ k \in Key /\ u \in Users /\ Stamped(k) /\ Latest(k, u)
    /\ Right(k, u) \/ k \in ForeignKeys'

CacheStep == cache' = cache \/ \E k \in Key, u \in Users : Stores(k, u)

\* Then the cache stays sound, and keeps its keys.
LEMMA CacheKeeps ==
    ASSUME IInv, file' = file, handles \subseteq handles', CacheStep
    PROVE  /\ DOMAIN cache \subseteq DOMAIN cache'
           /\ DOMAIN cache' \subseteq Key
           /\ \A k \in DOMAIN cache' : cache'[k] \in [user : Users, fresh : BOOLEAN]
           /\ \A k \in DOMAIN cache' : EntrySound(k)'
<1>1. /\ DOMAIN cache \subseteq Key
      /\ \A k \in DOMAIN cache : cache[k] \in [user : Users, fresh : BOOLEAN]
      /\ \A k \in DOMAIN cache : EntrySound(k)
  BY DEF IInv, TypeOK
<1>2. ForeignKeys \subseteq ForeignKeys'  BY DEF ForeignKeys
<1>3. CASE cache' = cache
  BY <1>1, <1>2, <1>3, SameFile DEF EntrySound
<1>4. ASSUME NEW k \in Key, NEW u \in Users, Stores(k, u)
      PROVE  /\ DOMAIN cache \subseteq DOMAIN cache'
             /\ DOMAIN cache' \subseteq Key
             /\ \A j \in DOMAIN cache' : cache'[j] \in [user : Users, fresh : BOOLEAN]
             /\ \A j \in DOMAIN cache' : EntrySound(j)'
  <2>1. /\ DOMAIN cache' = DOMAIN cache \cup {k}
        /\ \A j \in DOMAIN cache' :
             cache'[j] = IF j = k THEN [user |-> u, fresh |-> TRUE] ELSE cache[j]
    BY <1>4 DEF Stores, Stored
  <2>2. EntrySound(k)' /\ cache'[k] \in [user : Users, fresh : BOOLEAN]
    <3>1. cache'[k] = [user |-> u, fresh |-> TRUE]  BY <2>1
    <3>2. cache'[k].user = u /\ cache'[k] \in [user : Users, fresh : BOOLEAN]  BY <3>1
    <3> QED  BY <1>4, <3>2, SameFile DEF EntrySound, Stores
  <2>3. ASSUME NEW j \in DOMAIN cache', j # k
        PROVE  EntrySound(j)' /\ cache'[j] \in [user : Users, fresh : BOOLEAN]
    <3>1. j \in DOMAIN cache /\ cache'[j] = cache[j]  BY <2>1, <2>3
    <3> QED  BY <1>1, <1>2, <3>1, SameFile DEF EntrySound
  <2> QED  BY <1>1, <2>1, <2>2, <2>3
<1> QED  BY <1>3, <1>4 DEF CacheStep

\* A context stays what it is while the file stays and the cache keeps its keys.
LEMMA HandleStays ==
    ASSUME NEW h, HandleSound(h), file' = file, DOMAIN cache \subseteq DOMAIN cache'
    PROVE  HandleSound(h)'
BY SameFile DEF HandleSound

\* Thread t goes on with call c, or returns a context; it may have written a
\* secret that its consent is for.
Becomes(t, c) ==
    /\ c \in Call /\ CallSound(c) /\ Goto(t, c)
    /\ file' = file
    /\ \/ secrets' = secrets
       \/ \E d \in Databases, s \in Secret :
             /\ secrets' = [secrets EXCEPT ![d] = s]
             /\ SecretSound(s) /\ c.pc = "store" /\ c.refresh = s.refresh
    /\ failures' \subseteq Key
    /\ counts' \in [recreations : 0..MaxRecreations, resolutions : 0..MaxResolutions,
                    consents : 0..MaxConsents, lapses : 0..MaxLapses]
    /\ CacheStep
    /\ At(t, "store") /\ call[t].refresh # None
         => AuthorizationCodeKey(call[t].refresh) \in DOMAIN cache'

LEMMA CallKeeps ==
    ASSUME IInv, NEW t \in Threads, NEW c, Becomes(t, c),
           handles \subseteq handles',
           \A h \in handles' \ handles : h \in Handle /\ HandleSound(h)'
    PROVE  IInv'
<1>1. /\ file' = file /\ c \in Call /\ CallSound(c)
      /\ call' = [call EXCEPT ![t] = c] /\ CacheStep
  BY DEF Becomes, Goto
<1>2. /\ DOMAIN cache \subseteq DOMAIN cache'
      /\ DOMAIN cache' \subseteq Key
      /\ \A k \in DOMAIN cache' : cache'[k] \in [user : Users, fresh : BOOLEAN]
      /\ \A k \in DOMAIN cache' : EntrySound(k)'
  BY <1>1, CacheKeeps
<1>3. call' \in [Threads -> Call] /\ call'[t] = c
      /\ \A u \in Threads \ {t} : call'[u] = call[u]
  BY <1>1 DEF IInv, TypeOK
<1>4. ASSUME NEW u \in Threads PROVE CallSound(call[u])'
  <2>1. PICK d : d = call'[u]  OBVIOUS
  <2>2. CallSound(d)  BY <1>1, <1>3, <2>1 DEF IInv
  <2>3. CallSound(d)'  BY <1>1, <2>2, SameFile
  <2> QED  BY <2>1, <2>3
<1>5. \A h \in handles' : h \in Handle /\ HandleSound(h)'
  <2>1. ASSUME NEW h \in handles PROVE h \in Handle /\ HandleSound(h)'
    BY <1>1, <1>2, HandleStays DEF IInv, TypeOK
  <2> QED  BY <2>1
<1>6. /\ secrets' \in [Databases -> Secret]
      /\ \A d \in Databases :
           \/ secrets'[d] = secrets[d]
           \/ SecretSound(secrets'[d]) /\ c.pc = "store" /\ c.refresh = secrets'[d].refresh
  BY DEF IInv, TypeOK, Becomes
<1>7. TypeOK'
  <2>1. \A h \in handles' : h.key # None => h.key \in DOMAIN cache'
    BY <1>5 DEF HandleSound
  <2> QED  BY <1>1, <1>2, <1>3, <1>5, <1>6, <2>1 DEF IInv, TypeOK, Becomes
<1>8. ASSUME NEW d \in Databases, secrets'[d] = secrets[d]
      PROVE  SecretSound(secrets[d])' /\ ConsentStored(secrets[d].refresh)'
  <2>1. PICK r : r = secrets[d].refresh  OBVIOUS
  <2>2. ConsentStored(r) /\ SecretSound(secrets[d])
    BY <2>1 DEF IInv
  <2>3. ConsentStored(r)'
    <3>1. ASSUME NEW u \in Threads, At(u, "store"), call[u].refresh = r, r # None
          PROVE  \/ AuthorizationCodeKey(r) \in DOMAIN cache'
                 \/ \E v \in Threads : At(v, "store")' /\ call'[v].refresh = r
      <4>1. CASE u = t  BY <3>1, <4>1 DEF Becomes
      <4>2. CASE u # t
        <5>1. call'[u] = call[u]  BY <1>3, <4>2
        <5> QED  BY <3>1, <5>1 DEF At
      <4> QED  BY <4>1, <4>2
    <3>2. AuthorizationCodeKey(r)' = AuthorizationCodeKey(r)
      BY DEF AuthorizationCodeKey, FingerprintKey, Fields
    <3> QED  BY <1>2, <2>2, <3>1, <3>2 DEF ConsentStored
  <2> QED  BY <1>8, <2>1, <2>2, <2>3 DEF SecretSound
<1>9. ASSUME NEW d \in Databases, SecretSound(secrets'[d]), c.pc = "store",
             c.refresh = secrets'[d].refresh
      PROVE  SecretSound(secrets[d])' /\ ConsentStored(secrets[d].refresh)'
  <2>1. At(t, "store")' /\ call'[t].refresh = secrets'[d].refresh
    BY <1>3, <1>9 DEF At
  <2> QED  BY <1>9, <2>1 DEF ConsentStored, SecretSound
<1> QED  BY <1>2, <1>4, <1>5, <1>6, <1>7, <1>8, <1>9 DEF IInv
-----------------------------------------------------------------------------
(***************************************************************************)
(* The steps of a resolution.                                              *)
(***************************************************************************)

\* What is known of the call of thread t.
LEMMA Calls ==
    ASSUME IInv, NEW t \in Threads
    PROVE  call[t] \in Call /\ CallSound(call[t])
BY DEF IInv, TypeOK

\* A call that is under way has a secret.
LEMMA Secrets ==
    ASSUME AuthAssumption, NoneAssumption, NEW d \in Call, CallSound(d), d.pc # "idle"
    PROVE  /\ d.kv \in Secret /\ SecretSound(d.kv) /\ d.kv.provider \in Providers
           /\ d.kv.provider \in {"service_account", "credential_chain", "config",
                                 "authorization_code"}
           /\ d.kv.refresh \in RefreshTokens \cup {None}
           /\ d.kv.access \in Users \cup {None}
           /\ d.kv.refresh # None => d.kv.refresh[1] \in Users
<1>1. /\ d.kv \in Secret /\ SecretSound(d.kv)
      /\ d.kv.provider \in Providers
      /\ d.kv.refresh \in RefreshTokens \cup {None}
      /\ d.kv.access \in Users \cup {None}
  BY DEF CallSound, Secret
<1> QED  BY <1>1, RefreshUsers DEF AuthAssumption

\* What every step of a thread that leaves secrets and file alone has in common.
LEMMA CommonParts ==
    ASSUME IInv
    PROVE  /\ failures \subseteq Key
           /\ counts \in [recreations : 0..MaxRecreations, resolutions : 0..MaxResolutions,
                          consents : 0..MaxConsents, lapses : 0..MaxLapses]
BY DEF IInv, TypeOK

LEMMA ResolveKeeps ==
    ASSUME IInv, AuthAssumption, NoneAssumption,
           NEW t \in Threads, NEW d \in Databases, Resolve(t, d)
    PROVE  IInv'
<1>1. PICK kv : kv = secrets[d]  OBVIOUS
<1>2. PICK n : n = IF kv.provider \in FileProviders THEN KeyFileStamp ELSE 0  OBVIOUS
<1>3. PICK i : i = FingerprintKey(kv.provider, IdentityMaterial(kv, n))  OBVIOUS
<1>4. PICK c : c = [Idle EXCEPT
            !.pc = CASE kv.provider = "service_account" -> "stamp"
                     [] kv.provider = "credential_chain" -> "read"
                     [] OTHER -> "build",
            !.database = d, !.kv = kv, !.identity = i]
  OBVIOUS
<1>5. /\ call[t].pc = "idle" /\ Goto(t, c) /\ Counted("resolutions", MaxResolutions)
      /\ UNCHANGED <<secrets, file, cache, failures, handles>>
  BY <1>1, <1>2, <1>3, <1>4 DEF Resolve, At
<1>6. /\ kv \in Secret /\ SecretSound(kv) /\ kv.provider \in Providers
      /\ kv.refresh \in RefreshTokens \cup {None} /\ kv.access \in Users \cup {None}
  BY <1>1 DEF IInv, TypeOK, Secret
<1>7. /\ n \in 0..MaxFiles
      /\ kv.provider \in FileProviders => n = Len(file) /\ n \in 1..Len(file)
  BY <1>2, Files DEF IInv, KeyFileStamp, AuthAssumption
<1>8. /\ i \in Key /\ i.provider = kv.provider /\ i.material.stamp = n
      /\ i.material = IdentityMaterial(kv, n)
  <2>1. PICK a : a = IF kv.provider = "authorization_code" THEN None ELSE kv.access
    OBVIOUS
  <2>2. a \in Users \cup {None}  BY <1>6, <2>1
  <2>3. IdentityMaterial(kv, n) = Fields(n, kv.refresh, a)
    BY <2>1 DEF IdentityMaterial
  <2>4. i = FingerprintKey(kv.provider, Fields(n, kv.refresh, a))  BY <1>3, <2>3
  <2>5. /\ i \in Key /\ i.provider = kv.provider /\ i.material = Fields(n, kv.refresh, a)
        /\ i.material.stamp = n
    <3>1. n \in 0..MaxFiles  BY <1>7
    <3>2. /\ kv.provider \in Providers /\ kv.refresh \in RefreshTokens \cup {None}
          /\ a \in Users \cup {None}
      BY <1>6, <2>2
    <3> QED  BY <2>4, <3>1, <3>2 DEF FingerprintKey, Fields, Key, Material
  <2> QED  BY <2>3, <2>5
<1>9. /\ c.pc = (IF kv.provider = "service_account" THEN "stamp"
                 ELSE IF kv.provider = "credential_chain" THEN "read" ELSE "build")
      /\ c.database = d /\ c.kv = kv /\ c.identity = i /\ c.key = None /\ c.mint = None
      /\ c.torn = FALSE /\ c.consented = None /\ c.refresh = None
  BY <1>4 DEF Idle
<1>10. c \in Call
  BY <1>4, <1>6, <1>8 DEF Call, Idle
<1>11. Stamped(c.identity)  BY <1>7, <1>8, <1>9 DEF Stamped
<1>12. CallSound(c)
  <2>1. c.identity = FingerprintKey(c.kv.provider,
                         IdentityMaterial(c.kv, c.identity.material.stamp))
    BY <1>3, <1>8, <1>9
  <2>2. c.pc \in {"stamp", "read"} => c.kv.provider \in FileProviders
    BY <1>9 DEF FileProviders
  <2>3. c.pc = "build" => c.kv.provider \notin FileProviders
    BY <1>9 DEF FileProviders
  <2> QED  BY <1>6, <1>7, <1>8, <1>9, <1>11, <2>1, <2>2, <2>3 DEF CallSound
<1>13. counts' \in [recreations : 0..MaxRecreations, resolutions : 0..MaxResolutions,
                    consents : 0..MaxConsents, lapses : 0..MaxLapses]
  BY <1>5, CommonParts DEF Counted, AuthAssumption
<1>14. Becomes(t, c)
  BY <1>5, <1>10, <1>12, <1>13, CommonParts DEF Becomes, CacheStep, At
<1> QED  BY <1>5, <1>14, CallKeeps

\* The stamp is that of the file on disk.
LEMMA StampFileKeeps ==
    ASSUME IInv, AuthAssumption, NoneAssumption, NEW t \in Threads, StampFile(t)
    PROVE  IInv'
<1>1. PICK d : d = call[t]  OBVIOUS
<1>2. PICK k : k = FileKey(d.kv.provider)  OBVIOUS
<1>3. PICK c : c = [d EXCEPT !.key = k,
            !.pc = IF d.kv.provider = "service_account" THEN "read" ELSE "token"]
  OBVIOUS
<1>4. /\ d.pc = "stamp" /\ Goto(t, c)
      /\ UNCHANGED <<secrets, file, cache, failures, handles, counts>>
  BY <1>1, <1>2, <1>3 DEF StampFile, At, Provider
<1>5. d \in Call /\ CallSound(d)  BY <1>1, Calls
<1>6. d.kv.provider \in Providers /\ d.kv.provider \in FileProviders
  BY <1>4, <1>5, Secrets DEF CallSound
<1>7. Len(file) \in 0..MaxFiles /\ Len(file) \in 1..Len(file)
  BY Files DEF IInv
<1>8. /\ k \in Key /\ k.provider = d.kv.provider /\ k.material.stamp = Len(file)
  BY <1>2, <1>6, <1>7, KeyTypes DEF FileKey, KeyFileStamp
<1>9. k # None  BY <1>8 DEF NoneAssumption
<1>10. /\ c \in Call /\ c.key = k
       /\ c.pc = (IF d.kv.provider = "service_account" THEN "read" ELSE "token")
       /\ c.database = d.database /\ c.kv = d.kv /\ c.identity = d.identity
       /\ c.mint = d.mint /\ c.torn = d.torn /\ c.consented = d.consented
       /\ c.refresh = d.refresh
  BY <1>3, <1>5, <1>8 DEF Call
<1>11. KeySound(c)
  BY <1>6, <1>7, <1>8, <1>10 DEF KeySound, Stamped, FileProviders
<1>12. c.mint # None => MintSound(c)
  BY <1>4, <1>5, <1>6, <1>8, <1>10 DEF CallSound, MintSound, Latest
<1>13. CallSound(c)
  BY <1>4, <1>5, <1>6, <1>9, <1>10, <1>11, <1>12 DEF CallSound
<1>14. Becomes(t, c)
  BY <1>1, <1>4, <1>10, <1>13, CommonParts DEF Becomes, CacheStep, At
<1> QED  BY <1>4, <1>14, CallKeeps

LEMMA ReadFileKeeps ==
    ASSUME IInv, AuthAssumption, NoneAssumption, NEW t \in Threads, ReadFile(t)
    PROVE  IInv'
<1>1. PICK d : d = call[t]  OBVIOUS
<1>2. PICK c : c = [d EXCEPT !.mint = OnDisk,
            !.pc = IF d.kv.provider = "service_account" THEN "token" ELSE "stamp"]
  OBVIOUS
<1>3. /\ d.pc = "read" /\ Goto(t, c)
      /\ UNCHANGED <<secrets, file, cache, failures, handles, counts>>
  BY <1>1, <1>2 DEF ReadFile, At, Provider
<1>4. d \in Call /\ CallSound(d)  BY <1>1, Calls
<1>5. d.kv.provider \in FileProviders  BY <1>3, <1>4 DEF CallSound
<1>6. OnDisk \in Users /\ OnDisk # None  BY Files DEF IInv, NoneAssumption
<1>7. /\ c \in Call /\ c.mint = OnDisk
      /\ c.pc = (IF d.kv.provider = "service_account" THEN "token" ELSE "stamp")
      /\ c.database = d.database /\ c.kv = d.kv /\ c.identity = d.identity
      /\ c.key = d.key /\ c.torn = d.torn /\ c.consented = d.consented
      /\ c.refresh = d.refresh
  BY <1>2, <1>4, <1>6 DEF Call
<1>8. MintSound(c)  BY <1>5, <1>7 DEF MintSound, Latest
<1>9. c.key # None => KeySound(c)
  BY <1>3, <1>4, <1>7 DEF CallSound, KeySound
<1>10. CallSound(c)
  BY <1>3, <1>4, <1>5, <1>6, <1>7, <1>8, <1>9 DEF CallSound
<1>11. Becomes(t, c)
  BY <1>1, <1>3, <1>7, <1>10, CommonParts DEF Becomes, CacheStep, At
<1> QED  BY <1>3, <1>11, CallKeeps

\* A call that ends without a context, and leaves the token cache alone.
LEMMA IdleSound == Idle \in Call /\ CallSound(Idle)
BY DEF Idle, Call, CallSound

LEMMA FailsKeeps ==
    ASSUME IInv, NEW t \in Threads, FileUnusable(t) \/ ConsentFails(t)
    PROVE  IInv'
<1>1. /\ ~At(t, "store") /\ Goto(t, Idle)
      /\ UNCHANGED <<secrets, file, cache, failures, handles, counts>>
  BY DEF FileUnusable, ConsentFails, At
<1>2. Becomes(t, Idle)
  BY <1>1, IdleSound, CommonParts DEF Becomes, CacheStep
<1> QED  BY <1>1, <1>2, CallKeeps

\* A mint that fails leaves its key in the backoff.
LEMMA TokenRefusedKeeps ==
    ASSUME IInv, AuthAssumption, NoneAssumption, NEW t \in Threads, TokenRefused(t)
    PROVE  IInv'
<1>1. PICK d : d = call[t]  OBVIOUS
<1>2. PICK c : c = IF d.kv.provider = "authorization_code"
                   THEN [d EXCEPT !.pc = "consent"] ELSE Idle
  OBVIOUS
<1>3. /\ d.pc = "token" /\ Goto(t, c) /\ failures' = failures \cup {d.key}
      /\ UNCHANGED <<secrets, file, cache, handles, counts>>
  BY <1>1, <1>2 DEF TokenRefused, At, Provider
<1>4. d \in Call /\ CallSound(d)  BY <1>1, Calls
<1>5. d.key \in Key /\ d.key # None
  BY <1>3, <1>4 DEF CallSound, Call
<1>6. c \in Call /\ CallSound(c)
  <2>1. CASE d.kv.provider = "authorization_code"
    <3>1. /\ c \in Call /\ c.pc = "consent" /\ c.database = d.database
          /\ c.kv = d.kv /\ c.identity = d.identity /\ c.key = d.key
          /\ c.mint = d.mint /\ c.torn = d.torn /\ c.consented = d.consented
          /\ c.refresh = d.refresh
      BY <1>2, <1>4, <2>1 DEF Call
    <3>2. KeySound(c) /\ (c.mint # None => MintSound(c))
      BY <1>3, <1>4, <1>5, <3>1 DEF CallSound, KeySound, MintSound
    <3> QED  BY <1>3, <1>4, <1>5, <2>1, <3>1, <3>2 DEF CallSound
  <2>2. CASE d.kv.provider # "authorization_code"
    BY <1>2, <2>2, IdleSound
  <2> QED  BY <2>1, <2>2
<1>7. Becomes(t, c)
  BY <1>1, <1>3, <1>5, <1>6, CommonParts DEF Becomes, CacheStep, At
<1> QED  BY <1>3, <1>7, CallKeeps

\* The browser flow returns a token of whoever signed in.
LEMMA ConsentKeeps ==
    ASSUME IInv, AuthAssumption, NoneAssumption, NEW t \in Threads, Consent(t)
    PROVE  IInv'
<1>1. PICK d : d = call[t]  OBVIOUS
<1>2. d \in Call /\ CallSound(d) /\ d.pc = "consent"
  BY <1>1, Calls DEF Consent, At
<1>3. /\ UNCHANGED <<secrets, file, cache, failures, handles>>
      /\ counts' = [counts EXCEPT !.consents = @ + 1] /\ counts.consents < MaxConsents
  BY DEF Consent, Counted
<1>4. /\ counts' \in [recreations : 0..MaxRecreations, resolutions : 0..MaxResolutions,
                      consents : 0..MaxConsents, lapses : 0..MaxLapses]
      /\ counts'.consents \in 0..MaxConsents
  BY <1>3, CommonParts DEF AuthAssumption
<1>5. ASSUME NEW c \in Call, Goto(t, c), NEW u \in Users, c.consented = u,
             c.database = d.database, c.kv = d.kv, c.identity = d.identity,
             c.key = d.key, c.mint = d.mint, c.torn = d.torn,
             \/ c.pc = "persist" /\ c.refresh # None /\ c.refresh[1] = u
             \/ c.pc = "store" /\ c.refresh = d.refresh
      PROVE  IInv'
  <2>1. KeySound(c) /\ (c.mint # None => MintSound(c))
    BY <1>2, <1>5 DEF CallSound, KeySound, MintSound
  <2>2. u # None  BY DEF NoneAssumption
  <2>3. d.refresh = None  BY <1>2 DEF CallSound
  <2>4. CallSound(c)
    BY <1>2, <1>5, <2>1, <2>2, <2>3 DEF CallSound
  <2>5. Becomes(t, c)
    BY <1>1, <1>2, <1>3, <1>4, <1>5, <2>4, CommonParts DEF Becomes, CacheStep, At
  <2> QED  BY <1>3, <2>5, CallKeeps
<1>6. PICK u \in Users :
         \/ Goto(t, [d EXCEPT !.pc = "persist", !.consented = u,
                              !.refresh = <<u, counts'.consents>>])
         \/ Goto(t, [d EXCEPT !.pc = "store", !.consented = u])
  BY <1>1 DEF Consent
<1>7. CASE Goto(t, [d EXCEPT !.pc = "persist", !.consented = u,
                             !.refresh = <<u, counts'.consents>>])
  <2>1. PICK r : r = <<u, counts'.consents>>  OBVIOUS
  <2>2. r \in RefreshTokens /\ r[1] = u  BY <1>4, <2>1 DEF RefreshTokens
  <2>3. r # None  BY <2>2 DEF NoneAssumption
  <2>4. PICK c : c = [d EXCEPT !.pc = "persist", !.consented = u, !.refresh = r]  OBVIOUS
  <2>5. /\ c \in Call /\ c.pc = "persist" /\ c.consented = u /\ c.refresh = r
        /\ c.database = d.database /\ c.kv = d.kv /\ c.identity = d.identity
        /\ c.key = d.key /\ c.mint = d.mint /\ c.torn = d.torn
    BY <1>2, <2>2, <2>4 DEF Call
  <2>6. Goto(t, c)  BY <1>7, <2>1, <2>4
  <2>7. c.refresh # None /\ c.refresh[1] = u  BY <2>2, <2>3, <2>5
  <2> QED  BY <1>5, <2>5, <2>6, <2>7
<1>8. CASE Goto(t, [d EXCEPT !.pc = "store", !.consented = u])
  <2>1. PICK c : c = [d EXCEPT !.pc = "store", !.consented = u]  OBVIOUS
  <2>2. /\ c \in Call /\ c.pc = "store" /\ c.consented = u /\ c.refresh = d.refresh
        /\ c.database = d.database /\ c.kv = d.kv /\ c.identity = d.identity
        /\ c.key = d.key /\ c.mint = d.mint /\ c.torn = d.torn
    BY <1>2, <2>1 DEF Call
  <2> QED  BY <1>5, <1>8, <2>1, <2>2
<1> QED  BY <1>6, <1>7, <1>8
-----------------------------------------------------------------------------
(***************************************************************************)
(* The steps that return a context.                                        *)
(***************************************************************************)

\* The keys of a config secret's refresh token name its user whatever happens.
LEMMA ConfigKeysNotForeign ==
    ASSUME IInv, NoneAssumption, NEW k \in Key, k.provider = "config"
    PROVE  k \notin ForeignKeys
<1>1. SUFFICES ASSUME NEW h \in handles, h.torn \/ h.mint = None, h.key = k
               PROVE  FALSE
  BY DEF ForeignKeys
<1>2. HandleSound(h)  BY DEF IInv
<1>3. k # None  BY DEF NoneAssumption
<1>4. h.identity.provider = "config"  BY <1>1, <1>2, <1>3 DEF HandleSound
<1> QED  BY <1>1, <1>2, <1>3, <1>4 DEF HandleSound

\* What a call that is under way has in its identity.
LEMMA Identities ==
    ASSUME NEW d, CallSound(d), d.pc # "idle"
    PROVE  /\ d.identity \in Key /\ d.database \in Databases /\ Stamped(d.identity)
           /\ d.identity.provider = d.kv.provider
           /\ d.identity.material.refresh = d.kv.refresh
           /\ d.kv.provider = "config" => d.identity.material.access = d.kv.access
<1>1. /\ d.identity \in Key /\ d.database \in Databases /\ Stamped(d.identity)
      /\ d.identity = FingerprintKey(d.kv.provider,
                          IdentityMaterial(d.kv, d.identity.material.stamp))
  BY DEF CallSound
<1> QED  BY <1>1 DEF FingerprintKey, IdentityMaterial, Fields

\* A context is returned by thread t.
LEMMA ReturnKeeps ==
    ASSUME IInv, NEW t \in Threads, NEW key, NEW mint, NEW first,
           Return(t, key, mint, first),
           UNCHANGED <<secrets, file, failures, counts>>, CacheStep,
           At(t, "store") /\ call[t].refresh # None
             => AuthorizationCodeKey(call[t].refresh) \in DOMAIN cache',
           NEW h, h = [database |-> call[t].database, identity |-> call[t].identity,
                       key |-> key, mint |-> mint, first |-> first,
                       torn |-> call[t].torn],
           h \in Handle, HandleSound(h)'
    PROVE  IInv'
<1>1. Goto(t, Idle) /\ handles' = handles \cup {h}  BY DEF Return
<1>2. Becomes(t, Idle)
  BY <1>1, IdleSound, CommonParts DEF Becomes
<1>3. \A g \in handles' \ handles : g \in Handle /\ HandleSound(g)'  BY <1>1
<1> QED  BY <1>1, <1>2, <1>3, CallKeeps

\* A pasted token is used at once, or cached if nothing is.
LEMMA BuildFromConfigKeeps ==
    ASSUME IInv, AuthAssumption, NoneAssumption, NEW t \in Threads, BuildFromConfig(t)
    PROVE  IInv'
<1>1. PICK d : d = call[t]  OBVIOUS
<1>2. PICK kv : kv = d.kv  OBVIOUS
<1>3. PICK key : key = FingerprintKey("config", Fields(0, kv.refresh, kv.access))  OBVIOUS
<1>4. /\ d.pc = "build" /\ kv.provider = "config"
      /\ UNCHANGED <<secrets, file, failures, counts>>
      /\ \/ /\ kv.refresh = None
            /\ Return(t, None, None, kv.access)
            /\ UNCHANGED cache
         \/ /\ kv.refresh # None
            /\ cache' = IF kv.access # None /\ key \notin DOMAIN cache
                        THEN Stored(key, kv.access) ELSE cache
            /\ Goto(t, [d EXCEPT !.pc = "token", !.key = key, !.mint = kv.refresh[1]])
            /\ UNCHANGED handles
  BY <1>1, <1>2, <1>3 DEF BuildFromConfig, At, Provider
<1>5. d \in Call /\ CallSound(d)  BY <1>1, Calls
<1>6. /\ SecretSound(kv) /\ kv.provider \in Providers
      /\ kv.refresh \in RefreshTokens \cup {None} /\ kv.access \in Users \cup {None}
      /\ kv.refresh # None => kv.refresh[1] \in Users
  BY <1>2, <1>4, <1>5, Secrets
<1>7. /\ d.identity \in Key /\ d.database \in Databases /\ Stamped(d.identity)
      /\ d.identity.provider = "config"
      /\ d.identity.material.refresh = kv.refresh /\ d.identity.material.access = kv.access
  BY <1>2, <1>4, <1>5, Identities
<1>8. d.torn = FALSE
  BY <1>2, <1>4, <1>5 DEF CallSound, Call, FileProviders
<1>9. CASE /\ kv.refresh = None /\ Return(t, None, None, kv.access) /\ UNCHANGED cache
  <2>1. PICK h : h = [database |-> d.database, identity |-> d.identity, key |-> None,
                      mint |-> None, first |-> kv.access, torn |-> d.torn]
    OBVIOUS
  <2>2. kv.access \in Users  BY <1>4, <1>6, <1>9 DEF SecretSound
  <2>3. h \in Handle  BY <1>7, <1>8, <2>1, <2>2 DEF Handle
  <2>4. HandleSound(h)
    BY <1>7, <1>8, <1>9, <2>1 DEF HandleSound
  <2>5. HandleSound(h)'  BY <1>4, <1>9, <2>4, HandleStays
  <2>6. CacheStep  BY <1>9 DEF CacheStep
  <2>7. ~At(t, "store")  BY <1>1, <1>4 DEF At
  <2> QED  BY <1>1, <1>4, <1>9, <2>1, <2>3, <2>5, <2>6, <2>7, ReturnKeeps
<1>10. CASE /\ kv.refresh # None
            /\ cache' = IF kv.access # None /\ key \notin DOMAIN cache
                        THEN Stored(key, kv.access) ELSE cache
            /\ Goto(t, [d EXCEPT !.pc = "token", !.key = key, !.mint = kv.refresh[1]])
            /\ UNCHANGED handles
  <2>1. PICK c : c = [d EXCEPT !.pc = "token", !.key = key, !.mint = kv.refresh[1]]
    OBVIOUS
  <2>2. /\ key \in Key /\ key.provider = "config"
        /\ key.material = Fields(0, kv.refresh, kv.access)
        /\ key.material.refresh = kv.refresh
    <3>1. 0 \in 0..MaxFiles  BY DEF AuthAssumption
    <3> QED  BY <1>3, <1>4, <1>6, <3>1 DEF FingerprintKey, Fields, Key, Material
  <2>3. kv.refresh[1] \in Users /\ kv.refresh[1] # None /\ key # None
    BY <1>6, <1>10, <2>2 DEF NoneAssumption
  <2>4. /\ c \in Call /\ c.pc = "token" /\ c.key = key /\ c.mint = kv.refresh[1]
        /\ c.database = d.database /\ c.kv = kv /\ c.identity = d.identity
        /\ c.torn = d.torn /\ c.consented = d.consented /\ c.refresh = d.refresh
    BY <1>2, <1>5, <2>1, <2>2, <2>3 DEF Call
  <2>5. /\ Stamped(key) /\ \A u : Latest(key, u)
    BY <2>2 DEF Stamped, Latest, FileProviders
  <2>6. KeySound(c) /\ MintSound(c)
    BY <1>4, <1>10, <2>2, <2>4, <2>5 DEF KeySound, MintSound, FileProviders
  <2>7. CallSound(c)
    BY <1>2, <1>4, <1>5, <2>3, <2>4, <2>6 DEF CallSound
  <2>8. CacheStep
    <3>1. CASE kv.access # None /\ key \notin DOMAIN cache
      <4>1. kv.access \in Users /\ kv.access = kv.refresh[1]
        BY <1>4, <1>6, <1>10, <3>1 DEF SecretSound
      <4>2. Right(key, kv.access)  BY <2>2, <4>1 DEF Right, FileProviders
      <4>3. Stores(key, kv.access)
        BY <1>10, <2>2, <2>5, <3>1, <4>1, <4>2 DEF Stores
      <4> QED  BY <2>2, <4>1, <4>3 DEF CacheStep
    <3>2. CASE ~(kv.access # None /\ key \notin DOMAIN cache)
      BY <1>10, <3>2 DEF CacheStep
    <3> QED  BY <3>1, <3>2
  <2>9. Goto(t, c)  BY <1>10, <2>1
  <2>10. Becomes(t, c)
    BY <1>1, <1>4, <2>4, <2>7, <2>8, <2>9, CommonParts DEF Becomes, At
  <2> QED  BY <1>10, <2>10, CallKeeps
<1> QED  BY <1>4, <1>9, <1>10

\* Without a refresh token a token of an earlier consent is used.
LEMMA BuildFromAuthorizationCodeKeeps ==
    ASSUME IInv, AuthAssumption, NoneAssumption, NEW t \in Threads,
           BuildFromAuthorizationCode(t)
    PROVE  IInv'
<1>1. PICK d : d = call[t]  OBVIOUS
<1>2. PICK r : r = d.kv.refresh  OBVIOUS
<1>3. PICK key : key = AuthorizationCodeKey(r)  OBVIOUS
<1>4. /\ d.pc = "build" /\ d.kv.provider = "authorization_code"
      /\ UNCHANGED <<secrets, file, cache, failures, counts>>
      /\ \/ /\ r # None
            /\ Goto(t, [[d EXCEPT !.key = key] EXCEPT !.pc = "token", !.mint = r[1]])
            /\ UNCHANGED handles
         \/ /\ r = None /\ TryFresh(key)
            /\ Return(t, key, None, cache[key].user)
         \/ /\ r = None
            /\ Goto(t, [[d EXCEPT !.key = key] EXCEPT !.pc = "consent"])
            /\ UNCHANGED handles
  BY <1>1, <1>2, <1>3 DEF BuildFromAuthorizationCode, At, Provider
<1>5. d \in Call /\ CallSound(d)  BY <1>1, Calls
<1>6. /\ d.kv.provider \in Providers /\ r \in RefreshTokens \cup {None}
      /\ r # None => r[1] \in Users
  BY <1>2, <1>4, <1>5, Secrets
<1>7. /\ d.identity \in Key /\ d.database \in Databases /\ Stamped(d.identity)
      /\ d.identity.provider = "authorization_code"
  BY <1>4, <1>5, Identities
<1>8. /\ key \in Key /\ key.provider = "authorization_code"
      /\ key.material.refresh = r
  <2>1. 0 \in 0..MaxFiles  BY DEF AuthAssumption
  <2> QED  BY <1>3, <1>4, <1>6, <2>1 DEF AuthorizationCodeKey, FingerprintKey, Fields,
                                         Key, Material
<1>9. key # None /\ Stamped(key) /\ \A u : Latest(key, u)
  BY <1>8 DEF NoneAssumption, Stamped, Latest, FileProviders
<1>10. CASE r = None /\ TryFresh(key) /\ Return(t, key, None, cache[key].user)
  <2>1. PICK h : h = [database |-> d.database, identity |-> d.identity, key |-> key,
                      mint |-> None, first |-> cache[key].user, torn |-> d.torn]
    OBVIOUS
  <2>2. key \in DOMAIN cache /\ cache[key].user \in Users
    BY <1>10 DEF TryFresh, IInv, TypeOK
  <2>3. h \in Handle  BY <1>5, <1>7, <1>8, <2>1, <2>2 DEF Handle, Call
  <2>4. HandleSound(h)
    BY <1>7, <1>8, <1>9, <2>1, <2>2 DEF HandleSound
  <2>5. HandleSound(h)'  BY <1>4, <2>4, HandleStays
  <2>6. CacheStep  BY <1>4 DEF CacheStep
  <2>7. ~At(t, "store")  BY <1>1, <1>4 DEF At
  <2> QED  BY <1>1, <1>4, <1>10, <2>1, <2>3, <2>5, <2>6, <2>7, ReturnKeeps
<1>11. ASSUME NEW c \in Call, Goto(t, c), UNCHANGED handles, c.key = key,
              c.database = d.database, c.kv = d.kv, c.identity = d.identity,
              c.torn = d.torn, c.refresh = d.refresh,
              \/ c.pc = "token" /\ r # None /\ c.mint = r[1]
              \/ c.pc = "consent" /\ c.mint = d.mint
       PROVE  IInv'
  <2>1. KeySound(c)
    BY <1>2, <1>3, <1>4, <1>8, <1>9, <1>11 DEF KeySound, FileProviders
  <2>2. c.mint # None => MintSound(c)
    BY <1>2, <1>4, <1>5, <1>9, <1>11 DEF MintSound, CallSound, FileProviders
  <2>3. c.pc = "token" => c.mint # None
    BY <1>6, <1>11 DEF NoneAssumption
  <2>4. CallSound(c)
    BY <1>4, <1>5, <1>9, <1>11, <2>1, <2>2, <2>3 DEF CallSound
  <2>5. Becomes(t, c)
    BY <1>1, <1>4, <1>11, <2>4, CommonParts DEF Becomes, CacheStep, At
  <2> QED  BY <1>11, <2>5, CallKeeps
<1>12. CASE /\ r # None /\ UNCHANGED handles
            /\ Goto(t, [[d EXCEPT !.key = key] EXCEPT !.pc = "token", !.mint = r[1]])
  <2>1. PICK c : c = [[d EXCEPT !.key = key] EXCEPT !.pc = "token", !.mint = r[1]]
    OBVIOUS
  <2>2. /\ c \in Call /\ c.pc = "token" /\ c.key = key /\ c.mint = r[1]
        /\ c.database = d.database /\ c.kv = d.kv /\ c.identity = d.identity
        /\ c.torn = d.torn /\ c.refresh = d.refresh
    BY <1>5, <1>6, <1>8, <1>12, <2>1 DEF Call
  <2>3. Goto(t, c)  BY <1>12, <2>1
  <2> QED  BY <1>11, <1>12, <2>2, <2>3
<1>13. CASE /\ Goto(t, [[d EXCEPT !.key = key] EXCEPT !.pc = "consent"])
            /\ UNCHANGED handles
  <2>1. PICK c : c = [[d EXCEPT !.key = key] EXCEPT !.pc = "consent"]  OBVIOUS
  <2>2. /\ c \in Call /\ c.pc = "consent" /\ c.key = key /\ c.mint = d.mint
        /\ c.database = d.database /\ c.kv = d.kv /\ c.identity = d.identity
        /\ c.torn = d.torn /\ c.refresh = d.refresh
    BY <1>5, <1>8, <2>1 DEF Call
  <2>3. Goto(t, c)  BY <1>13, <2>1
  <2> QED  BY <1>11, <1>13, <2>2, <2>3
<1> QED  BY <1>4, <1>10, <1>12, <1>13

\* A resolution with a key and a credential returns a context of its user.
LEMMA TokenReturns ==
    ASSUME IInv, AuthAssumption, NoneAssumption, NEW d \in Call, CallSound(d),
           d.pc = "token", file' = file, DOMAIN cache \subseteq DOMAIN cache',
           d.key \in DOMAIN cache',
           NEW first \in Users,
           d.kv.provider = "config" => first = d.mint,
           d.kv.provider = "service_account" /\ ~d.torn => first = d.mint,
           NEW h, h = [database |-> d.database, identity |-> d.identity, key |-> d.key,
                       mint |-> d.mint, first |-> first, torn |-> d.torn]
    PROVE  h \in Handle /\ HandleSound(h)'
<1>1. /\ d.key # None /\ d.mint # None /\ d.key \in Key /\ d.mint \in Users
      /\ d.torn \in BOOLEAN /\ KeySound(d) /\ MintSound(d)
  BY DEF CallSound, Call
<1>2. /\ d.identity \in Key /\ d.database \in Databases /\ Stamped(d.identity)
      /\ d.identity.provider = d.kv.provider
      /\ d.identity.material.refresh = d.kv.refresh
  BY Identities
<1>3. /\ d.kv.provider \in {"service_account", "credential_chain", "config",
                            "authorization_code"}
  BY Secrets
<1>4. h \in Handle  BY <1>1, <1>2 DEF Handle
<1>5. d.key.provider = d.kv.provider /\ Stamped(d.key)  BY <1>1 DEF KeySound
<1>6. d.kv.provider \notin FileProviders =>
        /\ d.kv.refresh # None /\ d.mint = d.kv.refresh[1]
        /\ d.key.material.refresh = d.kv.refresh
  BY <1>1, <1>3
     DEF KeySound, MintSound, FileProviders, AuthorizationCodeKey, FingerprintKey, Fields
<1>7. d.torn \/ Right(d.key, d.mint)
  BY <1>1, <1>5, <1>6 DEF Right, KeySound, MintSound, FileProviders, OnDisk
<1>8. Latest(d.key, d.mint)  BY <1>1 DEF MintSound
<1>9. d.kv.provider = "config" =>
        ~d.torn /\ first = d.kv.refresh[1] /\ d.kv.refresh # None
  BY <1>6 DEF CallSound, FileProviders
<1>10. d.kv.provider = "service_account" /\ ~d.torn =>
         first = d.mint /\ first = file[d.identity.material.stamp]
  <2>1. d.kv.provider = "service_account" /\ ~d.torn =>
          d.identity.material.stamp = Len(file) /\ d.mint = OnDisk
    BY <1>1 DEF CallSound, MintSound, FileProviders
  <2> QED  BY <2>1 DEF OnDisk
<1>11. /\ Right(d.key, d.mint)' <=> Right(d.key, d.mint)
       /\ Latest(d.key, d.mint)' <=> Latest(d.key, d.mint)
       /\ Stamped(d.key)' <=> Stamped(d.key)
       /\ Stamped(d.identity)' <=> Stamped(d.identity)
  BY SameFile
<1>12. /\ h.identity = d.identity /\ h.key = d.key /\ h.mint = d.mint
       /\ h.first = first /\ h.torn = d.torn
  OBVIOUS
<1>13. HandleSound(h)'
  <2>1. Stamped(h.identity)'  BY <1>2, <1>11, <1>12
  <2>2. /\ h.key \in DOMAIN cache' /\ Stamped(h.key)'
        /\ h.key.provider = h.identity.provider
    BY <1>2, <1>5, <1>11, <1>12
  <2>3. /\ h.key # None
        /\ h.torn \/ Right(h.key, h.mint)'
        /\ Latest(h.key, h.mint)'
        /\ h.key.provider \notin FileProviders => h.key.material.refresh # None
    BY <1>1, <1>5, <1>6, <1>7, <1>8, <1>11, <1>12
  <2>4. h.identity.provider = "config" =>
          /\ ~h.torn /\ (h.key # None => h.mint # None)
          /\ h.first = IF h.identity.material.refresh = None
                       THEN h.identity.material.access
                       ELSE h.identity.material.refresh[1]
    BY <1>1, <1>2, <1>9, <1>12
  <2>5. h.identity.provider = "service_account" /\ ~h.torn =>
          h.first = h.mint /\ h.first = file'[h.identity.material.stamp]
    BY <1>2, <1>10, <1>12
  <2> QED  BY <2>1, <2>2, <2>3, <2>4, <2>5 DEF HandleSound
<1> QED  BY <1>4, <1>13

\* A token in the cache is of the user the key names.
LEMMA TokenCachedKeeps ==
    ASSUME IInv, AuthAssumption, NoneAssumption, NEW t \in Threads, TokenCached(t)
    PROVE  IInv'
<1>1. PICK d : d = call[t]  OBVIOUS
<1>2. PICK u : u = cache[d.key].user  OBVIOUS
<1>3. /\ d.pc = "token" /\ d.key \in DOMAIN cache /\ Return(t, d.key, d.mint, u)
      /\ UNCHANGED <<secrets, file, cache, failures, counts>>
  BY <1>1, <1>2 DEF TokenCached, At, TryFresh
<1>4. d \in Call /\ CallSound(d)  BY <1>1, Calls
<1>5. /\ u \in Users /\ d.key \in Key
      /\ d.key \in ForeignKeys \/ Right(d.key, u)
      /\ Latest(d.key, u)
  BY <1>2, <1>3 DEF IInv, TypeOK, EntrySound
<1>6. /\ d.key # None /\ d.mint # None /\ KeySound(d) /\ MintSound(d)
  BY <1>3, <1>4 DEF CallSound
<1>7. d.key.provider = d.kv.provider  BY <1>6 DEF KeySound
<1>8. d.kv.provider = "config" => u = d.mint
  <2>1. SUFFICES ASSUME d.kv.provider = "config" PROVE u = d.mint  OBVIOUS
  <2>2. d.key \notin ForeignKeys  BY <1>5, <1>7, <2>1, ConfigKeysNotForeign
  <2>3. d.key.material.refresh = d.kv.refresh /\ d.mint = d.kv.refresh[1]
    BY <1>6, <2>1 DEF KeySound, MintSound, FileProviders, Fields
  <2> QED  BY <1>5, <1>7, <2>1, <2>2, <2>3 DEF Right
<1>9. d.kv.provider = "service_account" /\ ~d.torn => u = d.mint
  BY <1>5, <1>6, <1>7 DEF KeySound, MintSound, Latest, FileProviders
<1>10. PICK h : h = [database |-> d.database, identity |-> d.identity, key |-> d.key,
                     mint |-> d.mint, first |-> u, torn |-> d.torn]
  OBVIOUS
<1>11. h \in Handle /\ HandleSound(h)'
  BY <1>3, <1>4, <1>5, <1>8, <1>9, <1>10, TokenReturns
<1>12. CacheStep  BY <1>3 DEF CacheStep
<1>13. ~At(t, "store")  BY <1>1, <1>3 DEF At
<1> QED  BY <1>1, <1>3, <1>10, <1>11, <1>12, <1>13, ReturnKeeps

\* A minted token is of the user of the credential; after a replacement of the
\* file the key is foreign from now on.
LEMMA TokenMintedKeeps ==
    ASSUME IInv, AuthAssumption, NoneAssumption, NEW t \in Threads, TokenMinted(t)
    PROVE  IInv'
<1>1. PICK d : d = call[t]  OBVIOUS
<1>2. /\ d.pc = "token" /\ cache' = Stored(d.key, d.mint)
      /\ Return(t, d.key, d.mint, d.mint)
      /\ UNCHANGED <<secrets, file, failures, counts>>
  BY <1>1 DEF TokenMinted, At
<1>3. d \in Call /\ CallSound(d)  BY <1>1, Calls
<1>4. /\ d.key # None /\ d.mint # None /\ KeySound(d) /\ MintSound(d)
      /\ d.key \in Key /\ d.mint \in Users
  BY <1>2, <1>3 DEF CallSound, Call
<1>5. DOMAIN cache' = DOMAIN cache \cup {d.key}  BY <1>2 DEF Stored
<1>6. PICK h : h = [database |-> d.database, identity |-> d.identity, key |-> d.key,
                    mint |-> d.mint, first |-> d.mint, torn |-> d.torn]
  OBVIOUS
<1>7. h \in Handle /\ HandleSound(h)'
  BY <1>2, <1>3, <1>4, <1>5, <1>6, TokenReturns
<1>8. handles' = handles \cup {h}  BY <1>1, <1>2, <1>6 DEF Return
<1>9. h.torn = d.torn /\ h.key = d.key /\ h.mint = d.mint  BY <1>6
<1>10. h.torn \/ Right(d.key, d.mint)
  <2>1. h.torn \/ Right(d.key, d.mint)'
    BY <1>4, <1>7, <1>9 DEF HandleSound
  <2> QED  BY <1>2, <2>1, SameFile
<1>11. h.torn => d.key \in ForeignKeys'  BY <1>8, <1>9 DEF ForeignKeys
<1>12. Stamped(d.key) /\ Latest(d.key, d.mint)  BY <1>4 DEF KeySound, MintSound
<1>13. Stores(d.key, d.mint)  BY <1>2, <1>4, <1>10, <1>11, <1>12 DEF Stores
<1>14. CacheStep  BY <1>4, <1>13 DEF CacheStep
<1>15. ~At(t, "store")  BY <1>1, <1>2 DEF At
<1> QED  BY <1>1, <1>2, <1>6, <1>7, <1>14, <1>15, ReturnKeeps

\* The secret is written back while its token is about to be stored.
LEMMA PersistKeeps ==
    ASSUME IInv, AuthAssumption, NoneAssumption, NEW t \in Threads, Persist(t)
    PROVE  IInv'
<1>1. PICK d : d = call[t]  OBVIOUS
<1>2. PICK c : c = [d EXCEPT !.pc = "store"]  OBVIOUS
<1>3. PICK s : s = [d.kv EXCEPT !.refresh = d.refresh, !.access = d.consented]  OBVIOUS
<1>4. /\ d.pc = "persist" /\ Goto(t, c)
      /\ secrets' = [secrets EXCEPT ![d.database] = s]
      /\ UNCHANGED <<file, cache, failures, handles, counts>>
  BY <1>1, <1>2, <1>3 DEF Persist, At
<1>5. d \in Call /\ CallSound(d)  BY <1>1, Calls
<1>6. /\ c \in Call /\ c.pc = "store" /\ c.database = d.database /\ c.kv = d.kv
      /\ c.identity = d.identity /\ c.key = d.key /\ c.mint = d.mint /\ c.torn = d.torn
      /\ c.consented = d.consented /\ c.refresh = d.refresh
  BY <1>2, <1>5 DEF Call
<1>7. CallSound(c)
  <2>1. /\ c.key # None => KeySound(c)
        /\ c.mint # None => MintSound(c)
    BY <1>4, <1>5, <1>6 DEF CallSound, KeySound, MintSound
  <2> QED  BY <1>4, <1>5, <1>6, <2>1 DEF CallSound
<1>8. /\ d.kv.provider = "authorization_code" /\ d.database \in Databases
      /\ d.kv \in Secret
      /\ d.refresh \in RefreshTokens \cup {None} /\ d.consented \in Users \cup {None}
  BY <1>4, <1>5 DEF CallSound, Call
<1>9. s \in Secret /\ s.provider = "authorization_code" /\ s.refresh = d.refresh
  BY <1>3, <1>8 DEF Secret
<1>10. SecretSound(s)  BY <1>9 DEF SecretSound
<1>11. Becomes(t, c)
  BY <1>1, <1>4, <1>6, <1>7, <1>8, <1>9, <1>10, CommonParts DEF Becomes, CacheStep, At
<1> QED  BY <1>4, <1>11, CallKeeps

\* The token of the consent is stored under the key of the secret as written, or
\* under a key that is foreign from now on.
LEMMA StoreConsentedKeeps ==
    ASSUME IInv, AuthAssumption, NoneAssumption, NEW t \in Threads, StoreConsented(t)
    PROVE  IInv'
<1>1. PICK d : d = call[t]  OBVIOUS
<1>2. PICK k : k = IF d.refresh = None THEN d.key ELSE AuthorizationCodeKey(d.refresh)
  OBVIOUS
<1>3. PICK m : m = IF d.refresh = None THEN None ELSE d.refresh[1]  OBVIOUS
<1>4. /\ d.pc = "store" /\ cache' = Stored(k, d.consented)
      /\ Return(t, k, m, d.consented)
      /\ UNCHANGED <<secrets, file, failures, counts>>
  BY <1>1, <1>2, <1>3 DEF StoreConsented, FlowKey, At
<1>5. d \in Call /\ CallSound(d)  BY <1>1, Calls
<1>6. /\ d.kv.provider = "authorization_code" /\ d.key # None /\ d.consented # None
      /\ d.refresh \in RefreshTokens \cup {None} /\ d.consented \in Users
      /\ d.refresh # None => d.refresh[1] = d.consented
      /\ d.key \in Key /\ KeySound(d) /\ d.torn \in BOOLEAN
  BY <1>4, <1>5 DEF CallSound, Call
<1>7. "authorization_code" \in Providers  BY <1>4, <1>5, <1>6, Secrets
<1>8. /\ d.identity \in Key /\ d.database \in Databases /\ Stamped(d.identity)
      /\ d.identity.provider = "authorization_code"
  BY <1>4, <1>5, <1>6, Identities
<1>9. k \in Key /\ k.provider = "authorization_code"
  <2>1. CASE d.refresh = None
    BY <1>2, <1>6, <2>1 DEF KeySound
  <2>2. CASE d.refresh # None
    <3>1. 0 \in 0..MaxFiles  BY DEF AuthAssumption
    <3> QED  BY <1>2, <1>6, <1>7, <2>2, <3>1
             DEF AuthorizationCodeKey, FingerprintKey, Fields, Key, Material
  <2> QED  BY <2>1, <2>2
<1>10. k # None /\ Stamped(k) /\ \A u : Latest(k, u)
  BY <1>9 DEF NoneAssumption, Stamped, Latest, FileProviders
<1>11. m # None => m = d.consented /\ k.material.refresh # None /\ Right(k, m)
  <2>1. SUFFICES ASSUME m # None
                 PROVE  m = d.consented /\ k.material.refresh # None /\ Right(k, m)
    OBVIOUS
  <2>2. d.refresh # None /\ m = d.refresh[1]  BY <1>3, <2>1
  <2>3. k.material.refresh = d.refresh
    BY <1>2, <2>2 DEF AuthorizationCodeKey, FingerprintKey, Fields
  <2> QED  BY <1>6, <1>9, <2>2, <2>3 DEF Right, FileProviders
<1>12. m \in Users \cup {None} /\ (m = None <=> d.refresh = None)
  BY <1>3, <1>6
<1>13. PICK h : h = [database |-> d.database, identity |-> d.identity, key |-> k,
                     mint |-> m, first |-> d.consented, torn |-> d.torn]
  OBVIOUS
<1>14. /\ h.identity = d.identity /\ h.key = k /\ h.mint = m
       /\ h.first = d.consented /\ h.torn = d.torn
  BY <1>13
<1>15. h \in Handle  BY <1>6, <1>8, <1>9, <1>12, <1>13 DEF Handle
<1>16. DOMAIN cache' = DOMAIN cache \cup {k}  BY <1>4 DEF Stored
<1>17. HandleSound(h)'
  <2>1. Stamped(h.identity)' /\ Stamped(h.key)' /\ \A u : Latest(h.key, u)'
    BY <1>4, <1>8, <1>10, <1>14, SameFile
  <2>2. h.mint # None => Right(h.key, h.mint)'
    BY <1>4, <1>11, <1>14, SameFile
  <2> QED  BY <1>8, <1>9, <1>10, <1>11, <1>14, <1>16, <2>1, <2>2 DEF HandleSound
<1>18. Right(k, d.consented) \/ k \in ForeignKeys'
  <2>1. handles' = handles \cup {h}  BY <1>1, <1>4, <1>13 DEF Return
  <2>2. CASE m = None  BY <1>14, <2>1, <2>2 DEF ForeignKeys
  <2>3. CASE m # None  BY <1>11, <2>3
  <2> QED  BY <2>2, <2>3
<1>19. Stores(k, d.consented)  BY <1>4, <1>6, <1>9, <1>10, <1>18 DEF Stores
<1>20. CacheStep  BY <1>6, <1>9, <1>19 DEF CacheStep
<1>21. d.refresh # None => AuthorizationCodeKey(d.refresh) \in DOMAIN cache'
  BY <1>2, <1>16
<1> QED  BY <1>1, <1>4, <1>13, <1>15, <1>17, <1>20, <1>21, ReturnKeeps
-----------------------------------------------------------------------------
(***************************************************************************)
(* The steps of handles, of time and of users.                             *)
(***************************************************************************)

\* A step that leaves calls and contexts alone; a secret that it creates has no
\* refresh token of a consent.
LEMMA OthersKeep ==
    ASSUME IInv, UNCHANGED <<file, call, handles>>,
           secrets' \in [Databases -> Secret],
           \A d \in Databases :
              \/ secrets'[d] = secrets[d]
              \/ /\ SecretSound(secrets'[d])
                 /\ secrets'[d].refresh # None => ~(secrets'[d].refresh[2] > 0),
           DOMAIN cache \subseteq DOMAIN cache', DOMAIN cache' \subseteq Key,
           \A k \in DOMAIN cache' : cache'[k] \in [user : Users, fresh : BOOLEAN],
           \A k \in DOMAIN cache' : EntrySound(k)',
           failures' \subseteq Key,
           counts' \in [recreations : 0..MaxRecreations, resolutions : 0..MaxResolutions,
                        consents : 0..MaxConsents, lapses : 0..MaxLapses]
    PROVE  IInv'
<1>1. \A t \in Threads : CallSound(call[t])'
  <2>1. SUFFICES ASSUME NEW t \in Threads PROVE CallSound(call[t])'  OBVIOUS
  <2>2. PICK c : c = call[t]  OBVIOUS
  <2>3. CallSound(c)'  BY <2>2, SameFile DEF IInv
  <2> QED  BY <2>2, <2>3
<1>2. \A h \in handles' : HandleSound(h)'  BY HandleStays DEF IInv
<1>3. TypeOK'
  <2>1. \A h \in handles' : h.key # None => h.key \in DOMAIN cache'
    BY <1>2 DEF HandleSound
  <2> QED  BY <2>1 DEF IInv, TypeOK
<1>4. ASSUME NEW d \in Databases
      PROVE  SecretSound(secrets[d])' /\ ConsentStored(secrets[d].refresh)'
  <2>1. CASE secrets'[d] = secrets[d]
    <3>1. SecretSound(secrets[d]) /\ ConsentStored(secrets[d].refresh)  BY DEF IInv
    <3>2. PICK r : r = secrets[d].refresh  OBVIOUS
    <3>3. AuthorizationCodeKey(r)' = AuthorizationCodeKey(r)
      BY DEF AuthorizationCodeKey, FingerprintKey, Fields
    <3>4. ConsentStored(r)'  BY <3>1, <3>2, <3>3 DEF ConsentStored, At
    <3> QED  BY <2>1, <3>1, <3>2, <3>4 DEF SecretSound
  <2>2. CASE /\ SecretSound(secrets'[d])
             /\ secrets'[d].refresh # None => ~(secrets'[d].refresh[2] > 0)
    BY <2>2 DEF SecretSound, ConsentStored
  <2> QED  BY <2>1, <2>2
<1> QED  BY <1>1, <1>2, <1>3, <1>4 DEF IInv

\* A mint for an open handle stores a token of its own user.
LEMMA HandleMintsKeeps ==
    ASSUME IInv, NEW h \in handles, HandleMints(h)
    PROVE  IInv'
<1>1. /\ h.mint # None /\ UNCHANGED <<secrets, file, call, handles, counts>>
      /\ \/ cache' = Stored(h.key, h.mint) /\ failures' = failures
         \/ cache' = cache /\ failures' = failures \cup {h.key}
  BY DEF HandleMints
<1>2. h \in Handle /\ HandleSound(h)  BY DEF IInv, TypeOK
<1>3. h.key # None /\ h.key \in Key /\ h.mint \in Users
  BY <1>1, <1>2 DEF HandleSound, Handle
<1>4. Right(h.key, h.mint) \/ h.key \in ForeignKeys'
  <2>1. CASE h.torn  BY <1>1, <2>1 DEF ForeignKeys
  <2>2. CASE ~h.torn  BY <1>1, <1>2, <2>2 DEF HandleSound
  <2> QED  BY <2>1, <2>2
<1>5. Stamped(h.key) /\ Latest(h.key, h.mint)  BY <1>1, <1>2, <1>3 DEF HandleSound
<1>6. CacheStep  BY <1>1, <1>3, <1>4, <1>5 DEF CacheStep, Stores
<1>7. failures' \subseteq Key  BY <1>1, <1>3, CommonParts
<1>8. secrets' \in [Databases -> Secret]  BY <1>1 DEF IInv, TypeOK
<1> QED  BY <1>1, <1>6, <1>7, <1>8, CacheKeeps, CommonParts, OthersKeep

\* A token that has run out is still of its user.
LEMMA LapseKeeps ==
    ASSUME IInv, AuthAssumption, NEW k \in DOMAIN cache, Lapse(k)
    PROVE  IInv'
<1>1. /\ cache' = [cache EXCEPT ![k].fresh = FALSE]
      /\ UNCHANGED <<secrets, file, failures, call, handles>>
      /\ counts.lapses < MaxLapses /\ counts' = [counts EXCEPT !.lapses = @ + 1]
  BY DEF Lapse, Counted
<1>2. /\ DOMAIN cache \subseteq Key
      /\ \A j \in DOMAIN cache : cache[j] \in [user : Users, fresh : BOOLEAN]
      /\ \A j \in DOMAIN cache : EntrySound(j)
      /\ secrets \in [Databases -> Secret]
  BY DEF IInv, TypeOK
<1>3. DOMAIN cache' = DOMAIN cache  BY <1>1
<1>4. \A j \in DOMAIN cache :
        cache'[j].user = cache[j].user /\ cache'[j] \in [user : Users, fresh : BOOLEAN]
  <2>1. SUFFICES ASSUME NEW j \in DOMAIN cache
                 PROVE  /\ cache'[j].user = cache[j].user
                        /\ cache'[j] \in [user : Users, fresh : BOOLEAN]
    OBVIOUS
  <2>2. cache[j] \in [user : Users, fresh : BOOLEAN]  BY <1>2
  <2>3. cache'[j] = IF j = k THEN [cache[j] EXCEPT !.fresh = FALSE] ELSE cache[j]
    BY <1>1
  <2> QED  BY <2>2, <2>3
<1>5. ForeignKeys' = ForeignKeys  BY <1>1 DEF ForeignKeys
<1>6. \A j \in DOMAIN cache' : EntrySound(j)'
  BY <1>1, <1>2, <1>3, <1>4, <1>5, SameFile DEF EntrySound
<1>7. counts' \in [recreations : 0..MaxRecreations, resolutions : 0..MaxResolutions,
                   consents : 0..MaxConsents, lapses : 0..MaxLapses]
  BY <1>1, CommonParts DEF AuthAssumption
<1> QED  BY <1>1, <1>2, <1>3, <1>4, <1>6, <1>7, CommonParts, OthersKeep

LEMMA BackoffEndsKeeps ==
    ASSUME IInv, NEW k \in failures, BackoffEnds(k)
    PROVE  IInv'
<1>1. /\ failures' = failures \ {k}
      /\ UNCHANGED <<secrets, file, cache, call, handles, counts>>
  BY DEF BackoffEnds
<1>2. CacheStep /\ secrets' \in [Databases -> Secret]
  BY <1>1 DEF CacheStep, IInv, TypeOK
<1> QED  BY <1>1, <1>2, CacheKeeps, CommonParts, OthersKeep

\* What CREATE SECRET makes.
LEMMA NewSecretsSound ==
    ASSUME AuthAssumption, NoneAssumption, NEW s \in NewSecrets
    PROVE  /\ s \in Secret /\ SecretSound(s)
           /\ s.refresh # None => ~(s.refresh[2] > 0)
<1>1. \A u \in Users : <<u, 0>> \in RefreshTokens /\ <<u, 0>> # None /\ u # None
  BY DEF RefreshTokens, AuthAssumption, NoneAssumption
<1>2. s.provider \in Providers  BY DEF NewSecrets
<1>3. CASE s \in CreateConfigSecret
  <2>1. PICK u \in Users : \/ s = SecretOf("config", None, u)
                           \/ s = SecretOf("config", <<u, 0>>, None)
                           \/ s = SecretOf("config", <<u, 0>>, u)
    BY <1>3 DEF CreateConfigSecret
  <2>2. PICK r : r = <<u, 0>>  OBVIOUS
  <2>3. r \in RefreshTokens /\ r # None /\ u # None /\ r[1] = u /\ ~(r[2] > 0)
    BY <1>1, <2>2
  <2> QED  BY <1>2, <2>1, <2>2, <2>3 DEF SecretOf, Secret, SecretSound
<1>4. CASE s \in CreateServiceAccountSecret
  BY <1>2, <1>4 DEF CreateServiceAccountSecret, SecretOf, Secret, SecretSound
<1>5. CASE s \in CreateCredentialChainSecret
  BY <1>2, <1>5 DEF CreateCredentialChainSecret, SecretOf, Secret, SecretSound
<1>6. CASE s \in CreateAuthorizationCodeSecret
  <2>1. PICK r \in (Users \X {0}) \cup {None} : s = SecretOf("authorization_code", r, None)
    BY <1>6 DEF CreateAuthorizationCodeSecret
  <2>2. r \in RefreshTokens \cup {None} /\ (r # None => ~(r[2] > 0))
    BY <2>1 DEF RefreshTokens, AuthAssumption
  <2> QED  BY <1>2, <2>1, <2>2 DEF SecretOf, Secret, SecretSound
<1> QED  BY <1>3, <1>4, <1>5, <1>6 DEF NewSecrets

LEMMA CreateOrReplaceSecretKeeps ==
    ASSUME IInv, AuthAssumption, NoneAssumption,
           NEW d \in Databases, NEW s \in NewSecrets, CreateOrReplaceSecret(d, s)
    PROVE  IInv'
<1>1. /\ secrets' = [secrets EXCEPT ![d] = s]
      /\ UNCHANGED <<file, cache, failures, call, handles>>
      /\ counts.recreations < MaxRecreations
      /\ counts' = [counts EXCEPT !.recreations = @ + 1]
  BY DEF CreateOrReplaceSecret, Counted
<1>2. /\ s \in Secret /\ SecretSound(s) /\ (s.refresh # None => ~(s.refresh[2] > 0))
  BY NewSecretsSound
<1>3. /\ secrets' \in [Databases -> Secret]
      /\ \A e \in Databases : secrets'[e] = secrets[e] \/ secrets'[e] = s
  BY <1>1, <1>2 DEF IInv, TypeOK
<1>4. \A e \in Databases :
        \/ secrets'[e] = secrets[e]
        \/ /\ SecretSound(secrets'[e])
           /\ secrets'[e].refresh # None => ~(secrets'[e].refresh[2] > 0)
  BY <1>2, <1>3
<1>5. counts' \in [recreations : 0..MaxRecreations, resolutions : 0..MaxResolutions,
                   consents : 0..MaxConsents, lapses : 0..MaxLapses]
  BY <1>1, CommonParts DEF AuthAssumption
<1>6. CacheStep  BY <1>1 DEF CacheStep
<1> QED  BY <1>1, <1>3, <1>4, <1>5, <1>6, CacheKeeps, CommonParts, OthersKeep

\* A new version of the file: older keys go on naming the users of their versions,
\* and no key is the latest yet.
LEMMA ReplaceFileKeeps ==
    ASSUME IInv, AuthAssumption, NoneAssumption, NEW v \in Users, ReplaceFile(v)
    PROVE  IInv'
<1>1. /\ Len(file) < MaxFiles /\ file' = Append(file, v)
      /\ call' = [t \in Threads |->
            [call[t] EXCEPT !.torn =
                @ \/ (call[t].pc # "idle" /\ call[t].kv.provider \in FileProviders)]]
      /\ UNCHANGED <<secrets, cache, failures, handles, counts>>
  BY DEF ReplaceFile, At, Provider
<1>2. file \in Seq(Users) /\ Len(file) \in Nat /\ Len(file) \in 1..MaxFiles
  BY Files DEF IInv, TypeOK
<1>3. /\ file' \in Seq(Users) /\ Len(file') = Len(file) + 1
      /\ \A n \in 1..Len(file) : file'[n] = file[n]
  BY <1>1, <1>2, AppendProperties
<1>4. Len(file') \in 1..MaxFiles  BY <1>1, <1>2, <1>3 DEF AuthAssumption
<1>5. \A k : Stamped(k) => Stamped(k)'
  <2>1. \A n \in 1..Len(file) : n \in 1..Len(file')  BY <1>2, <1>3
  <2> QED  BY <2>1 DEF Stamped
<1>6. \A k, u : Stamped(k) /\ Right(k, u) => Right(k, u)'
  BY <1>3 DEF Stamped, Right
<1>7. \A k, u : Stamped(k) => Latest(k, u)'
  <2>1. \A n \in 1..Len(file) : n # Len(file')  BY <1>2, <1>3
  <2> QED  BY <2>1 DEF Stamped, Latest, FileProviders
<1>8. ASSUME NEW t \in Threads
      PROVE  call'[t] \in Call /\ CallSound(call[t])'
  <2>1. PICK d : d = call[t]  OBVIOUS
  <2>2. PICK c : c = [d EXCEPT !.torn =
                  @ \/ (d.pc # "idle" /\ d.kv.provider \in FileProviders)]
    OBVIOUS
  <2>3. call'[t] = c  BY <1>1, <2>1, <2>2
  <2>4. d \in Call /\ CallSound(d)  BY <2>1, Calls
  <2>5. /\ c \in Call /\ c.pc = d.pc
        /\ c.database = d.database /\ c.kv = d.kv /\ c.identity = d.identity
        /\ c.key = d.key /\ c.mint = d.mint /\ c.consented = d.consented
        /\ c.refresh = d.refresh
        /\ c.torn <=> d.torn \/ (d.pc # "idle" /\ d.kv.provider \in FileProviders)
    BY <2>2, <2>4 DEF Call
  <2>6. CASE d.pc = "idle"  BY <2>3, <2>5, <2>6 DEF CallSound
  <2>7. CASE d.pc # "idle"
    <3>1. c.kv.provider \in FileProviders => c.torn  BY <2>5, <2>7
    <3>2. c.key # None => KeySound(c)'
      BY <1>5, <2>4, <2>5, <2>7, <3>1
         DEF CallSound, KeySound, AuthorizationCodeKey, FingerprintKey, Fields
    <3>3. c.mint # None => MintSound(c)'
      BY <1>7, <2>4, <2>5, <2>7, <3>1 DEF CallSound, KeySound, MintSound
    <3>4. Stamped(c.identity)'  BY <1>5, <2>4, <2>5, <2>7 DEF CallSound
    <3>5. c.kv.provider \notin FileProviders => ~c.torn
      BY <2>4, <2>5, <2>7 DEF CallSound
    <3>6. CallSound(c)'
      BY <2>4, <2>5, <2>7, <3>1, <3>2, <3>3, <3>4, <3>5 DEF CallSound
    <3> QED  BY <2>3, <2>5, <3>6
  <2> QED  BY <2>6, <2>7
<1>9. ASSUME NEW h \in handles PROVE HandleSound(h)'
  <2>1. HandleSound(h) /\ h \in Handle  BY DEF IInv, TypeOK
  <2>2. h.identity.provider = "service_account" =>
          file'[h.identity.material.stamp] = file[h.identity.material.stamp]
    BY <1>3, <2>1 DEF HandleSound, Stamped, FileProviders
  <2>3. h.key # None => Stamped(h.key)  BY <2>1 DEF HandleSound
  <2> QED  BY <1>1, <1>5, <1>6, <1>7, <2>1, <2>2, <2>3 DEF HandleSound
<1>10. ForeignKeys' = ForeignKeys  BY <1>1 DEF ForeignKeys
<1>11. ASSUME NEW k \in DOMAIN cache PROVE EntrySound(k)'
  <2>1. EntrySound(k)  BY DEF IInv
  <2> QED  BY <1>1, <1>5, <1>6, <1>7, <1>10, <2>1 DEF EntrySound
<1>12. call' \in [Threads -> Call]  BY <1>1, <1>8
<1>13. TypeOK'  BY <1>1, <1>3, <1>4, <1>12 DEF IInv, TypeOK
<1>14. ASSUME NEW d \in Databases
       PROVE  SecretSound(secrets[d])' /\ ConsentStored(secrets[d].refresh)'
  <2>1. PICK r : r = secrets[d].refresh  OBVIOUS
  <2>2. SecretSound(secrets[d]) /\ ConsentStored(r)  BY <2>1 DEF IInv
  <2>3. \A t \in Threads : call'[t].pc = call[t].pc /\ call'[t].refresh = call[t].refresh
    BY <1>1 DEF IInv, TypeOK, Call
  <2>4. AuthorizationCodeKey(r)' = AuthorizationCodeKey(r)
    BY DEF AuthorizationCodeKey, FingerprintKey, Fields
  <2>5. ConsentStored(r)'  BY <1>1, <2>2, <2>3, <2>4 DEF ConsentStored, At
  <2> QED  BY <1>1, <2>1, <2>2, <2>5 DEF SecretSound
<1> QED  BY <1>1, <1>8, <1>9, <1>11, <1>13, <1>14 DEF IInv
-----------------------------------------------------------------------------
(***************************************************************************)
(* The invariant, and what it gives.                                       *)
(***************************************************************************)

LEMMA InitHolds ==
    ASSUME AuthAssumption, NoneAssumption, Init
    PROVE  IInv
<1>1. PICK u \in Users : file = <<u>>  BY DEF Init
<1>2. file \in Seq(Users) /\ Len(file) = 1 /\ Len(file) \in 1..MaxFiles
  BY <1>1 DEF AuthAssumption
<1>3. \A t \in Threads : call[t] = Idle  BY DEF Init
<1>4. call \in [Threads -> Call]  BY IdleSound DEF Init
<1>5. \A d \in Databases :
        /\ secrets[d] \in Secret /\ SecretSound(secrets[d])
        /\ ConsentStored(secrets[d].refresh)
  BY NewSecretsSound DEF Init, ConsentStored
<1>6. secrets \in [Databases -> Secret]
  <2>1. secrets \in [Databases -> NewSecrets]  BY DEF Init
  <2> QED  BY <1>5, <2>1
<1>7. counts \in [recreations : 0..MaxRecreations, resolutions : 0..MaxResolutions,
                  consents : 0..MaxConsents, lapses : 0..MaxLapses]
  BY DEF Init, AuthAssumption
<1>8. handles = {} /\ DOMAIN cache = {} /\ failures = {}  BY DEF Init
<1>9. TypeOK  BY <1>2, <1>4, <1>6, <1>7, <1>8 DEF TypeOK
<1> QED  BY <1>3, <1>5, <1>8, <1>9, IdleSound DEF IInv

LEMMA ThreadStepHolds ==
    ASSUME IInv, AuthAssumption, NoneAssumption, NEW t \in Threads,
           \/ \E d \in Databases : Resolve(t, d)
           \/ StampFile(t) \/ ReadFile(t) \/ FileUnusable(t)
           \/ BuildFromConfig(t) \/ BuildFromAuthorizationCode(t)
           \/ TokenCached(t) \/ TokenMinted(t) \/ TokenRefused(t)
           \/ Consent(t) \/ ConsentFails(t) \/ Persist(t) \/ StoreConsented(t)
    PROVE  IInv'
<1>1. CASE \E d \in Databases : Resolve(t, d)  BY <1>1, ResolveKeeps
<1>2. CASE StampFile(t)  BY <1>2, StampFileKeeps
<1>3. CASE ReadFile(t)  BY <1>3, ReadFileKeeps
<1>4. CASE FileUnusable(t) \/ ConsentFails(t)  BY <1>4, FailsKeeps
<1>5. CASE BuildFromConfig(t)  BY <1>5, BuildFromConfigKeeps
<1>6. CASE BuildFromAuthorizationCode(t)  BY <1>6, BuildFromAuthorizationCodeKeeps
<1>7. CASE TokenCached(t)  BY <1>7, TokenCachedKeeps
<1>8. CASE TokenMinted(t)  BY <1>8, TokenMintedKeeps
<1>9. CASE TokenRefused(t)  BY <1>9, TokenRefusedKeeps
<1>10. CASE Consent(t)  BY <1>10, ConsentKeeps
<1>11. CASE Persist(t)  BY <1>11, PersistKeeps
<1>12. CASE StoreConsented(t)  BY <1>12, StoreConsentedKeeps
<1> QED  BY <1>1, <1>2, <1>3, <1>4, <1>5, <1>6, <1>7, <1>8, <1>9, <1>10, <1>11, <1>12

LEMMA StepHolds ==
    ASSUME IInv, AuthAssumption, NoneAssumption, Next
    PROVE  IInv'
<1>1. CASE \E t \in Threads :
          \/ \E d \in Databases : Resolve(t, d)
          \/ StampFile(t) \/ ReadFile(t) \/ FileUnusable(t)
          \/ BuildFromConfig(t) \/ BuildFromAuthorizationCode(t)
          \/ TokenCached(t) \/ TokenMinted(t) \/ TokenRefused(t)
          \/ Consent(t) \/ ConsentFails(t) \/ Persist(t) \/ StoreConsented(t)
  BY <1>1, ThreadStepHolds
<1>2. CASE \E h \in handles : HandleMints(h)  BY <1>2, HandleMintsKeeps
<1>3. CASE \E k \in DOMAIN cache : Lapse(k)  BY <1>3, LapseKeeps
<1>4. CASE \E k \in failures : BackoffEnds(k)  BY <1>4, BackoffEndsKeeps
<1>5. CASE \E u \in Users : ReplaceFile(u)  BY <1>5, ReplaceFileKeeps
<1>6. CASE \E d \in Databases, s \in NewSecrets : CreateOrReplaceSecret(d, s)
  BY <1>6, CreateOrReplaceSecretKeeps
<1> QED  BY <1>1, <1>2, <1>3, <1>4, <1>5, <1>6 DEF Next

LEMMA StutterHolds == ASSUME IInv, UNCHANGED vars PROVE IInv'
<1>1. UNCHANGED <<file, call, handles, secrets, cache, failures, counts>>
  BY DEF vars
<1>2. CacheStep  BY <1>1 DEF CacheStep
<1>3. secrets' \in [Databases -> Secret]  BY <1>1 DEF IInv, TypeOK
<1> QED  BY <1>1, <1>2, <1>3, CacheKeeps, CommonParts, OthersKeep

\* In every reachable state the keys of the token cache, the calls under way and
\* the contexts returned each name the user that they act as, or are known to be
\* foreign (GetAuthContext and what it calls).
THEOREM AuthContextInvariant == Spec => []IInv
<1>1. Init => IInv  BY InitHolds, AuthAssumption, NoneAssumption
<1>2. IInv /\ [Next]_vars => IInv'
  BY StepHolds, StutterHolds, AuthAssumption, NoneAssumption
<1> QED  BY <1>1, <1>2, PTL DEF Spec

\* Secrets, calls, token cache and contexts keep their types (GetAuthContext).
THEOREM AuthContextTypes == Spec => []TypeOK
<1>1. IInv => TypeOK  BY DEF IInv
<1> QED  BY <1>1, AuthContextInvariant, PTL

\* The user a context acts as is the one of its credential.
LEMMA HandlesAreRight ==
    ASSUME IInv, AuthAssumption, NoneAssumption
    PROVE  HandlesKeepToTheirUser
<1>1. SUFFICES ASSUME NEW h \in handles, h.mint # None
               PROVE  /\ h.key \notin ForeignKeys => ActsAs(h) = h.mint
                      /\ h.identity.provider = "service_account" /\ ~h.torn
                           => h.first = h.mint
  BY DEF HandlesKeepToTheirUser
<1>2. h \in Handle /\ HandleSound(h)  BY DEF IInv, TypeOK
<1>3. h.key # None /\ h.key \in Key /\ h.key \in DOMAIN cache
  BY <1>1, <1>2 DEF HandleSound, Handle
<1>4. ASSUME h.key \notin ForeignKeys
      PROVE  ActsAs(h) = h.mint
  <2>1. ~h.torn  BY <1>4 DEF ForeignKeys
  <2>2. Right(h.key, h.mint)  BY <1>1, <1>2, <2>1 DEF HandleSound
  <2>3. Right(h.key, cache[h.key].user)  BY <1>3, <1>4 DEF IInv, EntrySound
  <2>4. h.key.provider \notin FileProviders => h.key.material.refresh # None
    BY <1>1, <1>2 DEF HandleSound
  <2>5. cache[h.key].user = h.mint  BY <1>3, <2>2, <2>3, <2>4, RightIsOne
  <2> QED  BY <1>1, <1>3, <2>5 DEF ActsAs
<1> QED  BY <1>1, <1>2, <1>4 DEF HandleSound

\* Two contexts of one identity are of one user.
LEMMA IdentitiesAreRight ==
    ASSUME IInv
    PROVE  IdentityNamesUser({"service_account", "config"})
<1>1. SUFFICES ASSUME NEW g \in handles, NEW h \in handles,
                      g.identity.provider \in {"service_account", "config"},
                      ~g.torn, ~h.torn, g.identity = h.identity
               PROVE  g.first = h.first
  BY DEF IdentityNamesUser
<1>2. HandleSound(g) /\ HandleSound(h)  BY DEF IInv
<1>3. CASE g.identity.provider = "config"
  BY <1>1, <1>2, <1>3 DEF HandleSound
<1>4. CASE g.identity.provider = "service_account"
  BY <1>1, <1>2, <1>4 DEF HandleSound
<1> QED  BY <1>1, <1>3, <1>4

\* No user acts through another's token or finds what was cached for another
\* (FingerprintKey, IdentityMaterial, KeyFileStamp).
THEOREM UsersStayApart == Spec => []UsersApart
<1>1. IInv => UsersApart
  BY HandlesAreRight, IdentitiesAreRight, AuthAssumption, NoneAssumption DEF UsersApart
<1> QED  BY <1>1, AuthContextInvariant, PTL

\* The token of a consent is under the key of the secret it was persisted with,
\* for as long as the secret has that refresh token (flow_key).
THEOREM ConsentsAreFound == Spec => []ConsentIsFound
<1>1. ASSUME IInv PROVE ConsentIsFound
  <2>1. SUFFICES ASSUME NEW d \in Databases, NEW r, r = secrets[d].refresh,
                        r # None, r[2] > 0,
                        ~ \E t \in Threads : At(t, "store") /\ call[t].refresh = r
                 PROVE  /\ AuthorizationCodeKey(r) \in DOMAIN cache
                        /\ AuthorizationCodeKey(r) \notin ForeignKeys
                             => cache[AuthorizationCodeKey(r)].user = r[1]
    BY DEF ConsentIsFound
  <2>2. ConsentStored(r)  BY <1>1, <2>1 DEF IInv
  <2>3. AuthorizationCodeKey(r) \in DOMAIN cache  BY <2>1, <2>2 DEF ConsentStored
  <2>4. PICK k : k = AuthorizationCodeKey(r)  OBVIOUS
  <2>5. k.provider = "authorization_code" /\ k.material.refresh = r
    BY <2>4 DEF AuthorizationCodeKey, FingerprintKey, Fields
  <2>6. k \notin ForeignKeys => Right(k, cache[k].user)
    BY <1>1, <2>3, <2>4 DEF IInv, EntrySound
  <2> QED  BY <2>1, <2>3, <2>4, <2>5, <2>6 DEF Right
<1>2. IInv => ConsentIsFound  BY <1>1
<1> QED  BY <1>2, AuthContextInvariant, PTL
=============================================================================
