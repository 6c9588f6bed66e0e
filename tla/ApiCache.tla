------------------------------ MODULE ApiCache ------------------------------
(***************************************************************************)
(* What an API process believes of a user: the cache of API-key lookups    *)
(* (app/deps.py), the cache of the effective rate limit                    *)
(* (app/services/config.py) and, in front of the API, the legacy shim's    *)
(* cache of validated keys (compat/app/routers/legacy.py).  An operator    *)
(* changes the tables from another process (taas-admin), so no cache is    *)
(* ever told; each has only its TTL.  Requests of one process interleave   *)
(* at every await.                                                         *)
(*                                                                         *)
(* The config row and the user's overrides that make up the limit are one  *)
(* value, version by version; an age counts up to the TTL of its cache.    *)
(***************************************************************************)
EXTENDS Integers

CONSTANTS
    Requests,     \* requests under way in the process
    AuthTTL,      \* _USER_CACHE_TTL in ticks
    ConfigTTL,    \* CACHE_TTL_SECONDS
    ShimTTL,      \* VALIDATE_CACHE_TTL_SECONDS
    QueryMax,     \* a query or a call of the API takes at most so many ticks
    MaxEdits,     \* changes an operator makes
    NoLimit

ASSUME CacheAssumption ==
    /\ {AuthTTL, ConfigTTL, ShimTTL} \subseteq Nat \ {0}
    /\ {QueryMax, MaxEdits} \subseteq Nat /\ QueryMax < AuthTTL /\ QueryMax < ShimTTL
    /\ NoLimit \notin Nat

VARIABLES
    active,    \* users.active, and the key is the user's
    revoked,   \* ticks since it was last so
    userAge,   \* age of the user's _user_cache entry; AuthTTL if it has none in time
    limit,     \* the version of the effective limit in the tables
    replaced,  \* per version: ticks since it was last in the tables
    conf,      \* the version in the config cache
    confAge,
    shimAge,   \* age of the key's entry in the shim's _valid_keys
    call,      \* per request: [at, age, l, shim, start]
    outage,    \* the shim has taken an error of the API for a valid key
    edits

cacheVars == <<active, revoked, userAge, limit, replaced, conf, confAge, shimAge, call, outage, edits>>

NoCall == [at |-> "idle", age |-> 0, l |-> NoLimit, shim |-> FALSE, start |-> 0]
Longest == AuthTTL + ConfigTTL + ShimTTL + QueryMax
Older(age, most) == IF age < most THEN age + 1 ELSE most

CacheInit ==
    /\ active = TRUE /\ revoked = 0 /\ limit = 0 /\ outage = FALSE /\ edits = 0
    /\ replaced = [v \in 0..MaxEdits |-> IF v = 0 THEN 0 ELSE Longest]
    /\ userAge = AuthTTL /\ conf = NoLimit /\ confAge = ConfigTTL /\ shimAge = ShimTTL
    /\ call = [r \in Requests |-> NoCall]

Edit == edits < MaxEdits /\ edits' = edits + 1

\* update_user(active), rotate_key, set_key, delete_user: the key stops working, or
\* works again; a disabled user may be enabled.
EditUser ==
    /\ Edit /\ active' = ~active /\ revoked' = 0
    /\ UNCHANGED <<userAge, limit, replaced, conf, confAge, shimAge, call, outage>>

\* update_user(limits), set_config: invalidate_user and set_values clear the cache of
\* the CLI's process, which ends.
EditLimit ==
    /\ Edit /\ limit' = limit + 1 /\ replaced' = [replaced EXCEPT ![limit + 1] = 0]
    /\ UNCHANGED <<active, revoked, userAge, conf, confAge, shimAge, call, outage>>

\* Whoever waits for Postgres or for the API waits for no more than QueryMax ticks;
\* the steps between two awaits take no time.
CacheTick ==
    /\ \A r \in Requests : call[r].at \in {"idle", "query", "row", "conf"} /\ call[r].age < QueryMax
    /\ revoked' = IF active THEN 0 ELSE Older(revoked, Longest)
    /\ replaced' = [v \in 0..MaxEdits |-> IF v = limit THEN 0 ELSE Older(replaced[v], Longest)]
    /\ userAge' = Older(userAge, AuthTTL) /\ confAge' = Older(confAge, ConfigTTL)
    /\ shimAge' = Older(shimAge, ShimTTL)
    /\ call' = [r \in Requests |-> IF call[r].at = "idle" THEN call[r]
                                   ELSE [call[r] EXCEPT !.age = @ + 1, !.start = @ + 1]]
    /\ UNCHANGED <<active, limit, conf, outage, edits>>

Go(r, c) == call' = [call EXCEPT ![r] = c]
TablesUnchanged == UNCHANGED <<active, revoked, limit, replaced, outage, edits>>

\* validate_api_key of the shim: a key validated not long ago is not looked up.
ShimHit(r) ==
    /\ call[r] = NoCall /\ shimAge < ShimTTL
    /\ Go(r, [NoCall EXCEPT !.at = "validated"])
    /\ TablesUnchanged /\ UNCHANGED <<userAge, conf, confAge, shimAge>>

\* authenticate_principal, called by the API itself or on behalf of the shim.
UserHit(r, shim) ==
    /\ call[r] = NoCall /\ (shim => shimAge >= ShimTTL) /\ userAge < AuthTTL
    /\ Go(r, [NoCall EXCEPT !.at = "user", !.shim = shim])
    /\ TablesUnchanged /\ UNCHANGED <<userAge, conf, confAge, shimAge>>

UserMiss(r, shim) ==
    /\ call[r] = NoCall /\ (shim => shimAge >= ShimTTL) /\ userAge >= AuthTTL
    /\ Go(r, [NoCall EXCEPT !.at = "query", !.shim = shim])
    /\ TablesUnchanged /\ UNCHANGED <<userAge, conf, confAge, shimAge>>

\* The row is read, or is not there and the answer is 401.
UserRow(r) ==
    /\ call[r].at = "query"
    /\ Go(r, IF active THEN [call[r] EXCEPT !.at = "row"] ELSE NoCall)
    /\ TablesUnchanged /\ UNCHANGED <<userAge, conf, confAge, shimAge>>

\* The entry is as old as the look-up's start, whatever is there now.
UserStoreNow(r) ==
    /\ call[r].at = "row" /\ userAge' = 0
    /\ Go(r, [call[r] EXCEPT !.at = "user", !.age = 0])
    /\ TablesUnchanged /\ UNCHANGED <<conf, confAge, shimAge>>
UserStore(r) ==
    /\ call[r].at = "row" /\ userAge' = call[r].age
    /\ Go(r, [call[r] EXCEPT !.at = "user", !.age = 0])
    /\ TablesUnchanged /\ UNCHANGED <<conf, confAge, shimAge>>

\* effective_limits: the cache, or the tables; its entry is stamped after the read.
LimitHit(r) ==
    /\ call[r].at = "user" /\ confAge < ConfigTTL
    /\ Go(r, [call[r] EXCEPT !.at = "limit", !.l = conf])
    /\ TablesUnchanged /\ UNCHANGED <<userAge, conf, confAge, shimAge>>

LimitRead(r) ==
    /\ call[r].at = "user" /\ confAge >= ConfigTTL
    /\ Go(r, [call[r] EXCEPT !.at = "conf", !.l = limit, !.age = 0])
    /\ TablesUnchanged /\ UNCHANGED <<userAge, conf, confAge, shimAge>>

LimitStore(r) ==
    /\ call[r].at = "conf" /\ conf' = call[r].l /\ confAge' = 0
    /\ Go(r, [call[r] EXCEPT !.at = "limit", !.age = 0])
    /\ TablesUnchanged /\ UNCHANGED <<userAge, shimAge>>

\* The request goes on under that limit; an answer to the shim makes the key valid
\* from the moment it asked.
ShimStamp(r) == IF call[r].start < ShimTTL THEN call[r].start ELSE ShimTTL
Answered(r) ==
    /\ call[r].at = "limit"
    /\ Go(r, IF call[r].shim THEN [NoCall EXCEPT !.at = "validated"] ELSE NoCall)
    /\ shimAge' = IF call[r].shim THEN ShimStamp(r) ELSE shimAge
    /\ TablesUnchanged /\ UNCHANGED <<userAge, conf, confAge>>

\* The API fails: any answer but a 401 makes the key valid for the shim.
ShimTakesError(r) ==
    /\ Edit /\ call[r].shim /\ call[r].at = "query"
    /\ Go(r, [NoCall EXCEPT !.at = "validated"]) /\ shimAge' = ShimStamp(r) /\ outage' = TRUE
    /\ UNCHANGED <<active, revoked, limit, replaced, userAge, conf, confAge>>

ShimGoesOn(r) ==
    /\ call[r].at = "validated" /\ Go(r, NoCall)
    /\ TablesUnchanged /\ UNCHANGED <<userAge, conf, confAge, shimAge>>

CacheNext ==
    \/ EditUser \/ EditLimit \/ CacheTick
    \/ \E r \in Requests :
          \/ ShimHit(r) \/ UserRow(r) \/ UserStore(r) \/ LimitHit(r) \/ LimitRead(r)
          \/ LimitStore(r) \/ Answered(r) \/ ShimTakesError(r) \/ ShimGoesOn(r)
          \/ \E shim \in BOOLEAN : UserHit(r, shim) \/ UserMiss(r, shim)

CacheSpec == CacheInit /\ [][CacheNext]_cacheVars

-----------------------------------------------------------------------------
\* The variables keep their types; a request's clocks start anew with it.
CacheTypeOK ==
    /\ active \in BOOLEAN /\ revoked \in 0..Longest /\ limit \in 0..MaxEdits
    /\ replaced \in [0..MaxEdits -> 0..Longest]
    /\ userAge \in 0..AuthTTL /\ confAge \in 0..ConfigTTL /\ shimAge \in 0..ShimTTL
    /\ conf \in 0..MaxEdits \cup {NoLimit} /\ outage \in BOOLEAN /\ edits \in 0..MaxEdits
    /\ \A r \in Requests :
          /\ call[r].at \in {"idle", "query", "row", "user", "conf", "limit", "validated"}
          /\ call[r].at \in {"idle", "validated"} => call[r] = [NoCall EXCEPT !.at = call[r].at]
          /\ call[r].age \in 0..QueryMax /\ call[r].start \in 0..(2 * QueryMax)

\* A key that has been revoked for the TTL of the cache authenticates nobody, however
\* slow the look-up that stored it, and in whatever order two look-ups store
\* (docstring of authenticate_principal).
RevokedIsRefused == \A r \in Requests : call[r].at = "user" => revoked < AuthTTL

\* The shim adds less than its own TTL to that, unless it has taken an error of the
\* API for an answer.
ShimRevokedIsRefused ==
    \A r \in Requests : call[r].at = "validated" /\ ~outage => revoked + 1 < AuthTTL + ShimTTL

\* A request is limited by values that were in the tables within the TTL of the
\* cache, or the time a slow query took on top of it.
LimitIsRecent ==
    \A r \in Requests : call[r].at = "limit" => replaced[call[r].l] < ConfigTTL + QueryMax + 1

\* What an operator takes back or changes takes effect within the TTLs of the caches,
\* in whatever order slow look-ups fill them.
CachesRecent == CacheTypeOK /\ RevokedIsRefused /\ ShimRevokedIsRefused /\ LimitIsRecent
=============================================================================
