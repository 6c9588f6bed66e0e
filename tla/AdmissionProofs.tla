--------------------------- MODULE AdmissionProofs ---------------------------
(***************************************************************************)
(* Theorems about what stands between a request and an engine: the limiter *)
(* (RateLimit), the caches of an API process (ApiCache), the judgement of  *)
(* a submit (JobSpec), the legacy shim over the limiter (Compat) and the   *)
(* allocation of a submit worker (Dispatch), for any limits, users, TTLs,  *)
(* requests, slow queries, edits of an operator, tables, files, deaths of  *)
(* the shim, pages, backends and speeds.                                   *)
(***************************************************************************)
EXTENDS Compat, ApiCache, Dispatch, JobSpec, FiniteSetTheorems, WellFoundedInduction, TLAPS

-----------------------------------------------------------------------------
\* The limiter.

\* What the refinement rests on: the key's type, that it outlives its debt, and
\* that the debt is bounded.
RLInv == RLTypeOK /\ DebtOutlived /\ DebtBounded

\* tau of the limit is a natural number, and so is its interval.
LEMMA TauNat == Tau(Limit) \in Nat /\ Limit.t \in Nat
<1>1. Limit.t \in Nat /\ Limit.burst \in Nat
  BY LimitAssumption
<1>2. \A a, b \in Nat : a * b \in Nat
  OBVIOUS
<1> QED
  BY <1>1, <1>2 DEF Tau

\* The EX of the script is longer than the largest debt it may be set for.
LEMMA ExpiryLongEnough == Expiry(Limit) \in Nat /\ Expiry(Limit) > Tau(Limit) + Limit.t
<1> DEFINE x == Tau(Limit) + Limit.t
<1>1. x \in Nat
  BY TauNat
<1> HIDE DEF x
<1>2. /\ 2 * ((x + 2 - 1) \div 2 + 1) \in Nat
      /\ 2 * ((x + 2 - 1) \div 2 + 1) > x
  BY <1>1
<1>3. Expiry(Limit) = 2 * ((x + 2 - 1) \div 2 + 1)
  BY DEF Expiry, Second, x
<1> QED
  BY <1>2, <1>3 DEF x

\* A debt is a natural number.
LEMMA DebtNat == ASSUME RLTypeOK, NEW u \in Users PROVE Debt(u) \in Nat
BY LimitAssumption DEF RLTypeOK, Debt

LEMMA RLInvInit == RLInit => RLInv
BY TauNat, LimitAssumption DEF RLInit, RLInv, RLTypeOK, DebtOutlived, DebtBounded, Debt

\* An admitted request leaves a debt of at most the burst and itself, in a key that
\* lives longer.
LEMMA RLInvAdmit ==
    ASSUME RLInv, NEW u \in Users, Admit(u, Limit) PROVE RLInv'
<1>1. Debt(u) \in Nat /\ Debt(u) <= Tau(Limit)
  BY DebtNat DEF RLInv, Admit, Allows
<1>2. Debt(u) + Limit.t \in Nat /\ Debt(u) + Limit.t <= Tau(Limit) + Limit.t
  BY <1>1, TauNat
<1>3. /\ rest' = [rest EXCEPT ![u] = Debt(u) + Limit.t]
      /\ ttl' = [ttl EXCEPT ![u] = Expiry(Limit)]
  BY DEF Admit
<1>4. Debt(u) + Limit.t < Expiry(Limit) /\ Expiry(Limit) > 0
  BY <1>2, ExpiryLongEnough, TauNat
<1>5. RLTypeOK'
  BY <1>2, <1>3, <1>4, ExpiryLongEnough, LimitAssumption DEF RLInv, RLTypeOK
<1>6. DebtOutlived'
  BY <1>2, <1>3, <1>4, ExpiryLongEnough, LimitAssumption DEF RLInv, RLTypeOK, DebtOutlived
<1>7. DebtBounded'
  BY <1>2, <1>3, TauNat, LimitAssumption DEF RLInv, RLTypeOK, DebtBounded, Debt
<1> QED
  BY <1>5, <1>6, <1>7 DEF RLInv

\* A tick shortens the debt and the key's life together.
LEMMA RLInvTick == ASSUME RLInv, RLTick PROVE RLInv'
<1>1. RLTypeOK'
  BY LimitAssumption DEF RLInv, RLTypeOK, RLTick, DebtOutlived
<1>2. DebtOutlived'
  BY LimitAssumption DEF RLInv, RLTypeOK, RLTick, DebtOutlived
<1>3. DebtBounded'
  BY TauNat, LimitAssumption DEF RLInv, RLTypeOK, RLTick, DebtBounded, Debt
<1> QED
  BY <1>1, <1>2, <1>3 DEF RLInv

LEMMA RLInvStutter == ASSUME RLInv, UNCHANGED rlVars PROVE RLInv'
BY DEF RLInv, RLTypeOK, DebtOutlived, DebtBounded, Debt, rlVars

LEMMA RLInvStep == RLInv /\ [RLNext]_rlVars => RLInv'
BY RLInvAdmit, RLInvTick, RLInvStutter DEF RLNext, Refused

\* What the key records: for every limit, no debt outlives its key and none exceeds
\* the burst and one request (rate_limit.py, GCRA_LUA).
THEOREM LimiterInvariant == RLSpec => []RLInv
<1> QED
  BY RLInvInit, RLInvStep, PTL DEF RLSpec

\* The bucket that the key stands for is full in the beginning.
LEMMA BucketInit == RLInit => Bucket!Init
BY TauNat, LimitAssumption DEF RLInit, Bucket!Init, Level, Full, Debt

\* A request that the script lets through finds its cost in the bucket and pays it.
LEMMA BucketAdmit ==
    ASSUME RLInv, NEW u \in Users, Admit(u, Limit) PROVE Bucket!Admit(u)
<1>1. Debt(u) \in Nat /\ Debt(u) <= Tau(Limit)
  BY DebtNat DEF RLInv, Admit, Allows
<1>2. rest' = [rest EXCEPT ![u] = Debt(u) + Limit.t]
  BY DEF Admit
<1>3. Debt(u)' = Debt(u) + Limit.t
  BY <1>1, <1>2, TauNat, LimitAssumption DEF Debt, RLInv, RLTypeOK
<1>4. \A v \in Users : v # u => Debt(v)' = Debt(v)
  BY <1>2 DEF Debt, RLInv, RLTypeOK
<1>5. Level' = [v \in Users |-> Full - Debt(v)']
  BY DEF Level, Full, Tau
<1>6. Level[u] = Full - Debt(u) /\ Full - (Debt(u) + Limit.t) = Level[u] - Limit.t
  BY <1>1, TauNat DEF Level, Full
<1>7. Level' = [Level EXCEPT ![u] = Level[u] - Limit.t]
  BY <1>3, <1>4, <1>5, <1>6 DEF Level
<1>8. Level[u] >= Limit.t
  BY <1>1, <1>6, TauNat DEF Full
<1> QED
  BY <1>7, <1>8 DEF Bucket!Admit

\* A tick refills the bucket: the debt goes down by one, by the clock or because the
\* key has expired with nothing left in it.
LEMMA BucketTick == ASSUME RLInv, RLTick PROVE Bucket!Refill
<1>1. ASSUME NEW u \in Users
      PROVE Debt(u)' = IF Debt(u) > 0 THEN Debt(u) - 1 ELSE 0
  BY LimitAssumption DEF RLInv, RLTypeOK, DebtOutlived, RLTick, Debt
<1>2. \A u \in Users : Debt(u) \in Nat /\ Debt(u) <= Full
  BY DebtNat DEF RLInv, DebtBounded, Full
<1>3. Level' = [u \in Users |-> Full - Debt(u)']
  BY DEF Level, Full, Tau
<1>4. ASSUME NEW u \in Users
      PROVE Full - Debt(u)' = IF Level[u] < Full THEN Level[u] + 1 ELSE Full
  BY <1>1, <1>2, TauNat DEF Level, Full
<1> QED
  BY <1>3, <1>4 DEF Bucket!Refill

\* Every step of the limiter is a step of the bucket or leaves it alone.
LEMMA BucketStep == RLInv /\ [RLNext]_rlVars => [Bucket!Next]_Level
<1>1. ASSUME UNCHANGED rlVars PROVE UNCHANGED Level
  BY <1>1 DEF rlVars, Debt, Level, Full, Tau
<1> QED
  BY <1>1, BucketAdmit, BucketTick DEF RLNext, Refused, Bucket!Next

\* For any users and any limit, the limiter of rate_limit.py with its expiring key
\* implements a token bucket of burst + 1 requests that refills by one request per
\* emission interval.
THEOREM LimiterIsBucket == RLSpec => ActsAsBucket
<1> QED
  BY RLInvInit, RLInvStep, BucketInit, BucketStep, PTL DEF RLSpec, ActsAsBucket, Bucket!Spec

-----------------------------------------------------------------------------
\* The caches of the API.

CallSteps == {"idle", "query", "row", "user", "conf", "limit", "validated"}
Conf == 0..MaxEdits \cup {NoLimit}
LookUps == [at : CallSteps, age : 0..QueryMax, l : Conf, shim : BOOLEAN, start : 0..(2 * QueryMax)]
Bounds(c) == /\ c.at \in {"query", "row", "user"} => c.start <= QueryMax
             /\ c.at \in {"query", "row"} => c.start = c.age
             /\ c.at = "user" => c.age = 0
             /\ c.at = "conf" => c.start <= QueryMax + c.age
Over(c) == c.at \in {"idle", "validated"} => c = [NoCall EXCEPT !.at = c.at]

\* The tables, and the ages of what has been read from them.
CallsInv ==
    /\ active \in BOOLEAN /\ revoked \in 0..Longest /\ limit \in 0..edits
    /\ replaced \in [0..MaxEdits -> 0..Longest]
    /\ userAge \in 0..AuthTTL /\ confAge \in 0..ConfigTTL /\ shimAge \in 0..ShimTTL
    /\ conf \in Conf /\ outage \in BOOLEAN /\ edits \in 0..MaxEdits
    /\ call \in [Requests -> LookUps] /\ \A r \in Requests : Bounds(call[r]) /\ Over(call[r])
    /\ active => revoked = 0
    /\ replaced[limit] = 0

\* What is known of a user was so no longer ago than the age of the knowledge; the shim
\* knows it from a call of the API, which may itself have known it for AuthTTL.
UserKnown ==
    /\ userAge < AuthTTL => revoked <= userAge
    /\ ~outage /\ shimAge < ShimTTL => revoked < AuthTTL + shimAge
    /\ \A r \in Requests :
          /\ call[r].at = "row" => revoked <= call[r].age
          /\ call[r].at = "user" => revoked < AuthTTL
          /\ call[r].at = "conf" => revoked < AuthTTL + call[r].age
          /\ call[r].at \in {"conf", "limit"} =>
                revoked < AuthTTL + call[r].start /\ revoked < AuthTTL + QueryMax
          /\ call[r].at = "validated" /\ ~outage => revoked + 1 < AuthTTL + ShimTTL

\* The limit that is cached was in the tables at the start of the query that read it.
LimitKnown ==
    /\ confAge < ConfigTTL => conf \in 0..MaxEdits /\ replaced[conf] <= confAge + QueryMax
    /\ \A r \in Requests :
          /\ call[r].at = "conf" => call[r].l \in 0..MaxEdits /\ replaced[call[r].l] <= call[r].age
          /\ call[r].at = "limit" => /\ call[r].l \in 0..MaxEdits
                                     /\ replaced[call[r].l] < ConfigTTL + QueryMax

CacheInv == CallsInv /\ UserKnown /\ LimitKnown

LEMMA CacheConstants ==
    /\ AuthTTL \in Nat /\ ConfigTTL \in Nat /\ ShimTTL \in Nat /\ QueryMax \in Nat /\ MaxEdits \in Nat
    /\ AuthTTL > QueryMax /\ ShimTTL > QueryMax /\ ConfigTTL > 0 /\ Longest \in Nat
    /\ Longest = AuthTTL + ConfigTTL + ShimTTL + QueryMax /\ NoLimit \notin Nat
BY CacheAssumption DEF Longest

\* An age goes on by one until it is the greatest there is.
LEMMA OlderAge ==
    ASSUME NEW most \in Nat, NEW age \in 0..most
    PROVE  /\ Older(age, most) \in 0..most /\ Older(age, most) <= age + 1
           /\ Older(age, most) < most => Older(age, most) = age + 1
BY DEF Older

\* A call that is over has left nothing of itself.
LEMMA CallOver ==
    /\ NoCall.at = "idle" /\ NoCall \in LookUps /\ Bounds(NoCall) /\ Over(NoCall)
    /\ \A c : c = [NoCall EXCEPT !.at = "validated"] =>
                 c.at = "validated" /\ c \in LookUps /\ Bounds(c) /\ Over(c)
<1> USE CacheConstants
<1>1. NoCall.at = "idle" /\ NoCall \in LookUps
  BY DEF NoCall, LookUps, CallSteps, Conf
<1>2. \A c \in LookUps : [c EXCEPT !.at = c.at] = c
  BY DEF LookUps
<1>3. Bounds(NoCall) /\ Over(NoCall)
  BY <1>1, <1>2 DEF Bounds, Over
<1>4. ASSUME NEW c, c = [NoCall EXCEPT !.at = "validated"]
      PROVE  c.at = "validated" /\ c \in LookUps /\ Bounds(c) /\ Over(c)
  <2>1. c.at = "validated" /\ c \in LookUps
    BY <1>1, <1>4 DEF LookUps, CallSteps
  <2> QED
    BY <1>4, <2>1 DEF Bounds, Over
<1> QED
  BY <1>1, <1>3, <1>4

LEMMA CacheInitial == CacheInit => CacheInv
<1> SUFFICES ASSUME CacheInit PROVE CacheInv
  OBVIOUS
<1> USE CacheConstants DEF CacheInit
<1>1. \A r \in Requests : call[r] = NoCall
  OBVIOUS
<1>2. call \in [Requests -> LookUps] /\ \A r \in Requests : Bounds(call[r]) /\ Over(call[r])
  BY <1>1, CallOver
<1>3. replaced \in [0..MaxEdits -> 0..Longest] /\ replaced[limit] = 0
  OBVIOUS
<1>4. limit \in 0..edits /\ edits \in 0..MaxEdits /\ conf \in Conf
  BY DEF Conf
<1>5. /\ revoked \in 0..Longest /\ userAge \in 0..AuthTTL /\ confAge \in 0..ConfigTTL
      /\ shimAge \in 0..ShimTTL /\ revoked = 0
  OBVIOUS
<1>6. CallsInv
  <2>1. active \in BOOLEAN /\ outage \in BOOLEAN
    BY Zenon
  <2> QED
    BY <1>2, <1>3, <1>4, <1>5, <2>1 DEF CallsInv
<1>7. UserKnown /\ LimitKnown
  BY <1>1, CallOver DEF UserKnown, LimitKnown
<1> QED
  BY <1>6, <1>7 DEF CacheInv

\* An operator's edit makes the tables younger, and no cache.
LEMMA CacheEdit == ASSUME CacheInv, EditUser \/ EditLimit PROVE CacheInv'
<1> USE CacheConstants
<1>1. CASE EditUser
  <2>1. CallsInv'
    BY <1>1 DEF CacheInv, CallsInv, EditUser, Edit
  <2>2. UserKnown'
    BY <1>1 DEF CacheInv, CallsInv, LookUps, UserKnown, EditUser, Edit
  <2>3. LimitKnown'
    BY <1>1 DEF CacheInv, LimitKnown, EditUser
  <2> QED
    BY <2>1, <2>2, <2>3 DEF CacheInv
<1>2. CASE EditLimit
  <2>1. /\ edits < MaxEdits /\ edits' = edits + 1 /\ limit' = limit + 1 /\ limit + 1 \in 0..MaxEdits
        /\ replaced' = [replaced EXCEPT ![limit + 1] = 0]
    BY <1>2 DEF EditLimit, Edit, CacheInv, CallsInv
  <2>2. /\ replaced' \in [0..MaxEdits -> 0..Longest] /\ replaced'[limit'] = 0
        /\ \A v \in 0..MaxEdits : replaced'[v] <= replaced[v]
    BY <2>1 DEF CacheInv, CallsInv
  <2>3. CallsInv'
    BY <1>2, <2>1, <2>2 DEF CacheInv, CallsInv, EditLimit
  <2>4. UserKnown'
    BY <1>2 DEF CacheInv, UserKnown, EditLimit
  <2>5. LimitKnown'
    BY <1>2, <2>1, <2>2 DEF CacheInv, CallsInv, LookUps, LimitKnown, EditLimit
  <2> QED
    BY <2>3, <2>4, <2>5 DEF CacheInv
<1> QED
  BY <1>1, <1>2

\* A tick ages everything alike.
LEMMA CacheTicks == ASSUME CacheInv, CacheTick PROVE CacheInv'
<1> USE CacheConstants
<1>0. CallsInv /\ UserKnown /\ LimitKnown
  BY DEF CacheInv
<1>1. /\ active' = active /\ limit' = limit /\ conf' = conf /\ outage' = outage /\ edits' = edits
      /\ userAge' = Older(userAge, AuthTTL) /\ confAge' = Older(confAge, ConfigTTL)
      /\ shimAge' = Older(shimAge, ShimTTL)
      /\ revoked' = (IF active THEN 0 ELSE Older(revoked, Longest))
      /\ replaced' = [v \in 0..MaxEdits |-> IF v = limit THEN 0 ELSE Older(replaced[v], Longest)]
  BY DEF CacheTick
<1>2. /\ userAge' \in 0..AuthTTL /\ (userAge' < AuthTTL => userAge' = userAge + 1)
      /\ confAge' \in 0..ConfigTTL /\ (confAge' < ConfigTTL => confAge' = confAge + 1)
      /\ shimAge' \in 0..ShimTTL /\ (shimAge' < ShimTTL => shimAge' = shimAge + 1)
  BY <1>0, <1>1, OlderAge DEF CallsInv
<1>3. revoked' \in 0..Longest /\ revoked' <= revoked + 1 /\ (active' => revoked' = 0)
  <2>1. revoked \in 0..Longest
    BY <1>0 DEF CallsInv
  <2>2. Older(revoked, Longest) \in 0..Longest /\ Older(revoked, Longest) <= revoked + 1
    BY <2>1, OlderAge
  <2> QED
    BY <1>1, <2>1, <2>2
<1>4. /\ replaced' \in [0..MaxEdits -> 0..Longest] /\ replaced'[limit'] = 0
      /\ \A v \in 0..MaxEdits : replaced'[v] <= replaced[v] + 1
  <2>1. \A v \in 0..MaxEdits : /\ replaced[v] \in 0..Longest
                               /\ Older(replaced[v], Longest) \in 0..Longest
                               /\ Older(replaced[v], Longest) <= replaced[v] + 1
    BY <1>0, OlderAge DEF CallsInv
  <2>2. \A v \in 0..MaxEdits : /\ replaced'[v] \in 0..Longest /\ replaced'[v] <= replaced[v] + 1
                               /\ v = limit => replaced'[v] = 0
    BY <1>1, <2>1
  <2>3. limit \in 0..MaxEdits
    BY <1>0 DEF CallsInv
  <2> QED
    BY <1>1, <2>2, <2>3
<1>5. ASSUME NEW r \in Requests
      PROVE  \/ call[r].at = "idle" /\ call'[r] = call[r]
             \/ /\ call[r].at \in {"query", "row", "conf"}
                /\ call'[r] \in LookUps /\ Bounds(call'[r])
                /\ call'[r].at = call[r].at /\ call'[r].l = call[r].l
                /\ call'[r].age = call[r].age + 1 /\ call'[r].start = call[r].start + 1
  <2> DEFINE c == [call[r] EXCEPT !.age = @ + 1, !.start = @ + 1]
  <2>1. /\ call[r] \in LookUps /\ call[r].at \in {"idle", "query", "row", "conf"}
        /\ call[r].age < QueryMax /\ Bounds(call[r])
        /\ call'[r] = IF call[r].at = "idle" THEN call[r] ELSE c
    BY <1>0 DEF CacheTick, CallsInv
  <2>2. CASE call[r].at = "idle"
    BY <2>1, <2>2
  <2>3. CASE call[r].at # "idle"
    <3>1. /\ c.at = call[r].at /\ c.l = call[r].l /\ c.shim = call[r].shim
          /\ c.age = call[r].age + 1 /\ c.start = call[r].start + 1
      BY <2>1 DEF LookUps
    <3>2. c.age \in 0..QueryMax /\ c.start \in 0..(2 * QueryMax)
      BY <2>1, <2>3, <3>1 DEF LookUps, Bounds
    <3>3. c \in LookUps
      BY <2>1, <3>2 DEF LookUps
    <3>4. Bounds(c)
      BY <2>1, <3>1 DEF Bounds, LookUps
    <3> QED
      BY <2>1, <2>3, <3>1, <3>3, <3>4
  <2> QED
    BY <2>2, <2>3
<1>6. CallsInv'
  <2>1. \A r \in Requests : call'[r] \in LookUps /\ Bounds(call'[r]) /\ Over(call'[r])
    BY <1>0, <1>5 DEF CallsInv, Over
  <2>2. call' \in [Requests -> LookUps]
    BY <2>1 DEF CacheTick
  <2> QED
    BY <1>0, <1>1, <1>2, <1>3, <1>4, <2>1, <2>2 DEF CallsInv
<1>7. UserKnown'
  <2>1. ASSUME NEW r \in Requests
        PROVE  /\ call'[r].at = "row" => revoked' <= call'[r].age
               /\ call'[r].at = "user" => revoked' < AuthTTL
               /\ call'[r].at = "conf" => revoked' < AuthTTL + call'[r].age
               /\ call'[r].at \in {"conf", "limit"} =>
                     revoked' < AuthTTL + call'[r].start /\ revoked' < AuthTTL + QueryMax
               /\ call'[r].at = "validated" /\ ~outage' => revoked' + 1 < AuthTTL + ShimTTL
    <3>1. call[r].at = "idle" /\ call'[r] = call[r] => call'[r].at = "idle"
      OBVIOUS
    <3>2. CASE call[r].at # "idle"
      <4>1. /\ call'[r].at = call[r].at /\ call[r].at \in {"query", "row", "conf"}
            /\ call'[r].age = call[r].age + 1 /\ call'[r].start = call[r].start + 1
            /\ call'[r] \in LookUps
        BY <1>5, <3>2
      <4>2. /\ call[r].age \in Nat /\ call[r].start \in Nat /\ revoked \in Nat /\ revoked' \in Nat
            /\ call'[r].age <= QueryMax
        BY <1>0, <1>3, <4>1 DEF CallsInv, LookUps
      <4> QED
        BY <1>0, <1>3, <4>1, <4>2 DEF UserKnown
    <3> QED
      BY <1>5, <3>1, <3>2
  <2>2. userAge' < AuthTTL => revoked' <= userAge'
    BY <1>0, <1>2, <1>3 DEF UserKnown, CallsInv
  <2>3. ~outage' /\ shimAge' < ShimTTL => revoked' < AuthTTL + shimAge'
    BY <1>0, <1>1, <1>2, <1>3 DEF UserKnown, CallsInv
  <2> QED
    BY <2>1, <2>2, <2>3 DEF UserKnown
<1>8. LimitKnown'
  <2>1. ASSUME NEW r \in Requests
        PROVE  /\ call'[r].at = "conf" => /\ call'[r].l \in 0..MaxEdits
                                          /\ replaced'[call'[r].l] <= call'[r].age
               /\ call'[r].at = "limit" => /\ call'[r].l \in 0..MaxEdits
                                           /\ replaced'[call'[r].l] < ConfigTTL + QueryMax
    <3>1. call'[r].at # "limit"
      BY <1>5
    <3>2. CASE call'[r].at = "conf"
      <4>1. /\ call[r].at = "conf" /\ call'[r].l = call[r].l /\ call[r].l \in 0..MaxEdits
            /\ call'[r].age = call[r].age + 1 /\ replaced[call[r].l] <= call[r].age
        BY <1>0, <1>5, <3>2 DEF LimitKnown
      <4>2. /\ replaced[call[r].l] \in Nat /\ replaced'[call[r].l] \in Nat /\ call[r].age \in Nat
            /\ replaced'[call[r].l] <= replaced[call[r].l] + 1
        BY <1>0, <1>4, <4>1 DEF CallsInv, LookUps
      <4> QED
        BY <3>1, <4>1, <4>2
    <3> QED
      BY <3>1, <3>2
  <2>2. ASSUME confAge' < ConfigTTL
        PROVE  conf' \in 0..MaxEdits /\ replaced'[conf'] <= confAge' + QueryMax
    <3>1. /\ confAge < ConfigTTL /\ confAge' = confAge + 1 /\ confAge \in Nat /\ conf' = conf
          /\ conf \in 0..MaxEdits /\ replaced[conf] <= confAge + QueryMax
      BY <1>0, <1>1, <1>2, <2>2 DEF LimitKnown, CallsInv
    <3>2. /\ replaced[conf] \in Nat /\ replaced'[conf] \in Nat /\ replaced'[conf] <= replaced[conf] + 1
      BY <1>0, <1>4, <3>1 DEF CallsInv
    <3> QED
      BY <3>1, <3>2
  <2> QED
    BY <2>1, <2>2 DEF LimitKnown
<1> QED
  BY <1>6, <1>7, <1>8 DEF CacheInv

\* A step of one request: what it is to show for its own call and for the entries it
\* may have stored.
LEMMA CallStep ==
    ASSUME CacheInv, NEW r \in Requests, NEW c, call' = [call EXCEPT ![r] = c],
           UNCHANGED <<active, revoked, limit, replaced>>,
           outage' = outage \/ outage' = TRUE, edits' \in edits..MaxEdits,
           c \in LookUps, Bounds(c), Over(c),
           c.at = "row" => revoked <= c.age,
           c.at = "user" => revoked < AuthTTL,
           c.at = "conf" => revoked < AuthTTL + c.age,
           c.at \in {"conf", "limit"} =>
                revoked < AuthTTL + c.start /\ revoked < AuthTTL + QueryMax,
           c.at = "validated" /\ ~outage' => revoked + 1 < AuthTTL + ShimTTL,
           c.at = "conf" => c.l \in 0..MaxEdits /\ replaced[c.l] <= c.age,
           c.at = "limit" => c.l \in 0..MaxEdits /\ replaced[c.l] < ConfigTTL + QueryMax,
           userAge' \in 0..AuthTTL, userAge' < AuthTTL => revoked <= userAge',
           shimAge' \in 0..ShimTTL, ~outage' /\ shimAge' < ShimTTL => revoked < AuthTTL + shimAge',
           confAge' \in 0..ConfigTTL, conf' \in Conf,
           confAge' < ConfigTTL => conf' \in 0..MaxEdits /\ replaced[conf'] <= confAge' + QueryMax
    PROVE  CacheInv'
<1> USE CacheConstants
<1>0. /\ active' = active /\ revoked' = revoked /\ limit' = limit /\ replaced' = replaced
      /\ call' = [call EXCEPT ![r] = c]
  OBVIOUS
<1>1. call'[r] = c /\ \A s \in Requests : s # r => call'[s] = call[s]
  BY DEF CacheInv, CallsInv
<1>2. call' \in [Requests -> LookUps] /\ \A s \in Requests : Bounds(call'[s]) /\ Over(call'[s])
  BY <1>1 DEF CacheInv, CallsInv
<1>3. /\ limit' \in 0..edits' /\ edits' \in 0..MaxEdits /\ outage' \in BOOLEAN
  <2>1. limit' \in 0..edits' /\ edits' \in 0..MaxEdits
    BY <1>0 DEF CacheInv, CallsInv
  <2>2. outage' \in BOOLEAN
    BY DEF CacheInv, CallsInv
  <2> QED
    BY <2>1, <2>2
<1>4. CallsInv'
  BY <1>0, <1>2, <1>3 DEF CacheInv, CallsInv
<1>5. UserKnown'
  <2>1. ASSUME NEW s \in Requests, s # r
        PROVE  /\ call'[s].at = "row" => revoked' <= call'[s].age
               /\ call'[s].at = "user" => revoked' < AuthTTL
               /\ call'[s].at = "conf" => revoked' < AuthTTL + call'[s].age
               /\ call'[s].at \in {"conf", "limit"} =>
                     revoked' < AuthTTL + call'[s].start /\ revoked' < AuthTTL + QueryMax
               /\ call'[s].at = "validated" /\ ~outage' => revoked' + 1 < AuthTTL + ShimTTL
    BY <1>0, <1>1, <2>1 DEF CacheInv, UserKnown
  <2> QED
    BY <1>0, <1>1, <2>1 DEF UserKnown
<1>6. LimitKnown'
  BY <1>0, <1>1 DEF CacheInv, LimitKnown
<1> QED
  BY <1>4, <1>5, <1>6 DEF CacheInv

\* A call that is on its way.
LEMMA CallFields ==
    ASSUME CacheInv, NEW r \in Requests
    PROVE  /\ call[r] \in LookUps /\ Bounds(call[r]) /\ Over(call[r])
           /\ call[r].age \in 0..QueryMax /\ call[r].start \in 0..(2 * QueryMax)
           /\ call[r].l \in Conf /\ call[r].shim \in BOOLEAN
           /\ limit \in 0..MaxEdits /\ replaced[limit] = 0
           /\ revoked \in 0..Longest /\ userAge \in 0..AuthTTL /\ confAge \in 0..ConfigTTL
           /\ shimAge \in 0..ShimTTL /\ conf \in Conf
BY CacheConstants DEF CacheInv, CallsInv, LookUps

LEMMA CacheLookUp ==
    ASSUME CacheInv, NEW r \in Requests,
           \/ ShimHit(r) \/ ShimGoesOn(r) \/ UserRow(r)
           \/ \E shim \in BOOLEAN : UserHit(r, shim) \/ UserMiss(r, shim)
    PROVE  CacheInv'
<1> USE CacheConstants, CallFields DEF TablesUnchanged, Go
<1>0. /\ UNCHANGED <<active, revoked, limit, replaced>> /\ outage' = outage /\ edits' \in edits..MaxEdits
      /\ userAge' = userAge /\ confAge' = confAge /\ conf' = conf /\ shimAge' = shimAge
  <2>1. /\ UNCHANGED <<active, revoked, limit, replaced, outage, edits>>
        /\ UNCHANGED <<userAge, conf, confAge, shimAge>>
    BY DEF ShimHit, ShimGoesOn, UserRow, UserHit, UserMiss
  <2>2. edits \in 0..MaxEdits
    BY DEF CacheInv, CallsInv
  <2> QED
    BY <2>1, <2>2
<1>1. /\ userAge' < AuthTTL => revoked <= userAge'
      /\ ~outage' /\ shimAge' < ShimTTL => revoked < AuthTTL + shimAge'
      /\ confAge' < ConfigTTL => conf' \in 0..MaxEdits /\ replaced[conf'] <= confAge' + QueryMax
  BY <1>0 DEF CacheInv, UserKnown, LimitKnown
<1>2. CASE ShimHit(r)
  <2> DEFINE c == [NoCall EXCEPT !.at = "validated"]
  <2>1. call' = [call EXCEPT ![r] = c] /\ shimAge < ShimTTL
    BY <1>2 DEF ShimHit
  <2>2. c.at = "validated" /\ c \in LookUps /\ Bounds(c) /\ Over(c)
    BY CallOver
  <2>3. ~outage' => revoked + 1 < AuthTTL + ShimTTL
    BY <1>0, <1>1, <2>1
  <2> HIDE DEF c
  <2> QED
    BY <1>0, <1>1, <2>1, <2>2, <2>3, CallStep
<1>3. CASE ShimGoesOn(r)
  <2>1. call' = [call EXCEPT ![r] = NoCall]
    BY <1>3 DEF ShimGoesOn
  <2> QED
    BY <1>0, <1>1, <2>1, CallOver, CallStep
<1>4. CASE UserRow(r)
  <2>1. CASE ~active
    <3>1. call' = [call EXCEPT ![r] = NoCall]
      BY <1>4, <2>1 DEF UserRow
    <3> QED
      BY <1>0, <1>1, <3>1, CallOver, CallStep
  <2>2. CASE active
    <3> DEFINE c == [call[r] EXCEPT !.at = "row"]
    <3>1. call' = [call EXCEPT ![r] = c] /\ call[r].at = "query" /\ revoked = 0
      BY <1>4, <2>2 DEF UserRow, CacheInv, CallsInv
    <3>2. /\ c.at = "row" /\ c \in LookUps /\ c.age = call[r].age /\ c.start = call[r].start
      BY DEF LookUps, CallSteps
    <3> HIDE DEF c
    <3>3. /\ call[r].age \in 0..QueryMax /\ call[r].start = call[r].age /\ call[r].start <= QueryMax
      BY <3>1 DEF Bounds
    <3>4. revoked <= c.age
      BY <3>1, <3>2, <3>3
    <3>5. Bounds(c) /\ Over(c)
      BY <3>2, <3>3 DEF Bounds, Over
    <3> QED
      BY <1>0, <1>1, <3>1, <3>2, <3>4, <3>5, CallStep
  <2> QED
    BY <2>1, <2>2
<1>5. ASSUME NEW shim \in BOOLEAN, UserHit(r, shim) \/ UserMiss(r, shim) PROVE CacheInv'
  <2> PICK x \in {"user", "query"} :
             /\ call' = [call EXCEPT ![r] = [NoCall EXCEPT !.at = x, !.shim = shim]]
             /\ x = "user" => userAge < AuthTTL
    BY <1>5 DEF UserHit, UserMiss
  <2> DEFINE c == [NoCall EXCEPT !.at = x, !.shim = shim]
  <2>1. NoCall.age = 0 /\ NoCall.start = 0
    BY DEF NoCall
  <2>2. c.at = x /\ c \in LookUps /\ c.age = 0 /\ c.start = 0
    BY <2>1, CallOver DEF LookUps, CallSteps
  <2>3. call' = [call EXCEPT ![r] = c]
    OBVIOUS
  <2> HIDE DEF c
  <2>4. Bounds(c) /\ Over(c)
    BY <2>2 DEF Bounds, Over
  <2>5. x = "user" => revoked < AuthTTL
    BY <1>0, <1>1
  <2>6. /\ c.at = "row" => revoked <= c.age
        /\ c.at = "user" => revoked < AuthTTL
        /\ c.at \notin {"conf", "limit", "validated"}
    BY <2>2, <2>5
  <2> QED
    BY <1>0, <1>1, <2>2, <2>3, <2>4, <2>6, CallStep
<1> QED
  BY <1>2, <1>3, <1>4, <1>5

\* Who authenticates stores what the look-up's start knew; a limit is stored as it was
\* read, and stamped after it.
LEMMA CacheFills ==
    ASSUME CacheInv, NEW r \in Requests,
           UserStore(r) \/ LimitHit(r) \/ LimitRead(r) \/ LimitStore(r)
    PROVE  CacheInv'
<1> USE CacheConstants, CallFields DEF TablesUnchanged, Go
<1>0. /\ UNCHANGED <<active, revoked, limit, replaced>> /\ outage' = outage /\ edits' \in edits..MaxEdits
      /\ shimAge' = shimAge /\ (userAge' = userAge \/ UserStore(r))
      /\ ((confAge' = confAge /\ conf' = conf) \/ LimitStore(r))
  <2>1. /\ UNCHANGED <<active, revoked, limit, replaced, outage, edits>> /\ shimAge' = shimAge
        /\ (userAge' = userAge \/ UserStore(r)) /\ ((confAge' = confAge /\ conf' = conf) \/ LimitStore(r))
    BY DEF UserStore, LimitHit, LimitRead, LimitStore
  <2>2. edits \in 0..MaxEdits
    BY DEF CacheInv, CallsInv
  <2> QED
    BY <2>1, <2>2
<1>1. /\ userAge < AuthTTL => revoked <= userAge
      /\ ~outage' /\ shimAge' < ShimTTL => revoked < AuthTTL + shimAge'
      /\ confAge < ConfigTTL => conf \in 0..MaxEdits /\ replaced[conf] <= confAge + QueryMax
      /\ \A v \in 0..MaxEdits : replaced[v] \in 0..Longest
  BY <1>0 DEF CacheInv, UserKnown, LimitKnown, CallsInv
<1>2. CASE UserStore(r)
  <2> DEFINE c == [call[r] EXCEPT !.at = "user", !.age = 0]
  <2>1. call' = [call EXCEPT ![r] = c] /\ call[r].at = "row" /\ userAge' = call[r].age
        /\ confAge' = confAge /\ conf' = conf
    BY <1>2 DEF UserStore
  <2>2. c.at = "user" /\ c.age = 0 /\ c.start = call[r].start /\ c \in LookUps
    <3>1. call[r] \in LookUps /\ 0 \in 0..QueryMax
      BY CallFields
    <3> QED
      BY ONLY <3>1 DEF LookUps, CallSteps
  <2> HIDE DEF c
  <2>3. call[r].age \in 0..QueryMax /\ call[r].start <= QueryMax /\ revoked <= call[r].age
    BY <2>1 DEF Bounds, CacheInv, UserKnown
  <2>4. Bounds(c) /\ Over(c)
    BY <2>2, <2>3 DEF Bounds, Over
  <2>5. userAge' \in 0..AuthTTL /\ revoked <= userAge' /\ revoked < AuthTTL
    BY <2>1, <2>3
  <2> QED
    BY <1>0, <1>1, <2>1, <2>2, <2>4, <2>5, CallStep
<1>3. CASE LimitHit(r)
  <2> DEFINE c == [call[r] EXCEPT !.at = "limit", !.l = conf]
  <2>1. call' = [call EXCEPT ![r] = c] /\ call[r].at = "user" /\ confAge < ConfigTTL
        /\ userAge' = userAge /\ confAge' = confAge /\ conf' = conf
    BY <1>3 DEF LimitHit
  <2>2. c.at = "limit" /\ c.age = call[r].age /\ c.l = conf /\ c.start = call[r].start /\ c \in LookUps
    BY DEF LookUps, CallSteps
  <2> HIDE DEF c
  <2>3. revoked < AuthTTL
    BY <2>1 DEF CacheInv, UserKnown
  <2>4. Bounds(c) /\ Over(c)
    BY <2>2 DEF Bounds, Over
  <2>5. c.l \in 0..MaxEdits /\ replaced[c.l] < ConfigTTL + QueryMax
    BY <1>1, <2>1, <2>2
  <2>6. revoked < AuthTTL + c.start /\ revoked < AuthTTL + QueryMax
    BY <2>2, <2>3
  <2> QED
    BY <1>0, <1>1, <2>1, <2>2, <2>4, <2>5, <2>6, CallStep
<1>4. CASE LimitRead(r)
  <2> DEFINE c == [call[r] EXCEPT !.at = "conf", !.l = limit, !.age = 0]
  <2>1. call' = [call EXCEPT ![r] = c] /\ call[r].at = "user"
        /\ userAge' = userAge /\ confAge' = confAge /\ conf' = conf
    BY <1>4 DEF LimitRead
  <2>2. c.at = "conf" /\ c.age = 0 /\ c.l = limit /\ c.start = call[r].start /\ c \in LookUps
    <3>1. call[r] \in LookUps /\ 0 \in 0..QueryMax /\ limit \in Conf
      BY DEF Conf
    <3> QED
      BY ONLY <3>1 DEF LookUps, CallSteps
  <2> HIDE DEF c
  <2>3. revoked < AuthTTL /\ call[r].start <= QueryMax
    BY <2>1 DEF CacheInv, UserKnown, Bounds
  <2>4. Bounds(c) /\ Over(c)
    BY <2>2, <2>3 DEF Bounds, Over
  <2>5. c.l \in 0..MaxEdits /\ replaced[c.l] <= c.age
    BY <2>2
  <2>6. revoked < AuthTTL + c.age /\ revoked < AuthTTL + c.start /\ revoked < AuthTTL + QueryMax
    BY <2>2, <2>3
  <2> QED
    BY <1>0, <1>1, <2>1, <2>2, <2>4, <2>5, <2>6, CallStep
<1>5. CASE LimitStore(r)
  <2> DEFINE c == [call[r] EXCEPT !.at = "limit", !.age = 0]
  <2>1. call' = [call EXCEPT ![r] = c] /\ call[r].at = "conf"
        /\ userAge' = userAge /\ confAge' = 0 /\ conf' = call[r].l
    BY <1>5 DEF LimitStore
  <2>2. c.at = "limit" /\ c.age = 0 /\ c.l = call[r].l /\ c.start = call[r].start /\ c \in LookUps
    <3>1. call[r] \in LookUps /\ 0 \in 0..QueryMax
      BY CallFields
    <3> QED
      BY ONLY <3>1 DEF LookUps, CallSteps
  <2> HIDE DEF c
  <2>3. /\ call[r].age \in 0..QueryMax /\ call[r].l \in 0..MaxEdits /\ replaced[call[r].l] <= call[r].age
        /\ revoked < AuthTTL + call[r].start /\ revoked < AuthTTL + QueryMax
    BY <2>1 DEF CacheInv, UserKnown, LimitKnown
  <2>4. Bounds(c) /\ Over(c)
    BY <2>2 DEF Bounds, Over
  <2>5. /\ c.l \in 0..MaxEdits /\ replaced[c.l] < ConfigTTL + QueryMax /\ conf' \in 0..MaxEdits
        /\ replaced[conf'] <= confAge' + QueryMax /\ confAge' \in 0..ConfigTTL /\ conf' \in Conf
    BY <1>1, <2>1, <2>2, <2>3 DEF Conf
  <2> QED
    BY <1>0, <1>1, <2>1, <2>2, <2>3, <2>4, <2>5, CallStep
<1> QED
  BY <1>2, <1>3, <1>4, <1>5

\* The shim stamps a key with the moment it asked.
LEMMA CacheAnswers ==
    ASSUME CacheInv, NEW r \in Requests, Answered(r) \/ ShimTakesError(r)
    PROVE  CacheInv'
<1> USE CacheConstants, CallFields DEF TablesUnchanged, Go
<1> DEFINE valid == [NoCall EXCEPT !.at = "validated"]
<1>0. /\ UNCHANGED <<active, revoked, limit, replaced>> /\ edits' \in edits..MaxEdits
      /\ userAge' = userAge /\ confAge' = confAge /\ conf' = conf
  <2>1. /\ UNCHANGED <<active, revoked, limit, replaced>> /\ (edits' = edits \/ Edit)
        /\ userAge' = userAge /\ confAge' = confAge /\ conf' = conf
    BY DEF Answered, ShimTakesError
  <2>2. edits \in 0..MaxEdits
    BY DEF CacheInv, CallsInv
  <2> QED
    BY <2>1, <2>2 DEF Edit
<1>1. /\ userAge' < AuthTTL => revoked <= userAge'
      /\ ~outage /\ shimAge < ShimTTL => revoked < AuthTTL + shimAge
      /\ confAge' < ConfigTTL => conf' \in 0..MaxEdits /\ replaced[conf'] <= confAge' + QueryMax
  BY <1>0 DEF CacheInv, UserKnown, LimitKnown
<1>2. valid.at = "validated" /\ valid \in LookUps /\ Bounds(valid) /\ Over(valid)
  BY CallOver
<1>3. CASE Answered(r) /\ ~call[r].shim
  <2>1. call' = [call EXCEPT ![r] = NoCall] /\ shimAge' = shimAge /\ outage' = outage
    BY <1>3 DEF Answered
  <2> QED
    BY <1>0, <1>1, <2>1, CallOver, CallStep
<1>4. CASE Answered(r) /\ call[r].shim
  <2>1. /\ call' = [call EXCEPT ![r] = valid] /\ shimAge' = ShimStamp(r) /\ outage' = outage
        /\ call[r].at = "limit"
    BY <1>4 DEF Answered
  <2>2. revoked < AuthTTL + call[r].start /\ revoked < AuthTTL + QueryMax
    BY <2>1 DEF CacheInv, UserKnown
  <2>3. /\ shimAge' \in 0..ShimTTL /\ (shimAge' < ShimTTL => revoked < AuthTTL + shimAge')
        /\ revoked + 1 < AuthTTL + ShimTTL
    BY <2>1, <2>2 DEF ShimStamp
  <2> HIDE DEF valid
  <2> QED
    BY <1>0, <1>1, <1>2, <2>1, <2>3, CallStep
<1>5. CASE ShimTakesError(r)
  <2>1. /\ call' = [call EXCEPT ![r] = valid] /\ shimAge' = ShimStamp(r) /\ outage' = TRUE
    BY <1>5 DEF ShimTakesError
  <2>2. shimAge' \in 0..ShimTTL
    BY <2>1 DEF ShimStamp
  <2> HIDE DEF valid
  <2> QED
    BY <1>0, <1>1, <1>2, <2>1, <2>2, CallStep
<1> QED
  BY <1>3, <1>4, <1>5

LEMMA CacheStays == ASSUME CacheInv, [CacheNext]_cacheVars PROVE CacheInv'
<1>1. CASE UNCHANGED cacheVars
  BY <1>1 DEF CacheInv, CallsInv, UserKnown, LimitKnown, cacheVars
<1>2. CASE EditUser \/ EditLimit \/ CacheTick
  BY <1>2, CacheEdit, CacheTicks
<1>3. ASSUME NEW r \in Requests,
             \/ ShimHit(r) \/ UserRow(r) \/ UserStore(r) \/ LimitHit(r) \/ LimitRead(r)
             \/ LimitStore(r) \/ Answered(r) \/ ShimTakesError(r) \/ ShimGoesOn(r)
             \/ \E shim \in BOOLEAN : UserHit(r, shim) \/ UserMiss(r, shim)
      PROVE  CacheInv'
  BY <1>3, CacheLookUp, CacheFills, CacheAnswers
<1> QED
  BY <1>1, <1>2, <1>3 DEF CacheNext

\* A key that is taken back is refused, and a limit that is changed holds, within the
\* TTLs of the caches, whatever the requests of the API and of the shim do between two
\* awaits, for any number of them and any TTLs longer than a query
\* (authenticate_principal, effective_limits, validate_api_key).
THEOREM CachesAreRecent == CacheSpec => []CachesRecent
<1> USE CacheConstants
<1>1. CacheInv => CachesRecent
  <2> SUFFICES ASSUME CacheInv PROVE CachesRecent
    OBVIOUS
  <2>1. CacheTypeOK
    <3>1. \A r \in Requests :
             /\ call[r].at \in CallSteps /\ call[r].age \in 0..QueryMax /\ call[r].start \in 0..(2 * QueryMax)
             /\ call[r].at \in {"idle", "validated"} => call[r] = [NoCall EXCEPT !.at = call[r].at]
      BY DEF CacheInv, CallsInv, LookUps, Over
    <3>2. limit \in 0..MaxEdits /\ conf \in 0..MaxEdits \cup {NoLimit}
      BY DEF CacheInv, CallsInv, Conf
    <3>3. /\ active \in BOOLEAN /\ outage \in BOOLEAN /\ revoked \in 0..Longest
          /\ replaced \in [0..MaxEdits -> 0..Longest] /\ userAge \in 0..AuthTTL
          /\ confAge \in 0..ConfigTTL /\ shimAge \in 0..ShimTTL /\ edits \in 0..MaxEdits
      BY DEF CacheInv, CallsInv
    <3> QED
      BY <3>1, <3>2, <3>3 DEF CacheTypeOK, CallSteps
  <2>2. RevokedIsRefused /\ ShimRevokedIsRefused
    BY DEF CacheInv, UserKnown, RevokedIsRefused, ShimRevokedIsRefused
  <2>3. LimitIsRecent
    <3> SUFFICES ASSUME NEW r \in Requests, call[r].at = "limit"
                 PROVE  replaced[call[r].l] < ConfigTTL + QueryMax + 1
      BY DEF LimitIsRecent
    <3>1. /\ call[r].l \in 0..MaxEdits /\ replaced[call[r].l] < ConfigTTL + QueryMax
          /\ replaced[call[r].l] \in Nat
      BY DEF CacheInv, CallsInv, LimitKnown
    <3> QED
      BY <3>1
  <2> QED
    BY <2>1, <2>2, <2>3 DEF CachesRecent
<1> QED
  BY <1>1, CacheInitial, CacheStays, PTL DEF CacheSpec

-----------------------------------------------------------------------------
\* What a submit is judged by.

Links == UNION {Tables[v][d] : v \in DOMAIN Tables, d \in Domains}
Cache == [rows : SUBSET Links, age : 0..LongAgo]
Queries == [at : {"idle", "reading", "read"}, ask : Asks \cup {NotGiven}, age : 0..ReadMax, rows : SUBSET Links]

\* The rows are those of a version that was in the tables no longer ago than age.
RowsOf(rows, d, age) == \E v \in DOMAIN Tables : unserved[v] <= age /\ rows = Capabilities(v, d)

JudgedInv ==
    /\ served \in DOMAIN Tables /\ unserved \in [DOMAIN Tables -> 0..LongAgo] /\ unserved[served] = 0
    /\ tableEdits \in 0..MaxTableEdits
    /\ caps \in [Domains -> Cache] /\ submit \in [Submits -> Queries]
    /\ \A d \in Domains : IF caps[d].rows = {} THEN caps[d].age = LongAgo
                          ELSE RowsOf(caps[d].rows, d, caps[d].age)
    /\ \A s \in Submits : /\ submit[s].at # "idle" => submit[s].ask \in Asks
                          /\ submit[s].at = "read" =>
                                RowsOf(submit[s].rows, submit[s].ask.domain, submit[s].age)
    /\ decision.answer \in {"none", "bad form", "403", "422", "accepted"}
    /\ DecisionIsRecent

LEMMA SpecConstants ==
    /\ CapabilitiesTTL \in Nat /\ CapabilitiesTTL > 0 /\ ReadMax \in Nat /\ MaxTableEdits \in Nat
    /\ LongAgo \in Nat /\ LongAgo = CapabilitiesTTL + ReadMax
    /\ \A a \in Asks : a.domain \in Domains
BY SpecAssumption DEF LongAgo

LEMMA OneOlder ==
    ASSUME NEW age \in 0..LongAgo
    PROVE  /\ Aging(age) \in 0..LongAgo /\ Aging(age) <= age + 1 /\ Aging(age) >= age
           /\ Aging(LongAgo) = LongAgo
           /\ \A other \in 0..LongAgo : other <= age => Aging(other) <= Aging(age)
BY SpecConstants DEF Aging

\* The verdict on the rows of a version is whether the dispatcher could place the job
\* there: the options schema is the domain's, whichever row is asked for it.
LEMMA VerdictOnVersion ==
    ASSUME NEW v \in DOMAIN Tables, NEW ask \in Asks
    PROVE  LET answer == Verdict(Capabilities(v, ask.domain), ask)
           IN  /\ answer \in {"accepted", "422"}
               /\ answer = "accepted" <=> Servable(v, ask)
<1> DEFINE rows == Capabilities(v, ask.domain)
           able == {r \in rows : ParseOutputs(ask) \subseteq r.outputs}
<1>1. \A r, s \in rows : r.schema = s.schema
  BY SpecAssumption, SpecConstants DEF Capabilities
<1>2. ResolveJobSpec(rows, ask) <=>
         /\ able # {} /\ OptionsValid(rows, ask.options)
         /\ \E r \in able : ValidateRequest(r.adapter, ask)
  BY Zenon DEF ResolveJobSpec, AdapterRejection
<1>3. able # {} => (OptionsValid(rows, ask.options) <=> \A r \in able : ask.options \subseteq r.schema)
  BY <1>1, Zenon DEF OptionsValid
<1>4. \A r, s \in able : r.schema = s.schema
  BY <1>1
<1>5. Servable(v, ask) <=>
         \E r \in able : ask.options \subseteq r.schema /\ ValidateRequest(r.adapter, ask)
  BY Zenon DEF Servable, Capabilities
<1> HIDE DEF able
<1>6. ResolveJobSpec(rows, ask) <=> Servable(v, ask)
  BY <1>2, <1>3, <1>4, <1>5, Zenon
<1> QED
  BY <1>6 DEF Verdict

LEMMA RowsAreLinks ==
    ASSUME NEW v \in DOMAIN Tables, NEW d \in Domains
    PROVE  /\ Capabilities(v, d) \in SUBSET Links
           /\ \A r \in Capabilities(v, d) : r.enabled /\ r \in Tables[v][d]
BY DEF Capabilities, Links

LEMMA JudgedInitially == SpecInit => JudgedInv
<1> SUFFICES ASSUME SpecInit PROVE JudgedInv
  OBVIOUS
<1> USE SpecConstants DEF SpecInit
<1>1. unserved \in [DOMAIN Tables -> 0..LongAgo] /\ unserved[served] = 0 /\ served \in DOMAIN Tables
  OBVIOUS
<1>2. /\ caps \in [Domains -> Cache] /\ \A d \in Domains : caps[d].rows = {} /\ caps[d].age = LongAgo
  BY DEF Cache
<1>3. NoSubmit \in Queries /\ NoSubmit.at = "idle"
  BY DEF NoSubmit, Queries
<1>4. submit \in [Submits -> Queries] /\ \A s \in Submits : submit[s].at = "idle"
  BY <1>3
<1>5. decision.answer = "none" /\ tableEdits \in 0..MaxTableEdits
  BY DEF Undecided
<1>6. DecisionIsRecent
  BY <1>5 DEF DecisionIsRecent
<1> QED
  BY ONLY <1>1, <1>2, <1>4, <1>5, <1>6 DEF JudgedInv

\* The tables are edited, or time goes by.
LEMMA JudgedThroughTime == ASSUME JudgedInv, EditTables \/ SpecTick PROVE JudgedInv'
<1> USE SpecConstants
<1>0. /\ served \in DOMAIN Tables /\ unserved \in [DOMAIN Tables -> 0..LongAgo]
      /\ caps \in [Domains -> Cache] /\ submit \in [Submits -> Queries]
  BY DEF JudgedInv
<1>1. decision'.answer = "none"
  BY DEF EditTables, SpecTick, Undecided
<1>2. DecisionIsRecent' /\ decision'.answer \in {"none", "bad form", "403", "422", "accepted"}
  BY <1>1 DEF DecisionIsRecent
<1>3. CASE EditTables
  <2>1. /\ served' \in DOMAIN Tables /\ unserved' = [unserved EXCEPT ![served'] = 0]
        /\ caps' = caps /\ submit' = submit /\ tableEdits' \in 0..MaxTableEdits
    <3>1. tableEdits < MaxTableEdits /\ tableEdits' = tableEdits + 1 /\ tableEdits \in 0..MaxTableEdits
      BY <1>3 DEF EditTables, JudgedInv
    <3> QED
      BY <1>3, <3>1 DEF EditTables
  <2>2. /\ unserved' \in [DOMAIN Tables -> 0..LongAgo] /\ unserved'[served'] = 0
        /\ \A v \in DOMAIN Tables : unserved'[v] <= unserved[v]
    BY <1>0, <2>1
  <2>3. ASSUME NEW rows, NEW d, NEW age \in Nat, RowsOf(rows, d, age) PROVE RowsOf(rows, d, age)'
    BY <1>0, <2>2, <2>3 DEF RowsOf
  <2>4. \A d \in Domains : caps[d].age \in Nat
    BY <1>0 DEF Cache
  <2>5. \A s \in Submits : submit[s].age \in Nat
    BY <1>0 DEF Queries
  <2> QED
    BY <1>2, <2>1, <2>2, <2>3, <2>4, <2>5 DEF JudgedInv
<1>4. CASE SpecTick
  <2>1. /\ served' = served /\ tableEdits' = tableEdits
        /\ unserved' = [v \in DOMAIN Tables |-> IF v = served THEN 0 ELSE Aging(unserved[v])]
    BY <1>4 DEF SpecTick
  <2>2. /\ unserved' \in [DOMAIN Tables -> 0..LongAgo] /\ unserved'[served'] = 0
        /\ \A v \in DOMAIN Tables : unserved'[v] <= Aging(unserved[v]) /\ unserved'[v] <= unserved[v] + 1
    BY <1>0, <2>1, OneOlder
  <2>3. ASSUME NEW d \in Domains
        PROVE  /\ caps'[d] \in Cache /\ caps'[d].rows = caps[d].rows /\ caps'[d].age = Aging(caps[d].age)
    BY <1>0, <1>4, OneOlder DEF SpecTick, Cache
  <2>4. caps' \in [Domains -> Cache]
    BY <1>4, <2>3 DEF SpecTick
  <2>5. ASSUME NEW d \in Domains
        PROVE  IF caps'[d].rows = {} THEN caps'[d].age = LongAgo
               ELSE RowsOf(caps[d].rows, d, caps[d].age)'
    <3>1. caps[d].age \in 0..LongAgo
      BY <1>0 DEF Cache
    <3>2. CASE caps[d].rows = {}
      BY <2>3, <3>1, <3>2, OneOlder DEF JudgedInv
    <3>3. CASE caps[d].rows # {}
      <4>1. PICK v \in DOMAIN Tables : unserved[v] <= caps[d].age /\ caps[d].rows = Capabilities(v, d)
        BY <3>3 DEF JudgedInv, RowsOf
      <4>2. unserved'[v] <= Aging(caps[d].age)
        <5>1. unserved[v] \in 0..LongAgo /\ unserved'[v] \in 0..LongAgo /\ unserved'[v] <= Aging(unserved[v])
          BY <1>0, <2>2
        <5>2. /\ Aging(unserved[v]) <= Aging(caps[d].age)
              /\ Aging(unserved[v]) \in 0..LongAgo /\ Aging(caps[d].age) \in 0..LongAgo
          BY <3>1, <4>1, <5>1, OneOlder
        <5> QED
          BY <5>1, <5>2
      <4>3. unserved'[v] <= caps'[d].age /\ caps'[d].rows = Capabilities(v, d)
        BY <2>3, <4>1, <4>2
      <4> QED
        BY <3>3, <4>1, <4>3, <2>3 DEF RowsOf
    <3> QED
      BY <3>2, <3>3
  <2>6. ASSUME NEW s \in Submits
        PROVE  /\ submit'[s] \in Queries /\ submit'[s].at = submit[s].at /\ submit'[s].ask = submit[s].ask
               /\ submit'[s].rows = submit[s].rows
               /\ submit[s].at = "read" => submit'[s].age = submit[s].age + 1
    <3> DEFINE c == [submit[s] EXCEPT !.age = @ + 1]
    <3>1. /\ submit'[s] = IF Reading(s) THEN c ELSE submit[s]
          /\ Reading(s) => submit[s].age < ReadMax
      BY <1>4 DEF SpecTick
    <3>2. Reading(s) => /\ c \in Queries /\ c.at = submit[s].at /\ c.ask = submit[s].ask
                        /\ c.rows = submit[s].rows /\ c.age = submit[s].age + 1
      BY <1>0, <3>1 DEF Queries
    <3>3. submit[s] \in Queries /\ (submit[s].at = "read" => Reading(s))
      BY <1>0 DEF Reading
    <3> HIDE DEF c
    <3> QED
      BY <3>1, <3>2, <3>3
  <2>7. submit' \in [Submits -> Queries]
    BY <1>4, <2>6 DEF SpecTick
  <2>8. ASSUME NEW s \in Submits, submit'[s].at = "read"
        PROVE  RowsOf(submit[s].rows, submit[s].ask.domain, submit[s].age)'
    <3>1. PICK v \in DOMAIN Tables :
             unserved[v] <= submit[s].age /\ submit[s].rows = Capabilities(v, submit[s].ask.domain)
      BY <2>6, <2>8 DEF JudgedInv, RowsOf
    <3>2. unserved'[v] <= submit[s].age + 1
      <4>1. submit[s].age \in Nat /\ unserved[v] \in Nat /\ unserved'[v] \in Nat
        BY <1>0, <2>2 DEF Queries
      <4> QED
        BY <2>2, <3>1, <4>1
    <3>3. /\ unserved'[v] <= submit'[s].age
          /\ submit'[s].rows = Capabilities(v, submit'[s].ask.domain)
      BY <2>6, <2>8, <3>1, <3>2
    <3> QED
      BY <3>3 DEF RowsOf
  <2>9. \A s \in Submits : submit'[s].at # "idle" => submit'[s].ask \in Asks
    BY <2>6 DEF JudgedInv
  <2> QED
    <3>1. served' \in DOMAIN Tables /\ tableEdits' \in 0..MaxTableEdits
      BY <1>0, <2>1 DEF JudgedInv
    <3> QED
      BY ONLY <1>2, <2>2, <2>4, <2>5, <2>7, <2>8, <2>9, <3>1 DEF JudgedInv
<1> QED
  BY <1>3, <1>4

\* A request that reads the tables, or refuses what the key may not have.
LEMMA JudgedWhileAsking ==
    ASSUME JudgedInv, NEW s \in Submits,
           \/ CapabilitiesRead(s)
           \/ \E ask \in Asks, key \in Keys : CapabilitiesMiss(s, ask, key) \/ RefuseForm(s, ask, key)
    PROVE  JudgedInv'
<1> USE SpecConstants
<1>0. /\ served' = served /\ unserved' = unserved /\ tableEdits' = tableEdits /\ caps' = caps
      /\ submit \in [Submits -> Queries] /\ unserved[served] = 0 /\ served \in DOMAIN Tables
      /\ decision'.answer \in {"none", "bad form", "403"}
  <2>1. /\ served' = served /\ unserved' = unserved /\ tableEdits' = tableEdits /\ caps' = caps
        /\ \/ decision' = Undecided
           \/ \E ask \in Asks, answer \in {"bad form", "403"} :
                 decision' = [ask |-> ask, age |-> 0, answer |-> answer]
    BY DEF CapabilitiesRead, CapabilitiesMiss, RefuseForm, TablesStay
  <2>3. decision'.answer \in {"none", "bad form", "403"}
    <3>1. CASE decision' = Undecided
      BY <3>1 DEF Undecided
    <3>2. ASSUME NEW ask \in Asks, NEW answer \in {"bad form", "403"},
                 decision' = [ask |-> ask, age |-> 0, answer |-> answer]
          PROVE  decision'.answer \in {"none", "bad form", "403"}
      BY <3>2
    <3> QED
      BY <2>1, <3>1, <3>2
  <2>2. submit \in [Submits -> Queries] /\ unserved[served] = 0 /\ served \in DOMAIN Tables
    BY DEF JudgedInv
  <2> QED
    BY <2>1, <2>2, <2>3
<1>1. DecisionIsRecent' /\ decision'.answer \in {"none", "bad form", "403", "422", "accepted"}
  BY <1>0 DEF DecisionIsRecent
<1>2. ASSUME NEW c \in Queries, submit' = [submit EXCEPT ![s] = c], c.at # "idle" => c.ask \in Asks,
             c.at = "read" => RowsOf(c.rows, c.ask.domain, c.age)
      PROVE  JudgedInv'
  <2>1. submit' \in [Submits -> Queries] /\ submit'[s] = c /\ \A t \in Submits \ {s} : submit'[t] = submit[t]
    BY <1>0, <1>2
  <2>2. \A t \in Submits : /\ submit'[t].at # "idle" => submit'[t].ask \in Asks
                           /\ submit'[t].at = "read" =>
                                 RowsOf(submit'[t].rows, submit'[t].ask.domain, submit'[t].age)
    BY <1>2, <2>1 DEF JudgedInv
  <2> QED
    BY <1>0, <1>1, <2>1, <2>2 DEF JudgedInv, RowsOf
<1>3. CASE CapabilitiesRead(s)
  <2> DEFINE rows == Capabilities(served, submit[s].ask.domain)
             c == [submit[s] EXCEPT !.at = "read", !.rows = rows]
  <2>1. submit[s].at = "reading" /\ submit[s] \in Queries /\ submit[s].ask \in Asks
    BY <1>0, <1>3 DEF CapabilitiesRead, JudgedInv
  <2>2. submit' = [submit EXCEPT ![s] = c]
    BY <1>0, <1>3, <2>1 DEF CapabilitiesRead
  <2>3. rows \in SUBSET Links
    BY <1>0, <2>1, RowsAreLinks
  <2> HIDE DEF rows
  <2>4. /\ c \in Queries /\ c.at = "read" /\ c.rows = rows /\ c.ask = submit[s].ask
        /\ c.age \in Nat
    <3>1. c.at = "read" /\ c.rows = rows /\ c.ask = submit[s].ask /\ c.age = submit[s].age
      BY ONLY <2>1 DEF Queries, c
    <3>2. c \in Queries
      BY ONLY <2>1, <2>3 DEF Queries, c
    <3>3. submit[s].age \in Nat
      BY <2>1 DEF Queries
    <3> QED
      BY <3>1, <3>2, <3>3
  <2>5. RowsOf(c.rows, c.ask.domain, c.age)
    <3>1. c.rows = rows /\ c.ask = submit[s].ask /\ c.age \in Nat
      BY <2>4
    <3>2. rows = Capabilities(served, submit[s].ask.domain)
      BY DEF rows
    <3> HIDE DEF c
    <3>3. unserved[served] <= c.age
      <4>1. unserved[served] = 0
        BY <1>0
      <4> QED
        BY ONLY <3>1, <4>1
    <3>4. c.rows = Capabilities(served, c.ask.domain)
      BY ONLY <3>1, <3>2
    <3> QED
      BY <1>0, <3>3, <3>4 DEF RowsOf
  <2> HIDE DEF c
  <2> QED
    BY <1>2, <2>1, <2>2, <2>4, <2>5
<1>4. ASSUME NEW ask \in Asks, NEW key \in Keys, CapabilitiesMiss(s, ask, key) PROVE JudgedInv'
  <2> DEFINE c == [NoSubmit EXCEPT !.at = "reading", !.ask = ask]
  <2>1. submit' = [submit EXCEPT ![s] = c]
    BY <1>4 DEF CapabilitiesMiss
  <2>2. c \in Queries /\ c.at = "reading" /\ c.ask = ask
    <3>1. NoSubmit \in Queries
      BY DEF NoSubmit, Queries
    <3> QED
      BY ONLY <3>1, ask \in Asks DEF Queries
  <2> HIDE DEF c
  <2> QED
    BY <1>2, <2>1, <2>2
<1>5. ASSUME NEW ask \in Asks, NEW key \in Keys, RefuseForm(s, ask, key) PROVE JudgedInv'
  <2>1. submit' = submit
    BY <1>5 DEF RefuseForm
  <2> QED
    BY <1>0, <1>1, <2>1 DEF JudgedInv, RowsOf
<1> QED
  BY <1>3, <1>4, <1>5

\* A decision on rows that some version had.
LEMMA DecidedRecently ==
    ASSUME NEW ask \in Asks, NEW age, NEW rows, Decides(ask, age, rows),
           RowsOf(rows, ask.domain, age), unserved' = unserved
    PROVE  DecisionIsRecent' /\ decision'.answer \in {"none", "bad form", "403", "422", "accepted"}
<1>1. PICK v \in DOMAIN Tables : unserved[v] <= age /\ rows = Capabilities(v, ask.domain)
  BY DEF RowsOf
<1>2. decision'.ask = ask /\ decision'.age = age /\ decision'.answer = Verdict(rows, ask)
  BY DEF Decides
<1>3. /\ decision'.answer \in {"accepted", "422"}
      /\ Servable(v, decision'.ask) <=> decision'.answer = "accepted"
  BY <1>1, <1>2, VerdictOnVersion
<1>4. unserved'[v] <= decision'.age
  BY <1>1, <1>2
<1>5. DecisionIsRecent'
  BY <1>3, <1>4 DEF DecisionIsRecent, Servable
<1> QED
  BY <1>3, <1>5

\* A decision from the cache, and one on what the request's own query has read.
LEMMA JudgedAtDecision ==
    ASSUME JudgedInv, NEW s \in Submits,
           \/ CapabilitiesStore(s)
           \/ \E ask \in Asks, key \in Keys : CapabilitiesHit(s, ask, key)
    PROVE  JudgedInv'
<1> USE SpecConstants
<1>0. /\ served' = served /\ unserved' = unserved /\ tableEdits' = tableEdits
      /\ caps \in [Domains -> Cache] /\ submit \in [Submits -> Queries]
      /\ unserved \in [DOMAIN Tables -> 0..LongAgo]
  BY DEF CapabilitiesStore, CapabilitiesHit, TablesStay, JudgedInv
<1>1. ASSUME NEW ask \in Asks, NEW key \in Keys, CapabilitiesHit(s, ask, key) PROVE JudgedInv'
  <2>1. /\ caps' = caps /\ submit' = submit /\ Cached(ask.domain)
        /\ Decides(ask, CapabilitiesTTL - 1, caps[ask.domain].rows) /\ ask.domain \in Domains
    BY <1>1 DEF CapabilitiesHit
  <2>2. PICK v \in DOMAIN Tables :
           unserved[v] <= caps[ask.domain].age /\ caps[ask.domain].rows = Capabilities(v, ask.domain)
    BY <2>1 DEF Cached, JudgedInv, RowsOf
  <2>3. caps[ask.domain].age \in Nat /\ caps[ask.domain].age < CapabilitiesTTL /\ unserved[v] \in Nat
    BY <1>0, <2>1 DEF Cached, Cache
  <2>4. RowsOf(caps[ask.domain].rows, ask.domain, CapabilitiesTTL - 1)
    BY <2>2, <2>3 DEF RowsOf
  <2>5. DecisionIsRecent' /\ decision'.answer \in {"none", "bad form", "403", "422", "accepted"}
    BY <1>0, <2>1, <2>4, DecidedRecently
  <2> QED
    BY <1>0, <2>1, <2>5 DEF JudgedInv, RowsOf
<1>2. CASE CapabilitiesStore(s)
  <2> DEFINE ask == submit[s].ask
             rows == submit[s].rows
  <2>1. /\ submit[s].at = "read" /\ submit[s] \in Queries /\ ask \in Asks /\ ask.domain \in Domains
        /\ RowsOf(rows, ask.domain, submit[s].age)
    BY <1>0, <1>2 DEF CapabilitiesStore, JudgedInv
  <2>2. /\ caps' = Stored(s) /\ Decides(ask, submit[s].age, rows)
        /\ submit' = [submit EXCEPT ![s] = NoSubmit]
    BY <1>2 DEF CapabilitiesStore
  <2>3. DecisionIsRecent' /\ decision'.answer \in {"none", "bad form", "403", "422", "accepted"}
    BY <1>0, <2>1, <2>2, DecidedRecently
  <2>4. Entry(s) \in Cache /\ Entry(s).rows = rows /\ Entry(s).age = submit[s].age
    BY <2>1 DEF Entry, Queries, Cache
  <2>5. /\ caps' \in [Domains -> Cache]
        /\ \A d \in Domains : \/ caps'[d] = caps[d]
                              \/ d = ask.domain /\ rows # {} /\ caps'[d] = Entry(s)
    BY <1>0, <2>1, <2>2, <2>4 DEF Stored
  <2>6. \A d \in Domains : IF caps'[d].rows = {} THEN caps'[d].age = LongAgo
                           ELSE RowsOf(caps'[d].rows, d, caps'[d].age)
    BY <2>1, <2>4, <2>5 DEF JudgedInv
  <2>7. NoSubmit \in Queries /\ NoSubmit.at = "idle"
    BY DEF NoSubmit, Queries
  <2>8. /\ submit' \in [Submits -> Queries]
        /\ \A t \in Submits : submit'[t].at = "idle" \/ submit'[t] = submit[t]
    BY <1>0, <2>2, <2>7
  <2>9. \A t \in Submits : /\ submit'[t].at # "idle" => submit'[t].ask \in Asks
                           /\ submit'[t].at = "read" =>
                                 RowsOf(submit'[t].rows, submit'[t].ask.domain, submit'[t].age)
    BY <2>8 DEF JudgedInv
  <2> HIDE DEF ask, rows
  <2> QED
    BY <1>0, <2>3, <2>5, <2>6, <2>8, <2>9 DEF JudgedInv, RowsOf
<1> QED
  BY <1>1, <1>2

LEMMA JudgedStays == ASSUME JudgedInv, [SpecNext]_specVars PROVE JudgedInv'
<1>1. CASE UNCHANGED specVars
  BY <1>1 DEF JudgedInv, RowsOf, DecisionIsRecent, specVars
<1>2. CASE EditTables \/ SpecTick
  BY <1>2, JudgedThroughTime
<1>3. ASSUME NEW s \in Submits, CapabilitiesRead(s) PROVE JudgedInv'
  BY <1>3, JudgedWhileAsking
<1>4. ASSUME NEW s \in Submits, NEW ask \in Asks, NEW key \in Keys,
             RefuseForm(s, ask, key) \/ CapabilitiesHit(s, ask, key) \/ CapabilitiesMiss(s, ask, key)
      PROVE  JudgedInv'
  BY <1>4, JudgedWhileAsking, JudgedAtDecision
<1>5. ASSUME NEW s \in Submits, CapabilitiesStore(s) PROVE JudgedInv'
  BY <1>5, JudgedAtDecision
<1> QED
  BY <1>1, <1>2, <1>3, <1>4, <1>5 DEF SpecNext

\* What is listed is there, and one output without options is refused by no adapter.
LEMMA ListedIsThere == ASSUME served \in DOMAIN Tables PROVE ListedIsAccepted
<1> SUFFICES ASSUME NEW key \in Keys, NEW d \in Domains, NEW o \in ListDomains(key)[d]
             PROVE  LET ask == [domain |-> d, fmt |-> "alto", raw |-> {o}, options |-> {}]
                    IN  CheckScope(key, ask) /\ ResolveJobSpec(Capabilities(served, d), ask)
  BY DEF ListedIsAccepted
<1> DEFINE ask == [domain |-> d, fmt |-> "alto", raw |-> {o}, options |-> {}]
<1>1. /\ o \in ServedOutputs(served, d)
      /\ key.domains # NotGiven => d \in key.domains
      /\ key.outputs # NotGiven => o \in key.outputs
  BY DEF ListDomains, VisibleOutputs
<1>2. PICK r \in Capabilities(served, d) : o \in r.outputs
  BY <1>1 DEF ServedOutputs
<1>3. {o} # NotGiven
  BY <1>2, SpecAssumption DEF Capabilities
<1>4. ask.domain = d /\ ask.raw = {o} /\ ask.options = {}
  OBVIOUS
<1>5. ParseOutputs(ask) = {o}
  BY <1>3, <1>4 DEF ParseOutputs
<1> HIDE DEF ask
<1>6. CheckScope(key, ask)
  BY <1>1, <1>4, <1>5 DEF CheckScope
<1>7. \A a : ValidateRequest(a, ask)
  BY <1>4 DEF ValidateRequest
<1>8. ResolveJobSpec(Capabilities(served, d), ask)
  BY <1>2, <1>4, <1>5, <1>7 DEF ResolveJobSpec, OptionsValid, AdapterRejection
<1> QED
  BY <1>6, <1>8 DEF ask

\* A job is accepted, or refused, by what some version of the tables of the last
\* CAPABILITIES_TTL_SECONDS, or since the request's own query was sent, can do with it,
\* for any tables, forms, keys and requests that interleave; and what GET /domains
\* lists is accepted (resolve_job_spec, _domain_capabilities, list_domains).
THEOREM SubmitsAreJudged == SpecSpec => []SubmitSound
<1> USE SpecConstants
<1>1. JudgedInv => SubmitSound
  <2> SUFFICES ASSUME JudgedInv PROVE SubmitSound
    OBVIOUS
  <2>1. \A d \in Domains : /\ caps[d].age \in 0..LongAgo
                           /\ caps[d].rows = {} => caps[d].age = LongAgo
    BY DEF JudgedInv, Cache
  <2>2. \A d \in Domains : \A r \in caps[d].rows : r.enabled /\ \E v \in DOMAIN Tables : r \in Tables[v][d]
    <3> SUFFICES ASSUME NEW d \in Domains, NEW r \in caps[d].rows
                 PROVE  r.enabled /\ \E v \in DOMAIN Tables : r \in Tables[v][d]
      OBVIOUS
    <3>1. PICK v \in DOMAIN Tables : caps[d].rows = Capabilities(v, d)
      BY DEF JudgedInv, RowsOf
    <3> QED
      BY <3>1, RowsAreLinks
  <2>3. \A s \in Submits : submit[s].at \in {"idle", "reading", "read"} /\ submit[s].age \in 0..ReadMax
    BY DEF JudgedInv, Queries
  <2>4. SpecTypeOK
    BY <2>1, <2>2, <2>3 DEF JudgedInv, SpecTypeOK
  <2>5. ListedIsAccepted
    BY ListedIsThere DEF JudgedInv
  <2> QED
    BY <2>4, <2>5 DEF JudgedInv, SubmitSound
<1> QED
  BY <1>1, JudgedInitially, JudgedStays, PTL DEF SpecSpec

-----------------------------------------------------------------------------
\* The legacy shim in front of the limiter.

\* A sleep is cut off before the minute that a limit of no requests at all asks for
\* (MAX_SLEEP_PER_ATTEMPT is 10 s, check answers 60 s).
ShortSleep == MaxSleep < 60 * Second

Legacies == [op : {"none", "upload", "status", "download"}, file : Files \cup {NoFile},
             at : {"idle", "post", "record", "get", "fetch"}, job : GatewayJobs \cup {NoJob},
             sleep : 0..Budget, left : 0..Budget, since : Nat, alone : BOOLEAN]

\* What has been slept and what is left make up one budget, or two for a download.
CallKept(l) ==
    /\ l.sleep <= l.left
    /\ l.since + l.left <= IF l.at = "fetch" THEN 2 * Budget ELSE Budget
    /\ l.at \in {"post", "record"} => l.op = "upload" /\ CompatTTL > 0
    /\ l.at \in {"get", "fetch"} => l.op \in {"status", "download"}
    /\ l.at # "idle" => l.file \in Files
    /\ l.at = "record" => l.job \in GatewayJobs

\* Who is alone with the limiter sleeps until his debt is within the burst.
CallWaits(l) == l.alone => Limit.t > 0 /\ Debt(ClassOf(l.op)) <= Tau(Limit) + l.sleep

\* The id of an image that was acknowledged lives as long as the request.
KeysInv ==
    /\ known \in 0..CompatTTL /\ idTtl \in [Files -> 0..CompatTTL]
    /\ idOf \in [Files -> GatewayJobs \cup {NoJob}]
    /\ \A f \in Files : idOf[f] # NoJob <=> idTtl[f] > 0
    /\ job \subseteq GatewayJobs /\ acked \subseteq Files
    /\ \A f \in acked : idTtl[f] >= known
CallsKept ==
    /\ legacy \in [Calls -> Legacies]
    /\ \A c \in Calls : CallKept(legacy[c]) /\ CallWaits(legacy[c])

ShimInv == RLInv /\ KeysInv /\ CallsKept

LEMMA CompatConstants ==
    /\ CompatTTL \in Nat /\ Budget \in Nat /\ MaxSleep \in Nat /\ Jitter \in Nat
    /\ NoFile \notin Files /\ NoJob \notin GatewayJobs
    /\ Users = {"submit", "query"} /\ \A op : ClassOf(op) \in Users
    /\ \A k \in Rivals : k \in Users
BY CompatAssumption DEF ClassOf

\* A request of one class moves the debt of that class only, and a tick lowers each.
LEMMA DebtMoves ==
    /\ RLInv => /\ \A u, v \in Users : Admit(u, Limit) /\ v # u => Debt(v)' = Debt(v)
                /\ RLTick => \A u \in Users : Debt(u)' = IF Debt(u) > 0 THEN Debt(u) - 1 ELSE 0
                /\ \A u \in Users : Debt(u) \in Nat
    /\ UNCHANGED rlVars => \A u : Debt(u)' = Debt(u)
<1>1. ASSUME RLInv, NEW u \in Users, NEW v \in Users, Admit(u, Limit), v # u PROVE Debt(v)' = Debt(v)
  BY <1>1 DEF Admit, Debt, RLInv, RLTypeOK
<1>2. ASSUME RLInv, RLTick, NEW u \in Users
      PROVE  Debt(u)' = IF Debt(u) > 0 THEN Debt(u) - 1 ELSE 0
  BY <1>2, LimitAssumption DEF RLInv, RLTypeOK, DebtOutlived, RLTick, Debt
<1>3. UNCHANGED rlVars => \A u : Debt(u)' = Debt(u)
  BY DEF rlVars, Debt
<1>4. RLInv => \A u \in Users : Debt(u) \in Nat
  BY DebtNat DEF RLInv
<1> QED
  BY <1>1, <1>2, <1>3, <1>4

\* Where there is no limit the user waits for a minute; else for no less than it takes
\* the debt to shrink to the burst.
LEMMA RetryAfterCovers ==
    ASSUME RLInv, ShortSleep, NEW c \in Calls, Refused(ClassOf(legacy[c].op), Limit)
    PROVE  /\ SleepFor(c) \in Nat
           /\ SleepFor(c) <= MaxSleep =>
                Limit.t > 0 /\ Debt(ClassOf(legacy[c].op)) <= Tau(Limit) + SleepFor(c)
<1> DEFINE d == Debt(ClassOf(legacy[c].op))
           x == d - Tau(Limit)
<1>1. d \in Nat /\ Tau(Limit) \in Nat /\ Limit.t \in Nat
  BY DebtMoves, CompatConstants, TauNat
<1>2. CASE Limit.t = 0
  BY <1>2, CompatConstants DEF SleepFor, RetryAfter, Second, ShortSleep
<1>3. CASE Limit.t > 0
  <2>1. SleepFor(c) = 2 * ((x + 2 - 1) \div 2)
    BY <1>3 DEF SleepFor, RetryAfter, Second
  <2>2. x \in Nat
    BY <1>1, <1>3 DEF Refused, Allows
  <2> HIDE DEF x
  <2>3. 2 * ((x + 2 - 1) \div 2) \in Nat /\ 2 * ((x + 2 - 1) \div 2) >= x
    BY <2>2
  <2> HIDE DEF d
  <2>4. SleepFor(c) \in Nat /\ d <= Tau(Limit) + SleepFor(c)
    BY <1>1, <2>1, <2>3 DEF x
  <2> QED
    BY <1>3, <2>4 DEF d
<1> QED
  BY <1>1, <1>2, <1>3

LEMMA NewCalls ==
    /\ NoLegacy \in Legacies /\ CallKept(NoLegacy) /\ CallWaits(NoLegacy) /\ ~NoLegacy.alone
    /\ NoLegacy.at = "idle" /\ NoLegacy.since = 0
    /\ \A op \in {"upload", "status", "download"}, f \in Files, j \in GatewayJobs \cup {NoJob},
          at \in {"post", "get", "fetch"}, n \in 0..Budget :
          LET l == [Asking(op, f, j, at) EXCEPT !.since = n]
          IN  /\ l \in Legacies /\ l.op = op /\ l.at = at /\ l.job = j /\ l.sleep = 0
              /\ l.left = Budget /\ l.since = n /\ ~l.alone /\ l.file = f
              /\ n = 0 => l = Asking(op, f, j, at)
<1> USE CompatConstants
<1>1. /\ NoLegacy \in Legacies /\ ~NoLegacy.alone /\ NoLegacy.at = "idle" /\ NoLegacy.since = 0
      /\ NoLegacy.left = 0 /\ NoLegacy.sleep = 0
  BY DEF NoLegacy, Legacies
<1>2. CallKept(NoLegacy) /\ CallWaits(NoLegacy)
  BY <1>1 DEF CallKept, CallWaits
<1>3. ASSUME NEW op \in {"upload", "status", "download"}, NEW f \in Files,
             NEW j \in GatewayJobs \cup {NoJob}, NEW at \in {"post", "get", "fetch"}, NEW n \in 0..Budget
      PROVE  LET l == [Asking(op, f, j, at) EXCEPT !.since = n]
             IN  /\ l \in Legacies /\ l.op = op /\ l.at = at /\ l.job = j /\ l.sleep = 0
                 /\ l.left = Budget /\ l.since = n /\ ~l.alone /\ l.file = f
                 /\ n = 0 => l = Asking(op, f, j, at)
  <2> DEFINE a == Asking(op, f, j, at)
             l == [a EXCEPT !.since = n]
  <2>1. /\ a \in Legacies /\ a.op = op /\ a.at = at /\ a.job = j /\ a.sleep = 0 /\ a.left = Budget
        /\ a.since = 0 /\ ~a.alone /\ a.file = f
    <3>1. a = [NoLegacy EXCEPT !.op = op, !.file = f, !.job = j, !.at = at, !.left = Budget]
      BY DEF Asking
    <3> HIDE DEF a
    <3>2. a \in Legacies
      <4>1. Budget \in 0..Budget
        OBVIOUS
      <4> DEFINE b == [NoLegacy EXCEPT !.op = op, !.file = f]
      <4>2. b \in Legacies
        BY ONLY <1>1, op \in {"upload", "status", "download"}, f \in Files DEF Legacies
      <4> DEFINE e == [b EXCEPT !.job = j, !.at = at]
      <4> HIDE DEF b
      <4>3. e \in Legacies
        BY ONLY <4>2, j \in GatewayJobs \cup {NoJob}, at \in {"post", "get", "fetch"} DEF Legacies, e
      <4> HIDE DEF e
      <4>4. [e EXCEPT !.left = Budget] \in Legacies
        BY ONLY <4>1, <4>3 DEF Legacies
      <4> QED
        BY ONLY <3>1, <4>4 DEF b, e
    <3>3. a.op = op /\ a.at = at /\ a.job = j /\ a.left = Budget /\ a.file = f
      BY ONLY <1>1, <3>1 DEF Legacies
    <3>4. a.sleep = 0 /\ a.since = 0 /\ a.alone = NoLegacy.alone
      BY ONLY <1>1, <3>1 DEF Legacies
    <3> QED
      BY <1>1, <3>2, <3>3, <3>4
  <2> HIDE DEF a
  <2>2. l \in Legacies
    BY <2>1 DEF Legacies
  <2>3. /\ l.op = op /\ l.at = at /\ l.job = j /\ l.sleep = 0
        /\ l.left = Budget /\ l.since = n /\ ~l.alone /\ l.file = f
    BY <2>1 DEF Legacies
  <2>4. n = 0 => l = a
    BY <2>1 DEF Legacies
  <2> QED
    BY <2>2, <2>3, <2>4 DEF a
<1> QED
  BY <1>1, <1>2, <1>3

LEMMA ShimInitial == CompatInit => ShimInv
<1> USE CompatConstants
<1>1. ASSUME CompatInit PROVE KeysInv
  BY <1>1 DEF CompatInit, KeysInv
<1>2. ASSUME CompatInit PROVE CallsKept
  BY <1>2, NewCalls DEF CompatInit, CallsKept
<1> QED
  BY <1>1, <1>2, RLInvInit DEF CompatInit, ShimInv

\* A step of a call: every other call of its class notices that the limiter has moved.
LEMMA CallsStep ==
    ASSUME ShimInv, RLInv', legacy' \in [Calls -> Legacies],
           \A d \in Calls : \/ /\ legacy'[d] = legacy[d]
                               /\ \A k \in Users : k = ClassOf(legacy[d].op) => Debt(k)' = Debt(k)
                            \/ CallKept(legacy'[d]) /\ ~legacy'[d].alone
    PROVE  CallsKept'
<1>1. ASSUME NEW d \in Calls PROVE CallKept(legacy[d])' /\ CallWaits(legacy[d])'
  <2>1. CASE /\ legacy'[d] = legacy[d]
             /\ \A k \in Users : k = ClassOf(legacy[d].op) => Debt(k)' = Debt(k)
    <3>1. PICK k \in Users : k = ClassOf(legacy[d].op)
      BY CompatConstants
    <3>2. CallKept(legacy[d]) /\ (legacy[d].alone => Limit.t > 0 /\ Debt(k) <= Tau(Limit) + legacy[d].sleep)
      BY <3>1 DEF ShimInv, CallsKept, CallWaits
    <3> QED
      BY <2>1, <3>1, <3>2 DEF CallKept, CallWaits, Tau
  <2>2. CASE CallKept(legacy'[d]) /\ ~legacy'[d].alone
    BY <2>2 DEF CallKept, CallWaits
  <2> QED
    BY <2>1, <2>2
<1> QED
  BY <1>1 DEF CallsKept

\* A call that has been disturbed is otherwise what it was.
LEMMA NotAlone ==
    ASSUME NEW l \in Legacies
    PROVE  LET m == [l EXCEPT !.alone = FALSE]
           IN  m \in Legacies /\ ~m.alone /\ (CallKept(l) => CallKept(m))
<1> DEFINE m == [l EXCEPT !.alone = FALSE]
<1>1. m \in Legacies
  BY DEF Legacies
<1>2. /\ m.op = l.op /\ m.at = l.at /\ m.job = l.job /\ m.file = l.file /\ m.sleep = l.sleep /\ m.left = l.left
      /\ m.since = l.since /\ ~m.alone
  BY DEF Legacies
<1> HIDE DEF m
<1>3. CallKept(l) => CallKept(m)
  BY <1>2 DEF CallKept
<1> QED
  BY <1>1, <1>2, <1>3 DEF m

LEMMA ShimTick == ASSUME ShimInv, CompatTick PROVE ShimInv'
<1> USE CompatConstants
<1>0. RLInv /\ RLTick /\ job' = job /\ acked' = acked
  BY DEF ShimInv, CompatTick
<1>1. RLInv'
  BY <1>0, RLInvTick
<1>2. KeysInv'
  <2>0. /\ known \in 0..CompatTTL /\ idTtl \in [Files -> 0..CompatTTL]
        /\ idOf \in [Files -> GatewayJobs \cup {NoJob}]
        /\ \A f \in Files : idOf[f] # NoJob <=> idTtl[f] > 0
        /\ known' = IF known > 0 THEN known - 1 ELSE 0
        /\ idTtl' = [f \in Files |-> IF idTtl[f] > 0 THEN idTtl[f] - 1 ELSE 0]
        /\ idOf' = [f \in Files |-> IF idTtl[f] > 1 THEN idOf[f] ELSE NoJob]
    BY DEF CompatTick, ShimInv, KeysInv
  <2>1. /\ known' \in 0..CompatTTL /\ (known > 0 => known' = known - 1) /\ (known <= 0 => known' = 0)
        /\ known \in 0..CompatTTL
    BY ONLY <2>0, CompatConstants
  <2>2. \A f \in Files : /\ idTtl[f] \in 0..CompatTTL
                         /\ idTtl'[f] = IF idTtl[f] > 0 THEN idTtl[f] - 1 ELSE 0
                         /\ idOf'[f] = IF idTtl[f] > 1 THEN idOf[f] ELSE NoJob
    BY <2>0
  <2>3. idTtl' \in [Files -> 0..CompatTTL]
    BY ONLY <2>0, CompatConstants
  <2>4. idOf' \in [Files -> GatewayJobs \cup {NoJob}] /\ \A f \in Files : idOf'[f] # NoJob <=> idTtl'[f] > 0
    <3>1. idOf' \in [Files -> GatewayJobs \cup {NoJob}]
      BY ONLY <2>0
    <3>2. ASSUME NEW f \in Files PROVE idOf'[f] # NoJob <=> idTtl'[f] > 0
      BY ONLY <2>0, <2>2, <3>2, CompatConstants
    <3> QED
      BY <3>1, <3>2
  <2>5. \A f \in acked : idTtl'[f] >= known'
    BY <2>1, <2>2 DEF ShimInv, KeysInv
  <2> QED
    BY <1>0, <2>1, <2>3, <2>4, <2>5 DEF ShimInv, KeysInv
<1>3. ASSUME NEW c \in Calls
      PROVE  legacy'[c] \in Legacies /\ CallKept(legacy'[c]) /\ CallWaits(legacy[c])'
  <2> DEFINE l == legacy[c]
             m == [l EXCEPT !.sleep = @ - 1, !.left = @ - 1, !.since = @ + 1]
  <2>0. PICK u \in Users : u = ClassOf(l.op)
    OBVIOUS
  <2>1. /\ l \in Legacies /\ CallKept(l) /\ CallWaits(l) /\ (l.at = "idle" \/ l.sleep > 0)
        /\ legacy'[c] = IF l.at = "idle" THEN l ELSE m
    BY DEF CompatTick, ShimInv, CallsKept
  <2>2. u \in Users /\ Debt(u) \in Nat /\ Debt(u)' = (IF Debt(u) > 0 THEN Debt(u) - 1 ELSE 0) /\ Tau(Limit) \in Nat
    BY <1>0, DebtMoves, TauNat
  <2>3. CASE l.at = "idle"
    <3>1. legacy'[c] = l
      BY <2>1, <2>3
    <3>2. l.alone => Limit.t > 0 /\ Debt(u)' <= Tau(Limit) + l.sleep
      <4>1. l.sleep \in Nat
        BY <2>1 DEF Legacies
      <4>2. l.alone => Limit.t > 0 /\ Debt(u) <= Tau(Limit) + l.sleep
        BY <2>0, <2>1 DEF CallWaits
      <4> QED
        BY <2>2, <4>1, <4>2
    <3> QED
      BY <2>0, <2>1, <3>1, <3>2 DEF CallWaits, Tau
  <2>4. CASE l.at # "idle"
    <3>1. legacy'[c] = m
      BY <2>1, <2>4
    <3>2. l.sleep > 0 /\ l.sleep \in 0..Budget /\ l.left \in 0..Budget /\ l.since \in Nat /\ l.sleep <= l.left
      BY <2>1, <2>4 DEF Legacies, CallKept
    <3>3. m \in Legacies
      <4>1. l.sleep - 1 \in 0..Budget /\ l.left - 1 \in 0..Budget /\ l.since + 1 \in Nat
        BY <3>2
      <4> QED
        BY ONLY <2>1, <4>1 DEF Legacies, m
    <3>4. /\ m.op = l.op /\ m.at = l.at /\ m.job = l.job /\ m.file = l.file /\ m.alone = l.alone
          /\ m.sleep = l.sleep - 1 /\ m.left = l.left - 1 /\ m.since = l.since + 1
      BY <2>1 DEF Legacies
    <3> HIDE DEF m
    <3>5. CallKept(m)
      BY <2>1, <3>2, <3>4 DEF CallKept
    <3>6. l.alone => Limit.t > 0 /\ Debt(u)' <= Tau(Limit) + m.sleep
      <4>1. l.alone => Limit.t > 0 /\ Debt(u) <= Tau(Limit) + l.sleep
        BY <2>0, <2>1 DEF CallWaits
      <4> QED
        BY <2>2, <3>2, <3>4, <4>1
    <3> QED
      BY <2>0, <3>1, <3>3, <3>4, <3>5, <3>6 DEF CallWaits, Tau
  <2> QED
    BY <2>3, <2>4
<1>4. CallsKept'
  <2>1. legacy' \in [Calls -> Legacies]
    BY <1>3 DEF CompatTick
  <2>2. \A c \in Calls : CallKept(legacy[c])'
    BY <1>3 DEF CallKept
  <2> QED
    BY <1>3, <2>1, <2>2 DEF CallsKept
<1> QED
  BY <1>1, <1>2, <1>4 DEF ShimInv

\* A call begins, is answered or gives up: the limiter does not move.
LEMMA ShimCalls ==
    ASSUME ShimInv, NEW c \in Calls, NEW l \in Legacies, legacy' = [legacy EXCEPT ![c] = l],
           CallKept(l), ~l.alone, UNCHANGED rlVars
    PROVE  RLInv' /\ CallsKept'
<1>1. RLInv' /\ \A k : Debt(k)' = Debt(k)
  BY RLInvStutter, DebtMoves DEF ShimInv
<1>2. /\ legacy' \in [Calls -> Legacies] /\ legacy'[c] = l
      /\ \A d \in Calls : d # c => legacy'[d] = legacy[d]
  BY DEF ShimInv, CallsKept
<1>3. \A d \in Calls : \/ /\ legacy'[d] = legacy[d]
                          /\ \A k \in Users : k = ClassOf(legacy[d].op) => Debt(k)' = Debt(k)
                       \/ CallKept(legacy'[d]) /\ ~legacy'[d].alone
  BY <1>1, <1>2
<1> QED
  BY <1>1, <1>2, <1>3, CallsStep

LEMMA ShimBegins ==
    ASSUME ShimInv, NEW c \in Calls, NEW f \in Files,
           \/ UploadStart(c, f) \/ \E op \in {"status", "download"} : AskStart(c, op, f)
    PROVE  ShimInv'
<1> USE CompatConstants
<1>1. /\ known' = known /\ idOf' = idOf /\ idTtl' = idTtl /\ job' = job /\ acked' = acked /\ UNCHANGED rlVars
  BY DEF UploadStart, AskStart, rlVars
<1>2. KeysInv'
  BY <1>1 DEF ShimInv, KeysInv
<1>3. CASE UploadStart(c, f)
  <2> DEFINE l == [Asking("upload", f, NoJob, "post") EXCEPT !.since = 0]
  <2>1. /\ l \in Legacies /\ l.op = "upload" /\ l.at = "post" /\ l.sleep = 0 /\ l.left = Budget
        /\ l.since = 0 /\ ~l.alone /\ l.file = f /\ l = Asking("upload", f, NoJob, "post")
    BY NewCalls
  <2>2. legacy' = [legacy EXCEPT ![c] = l] /\ known > 0
    BY <1>3, <2>1 DEF UploadStart, Set
  <2> HIDE DEF l
  <2>3. CompatTTL > 0
    BY <2>2 DEF ShimInv, KeysInv
  <2>4. CallKept(l)
    BY <2>1, <2>3 DEF CallKept
  <2> QED
    BY <1>1, <1>2, <2>1, <2>2, <2>4, ShimCalls DEF ShimInv
<1>4. ASSUME NEW op \in {"status", "download"}, AskStart(c, op, f) PROVE ShimInv'
  <2> DEFINE l == [Asking(op, f, idOf[f], "get") EXCEPT !.since = 0]
  <2>1. idOf[f] \in GatewayJobs \cup {NoJob}
    BY DEF ShimInv, KeysInv
  <2>2. /\ l \in Legacies /\ l.op = op /\ l.at = "get" /\ l.sleep = 0 /\ l.left = Budget
        /\ l.since = 0 /\ ~l.alone /\ l.file = f /\ l = Asking(op, f, idOf[f], "get")
    BY <2>1, NewCalls
  <2>3. legacy' = [legacy EXCEPT ![c] = l]
    BY <1>4, <2>2 DEF AskStart, Set
  <2> HIDE DEF l
  <2>4. CallKept(l)
    BY <2>2 DEF CallKept
  <2> QED
    BY <1>1, <1>2, <2>2, <2>3, <2>4, ShimCalls DEF ShimInv
<1> QED
  BY <1>3, <1>4

\* The request is opened, its image is recorded, a call gives up, or the shim dies.
LEMMA ShimEnds ==
    ASSUME ShimInv,
           OpenRequest \/ ShimDies \/ \E c \in Calls : UploadRecord(c) \/ GiveUp(c)
    PROVE  ShimInv'
<1> USE CompatConstants
<1>1. CASE OpenRequest
  <2>1. /\ known' = CompatTTL /\ acked = {} /\ UNCHANGED <<idOf, idTtl, job, acked, legacy>> /\ UNCHANGED rlVars
    BY <1>1 DEF OpenRequest, rlVars
  <2>2. KeysInv'
    BY <2>1 DEF ShimInv, KeysInv
  <2>3. RLInv' /\ \A k : Debt(k)' = Debt(k)
    BY <2>1, RLInvStutter, DebtMoves DEF ShimInv
  <2>4. CallsKept'
    BY <2>1, <2>3, CallsStep DEF ShimInv, CallsKept
  <2> QED
    BY <2>2, <2>3, <2>4 DEF ShimInv
<1>2. CASE ShimDies
  <2>1. /\ legacy' = [c \in Calls |-> NoLegacy] /\ UNCHANGED <<known, idOf, idTtl, job, acked>> /\ UNCHANGED rlVars
    BY <1>2 DEF ShimDies, rlVars
  <2>2. KeysInv'
    BY <2>1 DEF ShimInv, KeysInv
  <2>3. RLInv'
    BY <2>1, RLInvStutter DEF ShimInv
  <2>4. legacy' \in [Calls -> Legacies] /\ \A c \in Calls : CallKept(legacy'[c]) /\ ~legacy'[c].alone
    BY <2>1, NewCalls
  <2>5. CallsKept'
    BY <2>3, <2>4, CallsStep
  <2> QED
    BY <2>2, <2>3, <2>5 DEF ShimInv
<1>3. ASSUME NEW c \in Calls, UploadRecord(c) PROVE ShimInv'
  <2>1. /\ legacy[c].at = "record" /\ legacy[c] \in Legacies /\ CallKept(legacy[c])
    BY <1>3 DEF UploadRecord, UploadRecordFor, ShimInv, CallsKept
  <2> DEFINE f == legacy[c].file
             j == legacy[c].job
  <2>2. j \in GatewayJobs /\ CompatTTL > 0 /\ f \in Files \cup {NoFile}
    BY <2>1 DEF CallKept, Legacies
  <2>3. /\ idOf' = [idOf EXCEPT ![f] = j] /\ idTtl' = [idTtl EXCEPT ![f] = CompatTTL]
        /\ acked' = acked \cup {f} /\ known' = known /\ job' = job /\ UNCHANGED rlVars
        /\ legacy' = [legacy EXCEPT ![c] = NoLegacy]
    BY <1>3 DEF UploadRecord, UploadRecordFor, Set, rlVars
  <2>4. f \in Files
    BY <2>1, <2>2 DEF CallKept
  <2> HIDE DEF f, j
  <2>5. KeysInv'
    BY <2>2, <2>3, <2>4 DEF ShimInv, KeysInv
  <2>6. NoLegacy \in Legacies /\ CallKept(NoLegacy) /\ ~NoLegacy.alone
    BY NewCalls
  <2>7. RLInv' /\ CallsKept'
    BY <2>3, <2>6, ShimCalls
  <2> QED
    BY <2>5, <2>7 DEF ShimInv
<1>4. ASSUME NEW c \in Calls, GiveUp(c) PROVE ShimInv'
  <2>1. /\ legacy' = [legacy EXCEPT ![c] = NoLegacy] /\ UNCHANGED <<known, idOf, idTtl, job, acked>>
        /\ UNCHANGED rlVars
    BY <1>4 DEF GiveUp, Set, Refused
  <2>2. KeysInv'
    BY <2>1 DEF ShimInv, KeysInv
  <2>6. NoLegacy \in Legacies /\ CallKept(NoLegacy) /\ ~NoLegacy.alone
    BY NewCalls
  <2>7. RLInv' /\ CallsKept'
    BY <2>1, <2>6, ShimCalls
  <2> QED
    BY <2>2, <2>7 DEF ShimInv
<1> QED
  BY <1>1, <1>2, <1>3, <1>4

\* A request is let through: whoever sleeps for the same class is no longer alone.
LEMMA ShimAdmits ==
    ASSUME ShimInv, NEW k \in Users, Admit(k, Limit), NEW S \in SUBSET Calls,
           legacy' \in [Calls -> Legacies],
           \A d \in S : CallKept(legacy'[d]) /\ ~legacy'[d].alone,
           \A d \in Calls \ S : legacy'[d] = IF ClassOf(legacy[d].op) = k
                                             THEN [legacy[d] EXCEPT !.alone = FALSE] ELSE legacy[d]
    PROVE  RLInv' /\ CallsKept'
<1>1. RLInv' /\ \A v \in Users : v # k => Debt(v)' = Debt(v)
  BY RLInvAdmit, DebtMoves DEF ShimInv
<1>2. ASSUME NEW d \in Calls
      PROVE  \/ /\ legacy'[d] = legacy[d]
                /\ \A v \in Users : v = ClassOf(legacy[d].op) => Debt(v)' = Debt(v)
             \/ CallKept(legacy'[d]) /\ ~legacy'[d].alone
  <2>1. CASE d \in S
    BY <2>1
  <2>2. CASE d \notin S /\ ClassOf(legacy[d].op) = k
    <3>1. legacy[d] \in Legacies /\ CallKept(legacy[d]) /\ legacy'[d] = [legacy[d] EXCEPT !.alone = FALSE]
      BY <2>2 DEF ShimInv, CallsKept
    <3> QED
      BY <3>1, NotAlone
  <2>3. CASE d \notin S /\ ClassOf(legacy[d].op) # k
    BY <1>1, <2>3
  <2> QED
    BY <2>1, <2>2, <2>3
<1> QED
  BY <1>1, <1>2, CallsStep

LEMMA DisturbedType ==
    ASSUME ShimInv, NEW c \in Calls
    PROVE  /\ Disturbed(c) \in [Calls -> Legacies]
           /\ \A d \in Calls \ {c} :
                 Disturbed(c)[d] = IF ClassOf(legacy[d].op) = ClassOf(legacy[c].op)
                                   THEN [legacy[d] EXCEPT !.alone = FALSE] ELSE legacy[d]
<1>1. \A d \in Calls : legacy[d] \in Legacies /\ [legacy[d] EXCEPT !.alone = FALSE] \in Legacies
  BY NotAlone DEF ShimInv, CallsKept
<1> QED
  BY <1>1 DEF Disturbed

\* The call goes on with l, its class moves the limiter.
LEMMA ShimServed ==
    ASSUME ShimInv, NEW c \in Calls, NEW k \in Users, k = ClassOf(legacy[c].op), Admit(k, Limit),
           NEW l \in Legacies, legacy' = [Disturbed(c) EXCEPT ![c] = l], CallKept(l), ~l.alone
    PROVE  RLInv' /\ CallsKept'
<1>1. /\ legacy' \in [Calls -> Legacies] /\ legacy'[c] = l
      /\ \A d \in Calls \ {c} : legacy'[d] = IF ClassOf(legacy[d].op) = k
                                             THEN [legacy[d] EXCEPT !.alone = FALSE] ELSE legacy[d]
  BY DisturbedType
<1>2. \A d \in {c} : CallKept(legacy'[d]) /\ ~legacy'[d].alone
  BY <1>1
<1>3. {c} \in SUBSET Calls
  OBVIOUS
<1>4. \A d \in Calls \ {c} : legacy'[d] = IF ClassOf(legacy[d].op) = k
                                         THEN [legacy[d] EXCEPT !.alone = FALSE] ELSE legacy[d]
  BY <1>1
<1>5. legacy' \in [Calls -> Legacies]
  BY <1>1
<1> QED
  BY ONLY ShimInv, k \in Users, Admit(k, Limit), <1>2, <1>3, <1>4, <1>5, ShimAdmits

LEMMA ShimPasses ==
    ASSUME ShimInv,
           \/ \E k \in Rivals : Competes(k)
           \/ \E c \in Calls : UploadPosted(c) \/ AskAnswered(c) \/ Fetched(c)
    PROVE  ShimInv'
<1> USE CompatConstants
<1>1. ASSUME NEW k \in Rivals, Competes(k) PROVE ShimInv'
  <2>1. /\ UNCHANGED <<known, idOf, idTtl, job, acked>> /\ Admit(k, Limit) /\ k \in Users
        /\ legacy' = [d \in Calls |-> IF ClassOf(legacy[d].op) = k
                                  THEN [legacy[d] EXCEPT !.alone = FALSE] ELSE legacy[d]]
    BY <1>1 DEF Competes
  <2>2. KeysInv'
    BY <2>1 DEF ShimInv, KeysInv
  <2>3. \A d \in Calls : legacy[d] \in Legacies /\ [legacy[d] EXCEPT !.alone = FALSE] \in Legacies
    BY NotAlone DEF ShimInv, CallsKept
  <2>4. legacy' \in [Calls -> Legacies]
    BY <2>1, <2>3
  <2>5. \A d \in Calls \ {} : legacy'[d] = IF ClassOf(legacy[d].op) = k
                                  THEN [legacy[d] EXCEPT !.alone = FALSE] ELSE legacy[d]
    BY <2>1
  <2>6. {} \in SUBSET Calls
    OBVIOUS
  <2>7. RLInv' /\ CallsKept'
    <3>1. k \in Users /\ Admit(k, Limit) /\ \A d \in {} : CallKept(legacy'[d]) /\ ~legacy'[d].alone
      BY <2>1
    <3> QED
      BY ONLY ShimInv, <2>4, <2>5, <2>6, <3>1, ShimAdmits
  <2> QED
    BY <2>2, <2>7 DEF ShimInv
<1>2. ASSUME NEW c \in Calls, UploadPosted(c) PROVE ShimInv'
  <2>0. PICK j \in GatewayJobs \ job :
           /\ job' = job \cup {j}
           /\ legacy' = [Disturbed(c) EXCEPT ![c].at = "record", ![c].job = j, ![c].alone = FALSE]
    BY <1>2 DEF UploadPosted
  <2>1. /\ legacy[c].at = "post" /\ UNCHANGED <<known, idOf, idTtl, acked>> /\ Admit("submit", Limit)
        /\ legacy[c] \in Legacies /\ CallKept(legacy[c])
    BY <1>2 DEF UploadPosted, ShimInv, CallsKept
  <2>2. KeysInv'
    BY <2>0, <2>1 DEF ShimInv, KeysInv
  <2>3. legacy[c].op = "upload" /\ ClassOf(legacy[c].op) = "submit" /\ "submit" \in Users
    BY <2>1 DEF CallKept, ClassOf
  <2>4. Disturbed(c)[c] = legacy[c] /\ Disturbed(c) \in [Calls -> Legacies]
    BY DisturbedType DEF Disturbed
  <2> DEFINE l == [legacy[c] EXCEPT !.at = "record", !.job = j, !.alone = FALSE]
  <2>5. legacy' = [Disturbed(c) EXCEPT ![c] = l]
    BY <2>0, <2>4
  <2>6. l \in Legacies
    BY ONLY <2>1, j \in GatewayJobs DEF Legacies, l
  <2>7. /\ l.at = "record" /\ l.job = j /\ ~l.alone /\ l.op = legacy[c].op /\ l.file = legacy[c].file
        /\ l.sleep = legacy[c].sleep /\ l.left = legacy[c].left /\ l.since = legacy[c].since
    BY ONLY <2>1 DEF Legacies, l
  <2> HIDE DEF l
  <2>8. CallKept(l)
    BY <2>1, <2>7 DEF CallKept
  <2>9. RLInv' /\ CallsKept'
    BY <2>1, <2>3, <2>5, <2>6, <2>7, <2>8, ShimServed
  <2> QED
    BY <2>2, <2>9 DEF ShimInv
<1>3. ASSUME NEW c \in Calls, AskAnswered(c) \/ Fetched(c) PROVE ShimInv'
  <2>1. /\ legacy[c].at \in {"get", "fetch"} /\ UNCHANGED <<known, idOf, idTtl, job, acked>> /\ Admit("query", Limit)
        /\ legacy[c] \in Legacies /\ CallKept(legacy[c])
    BY <1>3 DEF AskAnswered, Fetched, ShimInv, CallsKept
  <2>2. KeysInv'
    BY <2>1 DEF ShimInv, KeysInv
  <2>3. ClassOf(legacy[c].op) = "query" /\ "query" \in Users
    BY <2>1 DEF CallKept, ClassOf
  <2>4. CASE legacy' = [Disturbed(c) EXCEPT ![c] = NoLegacy]
    <3>1. NoLegacy \in Legacies /\ CallKept(NoLegacy) /\ ~NoLegacy.alone
      BY NewCalls
    <3>2. RLInv' /\ CallsKept'
      BY <2>1, <2>3, <2>4, <3>1, ShimServed
    <3> QED
      BY <2>2, <3>2 DEF ShimInv
  <2> DEFINE l == [Asking("download", legacy[c].file, legacy[c].job, "fetch") EXCEPT !.since = legacy[c].since]
  <2>5. CASE legacy[c].at = "get" /\ legacy' = [Disturbed(c) EXCEPT ![c] = l]
    <3>1. /\ legacy[c].since \in 0..Budget /\ legacy[c].job \in GatewayJobs \cup {NoJob}
          /\ legacy[c].file \in Files
      BY <2>1, <2>5 DEF CallKept, Legacies
    <3>2. /\ l \in Legacies /\ l.op = "download" /\ l.at = "fetch" /\ l.sleep = 0 /\ l.left = Budget
          /\ l.since = legacy[c].since /\ ~l.alone /\ l.file = legacy[c].file
      BY <3>1, NewCalls
    <3> HIDE DEF l
    <3>3. CallKept(l)
      BY <3>1, <3>2 DEF CallKept
    <3>4. RLInv' /\ CallsKept'
      BY <2>1, <2>3, <2>5, <3>2, <3>3, ShimServed
    <3> QED
      BY <2>2, <3>4 DEF ShimInv
  <2> QED
    BY <1>3, <2>4, <2>5 DEF AskAnswered, Fetched
<1> QED
  BY <1>1, <1>2, <1>3

\* A refused call sleeps for what the limiter tells it, if that is not too long.
LEMMA ShimSleeps == ASSUME ShimInv, ShortSleep, NEW c \in Calls, SleepOut(c) PROVE ShimInv'
<1> USE CompatConstants
<1> DEFINE k == ClassOf(legacy[c].op)
           nap == Capped(SleepFor(c))
<1>1. /\ legacy[c] \in Legacies /\ CallKept(legacy[c]) /\ Refused(k, Limit) /\ RLInv
      /\ UNCHANGED <<known, idOf, idTtl, job, acked>> /\ UNCHANGED rlVars /\ Awake(c)
  BY DEF SleepOut, ShimInv, CallsKept, Refused
<1>2. PICK jit \in 0..Jitter :
         /\ nap + jit <= legacy[c].left
         /\ legacy' = [legacy EXCEPT ![c] = [legacy[c] EXCEPT !.sleep = nap + jit,
                                                              !.alone = SleepFor(c) <= MaxSleep]]
  BY DEF SleepOut, Set
<1>3. /\ SleepFor(c) \in Nat
      /\ SleepFor(c) <= MaxSleep => Limit.t > 0 /\ Debt(k) <= Tau(Limit) + SleepFor(c)
  BY <1>1, RetryAfterCovers
<1>4. nap \in Nat /\ (SleepFor(c) <= MaxSleep => nap = SleepFor(c))
  BY <1>3 DEF Capped
<1> DEFINE l == [legacy[c] EXCEPT !.sleep = nap + jit, !.alone = SleepFor(c) <= MaxSleep]
<1> HIDE DEF nap
<1>5. nap + jit \in 0..Budget
  BY <1>1, <1>2, <1>4 DEF Legacies
<1>6. (SleepFor(c) <= MaxSleep) \in BOOLEAN
  OBVIOUS
<1>7. l \in Legacies
  BY ONLY <1>1, <1>5, <1>6 DEF Legacies, l
<1>8. /\ l.op = legacy[c].op /\ l.at = legacy[c].at /\ l.file = legacy[c].file /\ l.job = legacy[c].job
      /\ l.left = legacy[c].left /\ l.since = legacy[c].since
      /\ l.sleep = nap + jit /\ l.alone = (SleepFor(c) <= MaxSleep)
  BY ONLY <1>1 DEF Legacies, l
<1>9. legacy' = [legacy EXCEPT ![c] = l]
  BY <1>2
<1> HIDE DEF l
<1>10. CallKept(l)
  BY <1>1, <1>2, <1>8 DEF CallKept
<1>11. PICK u \in Users : u = k
  OBVIOUS
<1>12. RLInv' /\ \A v : Debt(v)' = Debt(v)
  BY <1>1, RLInvStutter, DebtMoves
<1>13. l.alone => Limit.t > 0 /\ Debt(u)' <= Tau(Limit) + l.sleep
  <2>1. Debt(u) \in Nat /\ Tau(Limit) \in Nat /\ Debt(u)' = Debt(u)
    BY <1>1, <1>12, DebtMoves, TauNat
  <2>2. Debt(u) = Debt(k)
    BY <1>11
  <2> HIDE DEF k
  <2>3. l.alone => Limit.t > 0 /\ Debt(k) <= Tau(Limit) + nap /\ l.sleep = nap + jit
    BY <1>3, <1>4, <1>8
  <2>4. jit \in Nat /\ nap \in Nat
    BY <1>4
  <2> QED
    BY ONLY <2>1, <2>2, <2>3, <2>4
<1>14. CallWaits(legacy[c])'
  <2>1. legacy'[c] = l /\ ClassOf(l.op) = u
    BY <1>1, <1>8, <1>9, <1>11 DEF ShimInv, CallsKept
  <2> QED
    BY <1>13, <2>1 DEF CallWaits, Tau
<1>15. CallsKept'
  <2>1. /\ legacy' \in [Calls -> Legacies] /\ legacy'[c] = l
        /\ \A d \in Calls : d # c => legacy'[d] = legacy[d]
    BY <1>7, <1>9 DEF ShimInv, CallsKept
  <2>2. ASSUME NEW d \in Calls, d # c PROVE CallKept(legacy[d])' /\ CallWaits(legacy[d])'
    <3>1. PICK v \in Users : v = ClassOf(legacy[d].op)
      OBVIOUS
    <3>2. CallKept(legacy[d]) /\ (legacy[d].alone => Limit.t > 0 /\ Debt(v) <= Tau(Limit) + legacy[d].sleep)
      BY <3>1 DEF ShimInv, CallsKept, CallWaits
    <3> QED
      BY <1>12, <2>1, <2>2, <3>1, <3>2 DEF CallKept, CallWaits, Tau
  <2>3. CallKept(legacy[c])'
    BY <1>10, <2>1 DEF CallKept
  <2> QED
    BY <1>14, <2>1, <2>2, <2>3 DEF CallsKept
<1>16. KeysInv'
  BY <1>1 DEF ShimInv, KeysInv
<1> QED
  BY <1>12, <1>15, <1>16 DEF ShimInv

LEMMA ShimStays == ASSUME ShimInv, ShortSleep, [CompatNext]_compatVars PROVE ShimInv'
<1>1. CASE UNCHANGED compatVars
  <2>1. UNCHANGED rlVars /\ UNCHANGED <<known, idOf, idTtl, job, acked, legacy>>
    BY <1>1 DEF compatVars, shimVars
  <2>2. RLInv' /\ \A k : Debt(k)' = Debt(k)
    BY <2>1, RLInvStutter, DebtMoves DEF ShimInv
  <2>3. CallsKept'
    BY <2>1, <2>2, CallsStep DEF ShimInv, CallsKept
  <2>4. KeysInv'
    BY <2>1 DEF ShimInv, KeysInv
  <2> QED
    BY <2>2, <2>3, <2>4 DEF ShimInv
<1>2. CASE CompatNext
  BY <1>2, ShimTick, ShimBegins, ShimEnds, ShimPasses, ShimSleeps DEF CompatNext
<1> QED
  BY <1>1, <1>2

\* An acknowledged image stays known as long as its request, a Retry-After that has been
\* slept out is honest, and a call is over within its retry budgets: for any number of
\* calls and images, any limits and rivals, and restarts of the shim
\* (upload_image, request_with_retry, check).
THEOREM ShimKeepsFaith == ASSUME ShortSleep PROVE CompatSpec => []CompatSound
<1> USE CompatConstants
<1>1. ShimInv => CompatSound
  <2> SUFFICES ASSUME ShimInv PROVE CompatSound
    OBVIOUS
  <2>1. \A c \in Calls : legacy[c] \in Legacies /\ CallKept(legacy[c]) /\ CallWaits(legacy[c])
    BY DEF ShimInv, CallsKept
  <2>2. ASSUME NEW c \in Calls
        PROVE  /\ legacy[c].at \in {"idle", "post", "record", "get", "fetch"}
               /\ legacy[c].sleep \in 0..legacy[c].left /\ legacy[c].left \in 0..Budget
               /\ legacy[c].since <= IF legacy[c].at = "fetch" THEN 2 * Budget ELSE Budget
    <3>1. /\ legacy[c].at \in {"idle", "post", "record", "get", "fetch"} /\ legacy[c].sleep \in 0..Budget
          /\ legacy[c].left \in 0..Budget /\ legacy[c].since \in Nat
      BY <2>1 DEF Legacies
    <3>2. legacy[c].sleep <= legacy[c].left
          /\ legacy[c].since + legacy[c].left <= IF legacy[c].at = "fetch" THEN 2 * Budget ELSE Budget
      BY <2>1 DEF CallKept
    <3> QED
      BY <3>1, <3>2
  <2>3. CompatTypeOK
    BY <2>2 DEF ShimInv, RLInv, KeysInv, CompatTypeOK
  <2>4. UploadedStaysKnown
    BY DEF ShimInv, KeysInv, UploadedStaysKnown
  <2>5. RetryAfterHonest
    <3> SUFFICES ASSUME NEW c \in Calls, Awake(c), legacy[c].alone
                 PROVE  Allows(ClassOf(legacy[c].op), Limit)
      BY DEF RetryAfterHonest
    <3>1. Limit.t > 0 /\ Debt(ClassOf(legacy[c].op)) <= Tau(Limit) + legacy[c].sleep /\ legacy[c].sleep = 0
      BY <2>1 DEF CallWaits, Awake
    <3> QED
      BY <3>1, TauNat DEF Allows
  <2>6. AnsweredInTime
    BY <2>2 DEF AnsweredInTime
  <2> QED
    BY <2>3, <2>4, <2>5, <2>6 DEF CompatSound
<1> QED
  BY <1>1, ShimInitial, ShimStays, PTL DEF CompatSpec

-----------------------------------------------------------------------------
\* Dispatch: least numbers, ranks and the largest of finitely many.

\* Of the numbers at which something fails, one is the least: induction without a predicate
\* to instantiate.
LEMMA LeastOne ==
    ASSUME NEW T \in SUBSET Nat, T # {}
    PROVE  \E x \in T : \A y \in T : x <= y
<1>1. IsWellFoundedOn(OpToRel(<, Nat), Nat)
  BY NatLessThanWellFounded
<1> DEFINE R == {ss \in Nat \X Nat : ss[1] < ss[2]}
<1>2. IsWellFoundedOn(R, Nat)
  BY <1>1 DEF OpToRel
<1>3. PICK x \in T : \A y \in T : ~(<<y, x>> \in R)
  BY <1>2, WFMin
<1>4. \A y \in T : ~(y < x)
  BY <1>3
<1>5. \A y \in T : x <= y
  BY <1>4, x \in Nat
<1> QED
  BY <1>5

LEMMA LargestOne ==
    ASSUME NEW S \in SUBSET Nat, IsFiniteSet(S), S # {}
    PROVE  \E x \in S : \A y \in S : y <= x
<1> DEFINE HasTop(T) == \E x \in T : \A y \in T : y <= x
           Bad == {n \in Nat : \E T \in SUBSET S : Cardinality(T) = n /\ T # {} /\ ~HasTop(T)}
<1>1. Bad = {}
  <2> SUFFICES ASSUME Bad # {} PROVE FALSE
    OBVIOUS
  <2>1. PICK n \in Bad : \A m \in Bad : n <= m
    BY LeastOne, Bad \in SUBSET Nat
  <2>2. PICK T \in SUBSET S : Cardinality(T) = n /\ T # {} /\ ~HasTop(T)
    OBVIOUS
  <2>3. PICK x \in T : TRUE
    BY <2>2
  <2>4. IsFiniteSet(T) /\ IsFiniteSet(T \ {x})
    BY FS_Subset
  <2>5. Cardinality(T \ {x}) = n - 1 /\ Cardinality(T \ {x}) \in Nat
    BY <2>2, <2>4, FS_RemoveElement, FS_CardinalityType
  <2>6. ~(n <= n - 1) /\ T \ {x} \in SUBSET S
    BY <2>1
  <2>7. T \ {x} = {} \/ HasTop(T \ {x})
    <3> SUFFICES ASSUME T \ {x} # {}, ~HasTop(T \ {x}) PROVE FALSE
      OBVIOUS
    <3>1. n - 1 \in Bad
      BY <2>5, <2>6
    <3> QED
      BY <2>1, <2>6, <3>1
  <2>8. CASE T \ {x} = {}
    <3>1. x \in Nat /\ \A y \in T : y <= x
      BY <2>8
    <3> QED
      BY <2>2, <3>1
  <2>9. CASE HasTop(T \ {x})
    <3>1. PICK z \in T \ {x} : \A y \in T \ {x} : y <= z
      BY <2>9
    <3>2. x \in Nat /\ \A y \in T : y \in Nat
      OBVIOUS
    <3>3. CASE x <= z
      BY <2>2, <3>1, <3>2, <3>3
    <3>4. CASE z <= x
      <4>1. \A y \in T : y <= x
        BY <3>1, <3>2, <3>4
      <4> QED
        BY <2>2, <4>1
    <3> QED
      BY <3>2, <3>3, <3>4
  <2> QED
    BY <2>7, <2>8, <2>9
<1>2. Cardinality(S) \in Nat
  BY FS_CardinalityType
<1> QED
  BY <1>1, <1>2

LEMMA DispatchConstants ==
    /\ IsFiniteSet(Pages) /\ IsFiniteSet(Backends) /\ Pages \subseteq Nat
    /\ \A b \in Backends : /\ MaxInflight[b] \in Nat \ {0} /\ TierOf[b] \in Nat /\ Position[b] \in Nat
                           /\ b \notin PageStates
    /\ \A p \in Pages : Megapixels[p] \in Nat \ {0}
    /\ Fallback \in Nat \ {0} /\ Speeds \subseteq Nat \ {0}
    /\ {Tolerance, UnstoredMax, ColdSamples, MaxRequeues, MaxOutages, MaxPenalty} \subseteq Nat /\ MaxPenalty >= 4
<1>1. Cardinality(Pages) \in Nat /\ Pages = 1..Cardinality(Pages)
  BY DispatchAssumption, FS_CardinalityType
<1>2. Pages \subseteq Nat
  BY <1>1
<1> QED
  BY <1>2, DispatchAssumption

\* Of n backends in the order of their speed, each place is taken.
Below(S, b) == {c \in S : Faster(c, b)}
LEMMA RankedBackend ==
    ASSUME spp \in [Backends -> Speeds], NEW S \in SUBSET Backends, NEW n \in 1..Cardinality(S)
    PROVE  Ranked(S, n) \in S
<1> DEFINE N == Cardinality(S)
           rank == [b \in S |-> Cardinality(Below(S, b))]
<1>1. IsFiniteSet(S) /\ N \in Nat
  BY DispatchConstants, FS_Subset, FS_CardinalityType
<1>2. \A b, c \in S : /\ ~Faster(b, b) /\ (b # c => Faster(b, c) \/ Faster(c, b))
  <2>1. \A b \in S : spp[b] \in Nat /\ Position[b] \in Nat
    BY DispatchConstants
  <2>2. \A b, c \in S : Position[b] = Position[c] => b = c
    BY DispatchAssumption
  <2> QED
    BY <2>1, <2>2 DEF Faster
<1>3. \A b, c, d \in S : Faster(b, c) /\ Faster(c, d) => Faster(b, d)
  <2>1. \A b \in S : spp[b] \in Nat /\ Position[b] \in Nat
    BY DispatchConstants
  <2> QED
    BY <2>1 DEF Faster
<1>4. ASSUME NEW b \in S PROVE IsFiniteSet(Below(S, b)) /\ rank[b] \in Nat /\ rank[b] = Cardinality(Below(S, b))
  <2>1. IsFiniteSet(Below(S, b))
    BY <1>1, FS_Subset DEF Below
  <2> QED
    BY <2>1, FS_CardinalityType
<1>5. ASSUME NEW b \in S PROVE rank[b] \in 0..(N - 1)
  <2>1. Below(S, b) \subseteq S \ {b}
    BY <1>2 DEF Below
  <2>2. Cardinality(S \ {b}) = N - 1 /\ IsFiniteSet(S \ {b})
    BY <1>1, FS_RemoveElement
  <2>3. Cardinality(Below(S, b)) <= N - 1
    BY <2>1, <2>2, FS_Subset
  <2> QED
    BY <1>1, <1>4, <2>3
<1>6. ASSUME NEW b \in S, NEW c \in S, Faster(b, c) PROVE rank[b] < rank[c]
  <2>1. b \in Below(S, c) /\ Below(S, b) \subseteq Below(S, c) \ {b}
    BY <1>2, <1>3, <1>6 DEF Below
  <2>2. Cardinality(Below(S, c) \ {b}) = rank[c] - 1 /\ IsFiniteSet(Below(S, c) \ {b})
    BY <1>4, <2>1, FS_RemoveElement
  <2>3. rank[b] <= rank[c] - 1
    BY <1>4, <2>1, <2>2, FS_Subset
  <2> QED
    BY <1>4, <2>3
<1> HIDE DEF rank
<1>7. \A b, c \in S : b # c => rank[b] # rank[c]
  <2> SUFFICES ASSUME NEW b \in S, NEW c \in S, b # c PROVE rank[b] # rank[c]
    OBVIOUS
  <2>1. rank[b] \in Nat /\ rank[c] \in Nat
    BY <1>4
  <2>2. rank[b] < rank[c] \/ rank[c] < rank[b]
    BY <1>2, <1>6
  <2> QED
    BY <2>1, <2>2
<1>8. rank \in [S -> 0..(N - 1)]
  BY <1>5 DEF rank
<1>9. rank \in Injection(S, 0..(N - 1))
  BY <1>7, <1>8 DEF Injection, IsInjective
<1>10. IsFiniteSet(0..(N - 1)) /\ Cardinality(0..(N - 1)) = N
  <2>1. 0 \in Int /\ N - 1 \in Int /\ (0 > N - 1 => N = 0) /\ N - 1 - 0 + 1 = N
    BY <1>1
  <2> QED
    BY <2>1, FS_Interval
<1>11. rank \in Surjection(S, 0..(N - 1))
  BY <1>9, <1>10, FS_Injection
<1>12. n - 1 \in 0..(N - 1)
  BY <1>1
<1>13. \E b \in S : rank[b] = n - 1
  BY <1>11, <1>12 DEF Surjection
<1>14. \E b \in S : Cardinality({c \in S : Faster(c, b)}) = n - 1
  BY <1>4, <1>13 DEF Below
<1> QED
  BY <1>14 DEF Ranked

\* A score is positive.
LEMMA SppPositive ==
    ASSUME DispatchTypeOK, NEW tier \in SUBSET Backends, NEW b \in tier
    PROVE  EffectiveSpp(tier, b) \in Nat \ {0}
<1>0. /\ spp \in [Backends -> Speeds] /\ samples[b] \in Nat
      /\ penalty[b] \in Nat \ {0} /\ \A c \in Backends : spp[c] \in Nat \ {0}
  <2>1. penalty[b] \in 4..MaxPenalty /\ samples[b] \in 0..ColdSamples /\ spp \in [Backends -> Speeds]
    BY DEF DispatchTypeOK
  <2>2. \A c \in Backends : spp[c] \in Nat \ {0}
    BY <2>1, DispatchConstants
  <2>3. MaxPenalty \in Nat /\ ColdSamples \in Nat
    BY DispatchConstants
  <2> QED
    BY <2>1, <2>2, <2>3
<1> DEFINE others == {c \in tier \ {b} : Warm(c)}
           base == IF Warm(b) THEN 2 * spp[b]
                   ELSE IF others # {} THEN TwiceMedian(others)
                   ELSE IF samples[b] > 0 THEN 2 * spp[b]
                   ELSE 2 * Fallback
<1>1. others # {} => TwiceMedian(others) \in Nat \ {0}
  <2> SUFFICES ASSUME others # {} PROVE TwiceMedian(others) \in Nat \ {0}
    OBVIOUS
  <2> DEFINE n == Cardinality(others)
  <2>1. others \in SUBSET Backends /\ IsFiniteSet(others)
    BY DispatchConstants, FS_Subset
  <2>2. n \in Nat \ {0}
    BY <2>1, FS_CardinalityType, FS_EmptySet
  <2> HIDE DEF others
  <2>3. (n + 1) \div 2 \in 1..n /\ (n + 2) \div 2 \in 1..n
    <3> HIDE DEF n
    <3> QED
      BY <2>2
  <2>4. Ranked(others, (n + 1) \div 2) \in Backends /\ Ranked(others, (n + 2) \div 2) \in Backends
    BY <1>0, <2>1, <2>3, RankedBackend
  <2> QED
    BY <1>0, <2>4 DEF TwiceMedian
<1>2. base \in Nat \ {0}
  <2> HIDE DEF others
  <2> QED
    BY <1>0, <1>1, DispatchConstants
<1>3. EffectiveSpp(tier, b) = penalty[b] * base
  BY DEF EffectiveSpp
<1>4. \A m, n \in Nat \ {0} : m * n \in Nat \ {0}
  OBVIOUS
<1> HIDE DEF base
<1> QED
  BY <1>0, <1>2, <1>3, <1>4

-----------------------------------------------------------------------------
\* The tick of the submit worker.

TickSteps == {"idle", "tiers", "scores", "allocate", "claim"}
Counted == [Backends -> Nat]
Ticks == [at : TickSteps, tiers : SUBSET Nat, up : SUBSET Backends,
          free : Counted \cup {<<>>}, inflight : Counted \cup {<<>>}, assigned : Counted \cup {<<>>},
          batches : SUBSET (Backends \X {BatchOf[p] : p \in Pages}),
          window : SUBSET Pages, plan : SUBSET (Pages \X Backends), start : Int, left : Int]
Waiting == {"queued", "reaped", "gone"}

TickTypes ==
    /\ tick \in Ticks /\ IsFiniteSet(tick.tiers)
    /\ tick.at # "idle" => {tick.free, tick.inflight, tick.assigned} \subseteq Counted

\* What a backend runs and what the plan gives it leave as much room as it has free slots,
\* however many pages have ended since they were counted.
Taken(b) == {p \in Pages : where[p] = b \/ <<p, b>> \in tick.plan}
RoomInv ==
    \A b \in Backends :
        /\ tick.at = "idle" => Cardinality(Taken(b)) <= MaxInflight[b]
        /\ tick.at # "idle" => Cardinality(Taken(b)) + tick.free[b] <= MaxInflight[b]

\* A page in the window or the plan runs nowhere: nobody adds to what it avoids.
PlanInv ==
    /\ tick.at \notin {"allocate", "claim"} => tick.plan = {}
    /\ tick.at \notin {"scores", "allocate"} => tick.window = {}
    /\ \A p \in tick.window : where[p] \in Waiting
    /\ \A p \in Pages, b \in Backends : <<p, b>> \in tick.plan => where[p] \in Waiting
    /\ RetriedElsewhere

\* The tolerance of affinity is less than what the last slot of a backend costs (by default
\* 15 % and 4 slots).  With more, a page may follow its batch past an equal backend that is
\* emptier, and D7 wins over the even share.
SmallTies == \A b \in Backends : Tolerance * (MaxInflight[b] - 1) < 100

\* Slots are given once; a tier that is to come has none given.
SlotInv ==
    /\ tick.at \in {"scores", "allocate", "claim"} => tick.tiers # {}
    /\ tick.at # "idle" =>
          /\ \A b \in Backends : tick.free[b] + tick.assigned[b] = Above(MaxInflight[b], tick.inflight[b])
          /\ \A b \in tick.up : TierOf[b] \in tick.tiers /\ (tick.at \in {"tiers", "scores"} \/ TierOf[b] # Tier)
                                   => tick.assigned[b] = 0
    /\ SmallTies => EvenShare

DispatchInv == DispatchTypeOK /\ TickTypes /\ RoomInv /\ PlanInv /\ SlotInv

LEMMA AboveIsNat ==
    ASSUME NEW n \in Nat, NEW m \in Nat
    PROVE  Above(n, m) \in Nat /\ Above(n, m) = IF n > m THEN n - m ELSE 0
BY DEF Above

LEMMA PagesAreFinite ==
    ASSUME NEW S \in SUBSET Pages
    PROVE  IsFiniteSet(S) /\ Cardinality(S) \in Nat /\ \A T \in SUBSET S : Cardinality(T) <= Cardinality(S)
BY DispatchConstants, FS_Subset, FS_CardinalityType

LEMMA TierIsThere ==
    ASSUME TickTypes, tick.tiers # {}
    PROVE  Tier \in tick.tiers
<1>1. tick.tiers \in SUBSET Nat /\ IsFiniteSet(tick.tiers)
  BY DEF TickTypes, Ticks
<1>2. \E t \in tick.tiers : \A u \in tick.tiers : u <= t
  BY <1>1, LargestOne
<1> QED
  BY <1>2 DEF Tier

\* A step in which pages end, expire or are taken off the queue, and the tick stands still.
LEMMA PagesMove ==
    ASSUME DispatchInv, UNCHANGED tick, DispatchTypeOK',
           \A p \in Pages : \/ where'[p] = where[p]
                            \/ where[p] \in Backends /\ where'[p] \notin Backends
                            \/ where[p] \in Waiting /\ where'[p] \in Waiting,
           \A p \in Pages : where[p] \notin Backends => avoid'[p] = avoid[p],
           tick.at = "allocate" => UNCHANGED <<avoid, spp, samples, penalty>>
    PROVE  DispatchInv'
<1> USE DispatchConstants
<1>0. TickTypes /\ RoomInv /\ PlanInv /\ SlotInv /\ where \in [Pages -> Backends \cup PageStates]
  BY DEF DispatchInv, DispatchTypeOK
<1>w. \A b \in Backends : b \notin Waiting
  BY DEF Waiting, PageStates
<1>1. TickTypes'
  BY <1>0 DEF TickTypes, Ticks, Counted, TickSteps
<1>2. RoomInv'
  <2>1. ASSUME NEW b \in Backends PROVE Cardinality(Taken(b)') <= Cardinality(Taken(b))
    <3>1. Taken(b)' \subseteq Taken(b) /\ Taken(b) \in SUBSET Pages
      BY <1>w DEF Taken
    <3> QED
      BY <3>1, PagesAreFinite
  <2>2. ASSUME NEW b \in Backends PROVE Cardinality(Taken(b)') \in Nat /\ Cardinality(Taken(b)) \in Nat
    <3>1. Taken(b)' \in SUBSET Pages /\ Taken(b) \in SUBSET Pages
      BY DEF Taken
    <3> QED
      BY <3>1, PagesAreFinite
  <2>3. tick.at # "idle" => \A b \in Backends : tick.free[b] \in Nat
    BY <1>0 DEF TickTypes, Counted
  <2> QED
    BY <1>0, <2>1, <2>2, <2>3 DEF RoomInv
<1>3. PlanInv'
  <2>1. \A p \in Pages : where[p] \in Waiting => where'[p] \in Waiting /\ avoid'[p] = avoid[p]
    BY <1>w
  <2>2. tick.window \subseteq Pages
    BY <1>0 DEF TickTypes, Ticks
  <2>3. RetriedElsewhere'
    <3>1. \A p \in Pages, b \in tick.up : <<p, b>> \in tick.plan => where[p] \in Waiting
      BY <1>0 DEF PlanInv, TickTypes, Ticks
    <3>2. RetriedElsewhere
      BY <1>0 DEF PlanInv
    <3> QED
      BY <2>1, <3>1, <3>2 DEF RetriedElsewhere, CanServe
  <2> QED
    BY <1>0, <2>1, <2>2, <2>3 DEF PlanInv
<1>4. SlotInv'
  <2>1. SmallTies => EvenShare'
    <3> SUFFICES ASSUME SmallTies, tick.at = "allocate" PROVE EvenShare'
      BY DEF EvenShare
    <3>1. UNCHANGED <<avoid, spp, samples, penalty>>
      OBVIOUS
    <3>2. Slots' = Slots
      BY DEF Slots, Tier
    <3>3. \A b \in Backends : EffectiveSpp(Slots, b)' = EffectiveSpp(Slots, b)
      BY <3>1, <3>2 DEF EffectiveSpp, Warm, TwiceMedian, Ranked, Faster
    <3>4. Slots \subseteq Backends
      BY <1>0 DEF Slots, TickTypes, Ticks
    <3>5. \A b, c \in Backends : LookEqual(b, c)' <=> LookEqual(b, c)
      BY <3>1, <3>2, <3>3 DEF LookEqual
    <3>6. EvenShare
      BY <1>0 DEF SlotInv
    <3> QED
      BY <3>2, <3>4, <3>5, <3>6 DEF EvenShare
  <2>2. Tier' = Tier
    BY DEF Tier
  <2> QED
    BY <1>0, <2>1, <2>2 DEF SlotInv
<1> QED
  BY <1>1, <1>2, <1>3, <1>4 DEF DispatchInv

LEMMA PenaltyRange ==
    ASSUME NEW q \in 4..MaxPenalty
    PROVE  Penalize(q) \in 4..MaxPenalty /\ Ease(q) \in 4..MaxPenalty
<1>1. MaxPenalty \in Nat /\ MaxPenalty >= 4 /\ q \in Nat /\ q >= 4 /\ q <= MaxPenalty
  BY DispatchConstants
<1>2. (3 * q) \div 2 \in Nat /\ (3 * q) \div 2 >= 4
  BY <1>1
<1>3. (2 * q) \div 3 \in Nat /\ (2 * q) \div 3 <= q
  BY <1>1
<1> QED
  BY <1>1, <1>2, <1>3 DEF Penalize, Ease

\* The engines, the poller and the reaper.
LEMMA PageSteps ==
    ASSUME DispatchInv, NEW p \in Pages,
           PageDone(p) \/ PageRetried(p) \/ PageFailed(p) \/ ReapQueued(p) \/ StateExpires(p)
    PROVE  DispatchInv'
<1> USE DispatchConstants
<1>0. DispatchTypeOK
  BY DEF DispatchInv
<1>t. /\ where \in [Pages -> Backends \cup PageStates] /\ avoid \in [Pages -> SUBSET Backends]
      /\ requeues \in [Pages -> 0..MaxRequeues] /\ spp \in [Backends -> Speeds]
      /\ samples \in [Backends -> 0..ColdSamples] /\ penalty \in [Backends -> 4..MaxPenalty]
      /\ tick.at \in {"idle", "tiers", "scores", "allocate", "claim"} /\ outages \in 0..MaxOutages
  BY <1>0 DEF DispatchTypeOK
<1>n. MaxRequeues \in Nat /\ ColdSamples \in Nat
  OBVIOUS
<1>b. {"queued", "reaped", "gone", "done", "failed"} = PageStates /\ \A b \in Backends : b \notin Waiting
  BY DEF Waiting, PageStates
<1>1. CASE PageDone(p)
  <2> DEFINE b == where[p]
  <2>1. /\ b \in Backends /\ tick.at # "allocate" /\ where' = [where EXCEPT ![p] = "done"]
        /\ (\E v \in Speeds : spp' = [spp EXCEPT ![b] = v])
        /\ samples' = [samples EXCEPT ![b] = IF @ < ColdSamples THEN @ + 1 ELSE @]
        /\ penalty' = [penalty EXCEPT ![b] = Ease(@)]
        /\ UNCHANGED <<avoid, requeues, tick, outages>>
    BY <1>1 DEF PageDone
  <2>2. where' \in [Pages -> Backends \cup PageStates] /\ spp' \in [Backends -> Speeds]
    BY <1>t, <1>b, <2>1
  <2>3. samples' \in [Backends -> 0..ColdSamples]
    <3>1. samples[b] \in 0..ColdSamples
      BY <1>t, <2>1
    <3>2. (IF samples[b] < ColdSamples THEN samples[b] + 1 ELSE samples[b]) \in 0..ColdSamples
      BY <1>n, <3>1
    <3> HIDE DEF b
    <3> QED
      BY <1>t, <2>1, <3>2
  <2>4. penalty' \in [Backends -> 4..MaxPenalty]
    <3>1. Ease(penalty[b]) \in 4..MaxPenalty
      BY <1>t, <2>1, PenaltyRange
    <3> QED
      BY <1>t, <2>1, <3>1
  <2>5. DispatchTypeOK'
    BY <1>t, <2>1, <2>2, <2>3, <2>4 DEF DispatchTypeOK
  <2>6. \A r \in Pages : where'[r] = where[r] \/ (where[r] \in Backends /\ where'[r] \notin Backends)
    BY <1>t, <1>b, <2>1
  <2> QED
    BY <2>1, <2>5, <2>6, PagesMove
<1>2. CASE PageRetried(p)
  <2> DEFINE b == where[p]
  <2>1. /\ b \in Backends /\ tick.at # "allocate" /\ requeues[p] < MaxRequeues
        /\ where' = [where EXCEPT ![p] = "queued"] /\ requeues' = [requeues EXCEPT ![p] = @ + 1]
        /\ avoid' = [avoid EXCEPT ![p] = @ \cup {b}] /\ penalty' = [penalty EXCEPT ![b] = Penalize(@)]
        /\ UNCHANGED <<spp, samples, tick, outages>>
    BY <1>2 DEF PageRetried
  <2>2. where' \in [Pages -> Backends \cup PageStates] /\ avoid' \in [Pages -> SUBSET Backends]
    BY <1>t, <1>b, <2>1
  <2>3. requeues' \in [Pages -> 0..MaxRequeues]
    <3>1. requeues[p] + 1 \in 0..MaxRequeues
      BY <1>t, <1>n, <2>1
    <3> QED
      BY <1>t, <2>1, <3>1
  <2>4. penalty' \in [Backends -> 4..MaxPenalty]
    <3>1. Penalize(penalty[b]) \in 4..MaxPenalty
      BY <1>t, <2>1, PenaltyRange
    <3> QED
      BY <1>t, <2>1, <3>1
  <2>5. DispatchTypeOK'
    BY <1>t, <2>1, <2>2, <2>3, <2>4 DEF DispatchTypeOK
  <2>6. \A r \in Pages : where'[r] = where[r] \/ (where[r] \in Backends /\ where'[r] \notin Backends)
    BY <1>t, <1>b, <2>1
  <2>7. \A r \in Pages : where[r] \notin Backends => avoid'[r] = avoid[r]
    BY <1>t, <2>1
  <2> QED
    BY <2>1, <2>5, <2>6, <2>7, PagesMove
<1>3. CASE PageFailed(p)
  <2> DEFINE b == where[p]
  <2>1. /\ b \in Backends /\ tick.at # "allocate" /\ where' = [where EXCEPT ![p] = "failed"]
        /\ penalty' = [penalty EXCEPT ![b] = Penalize(@)] \/ penalty' = penalty
        /\ UNCHANGED <<avoid, requeues, spp, samples, tick, outages>>
    BY <1>3 DEF PageFailed
  <2>2. where' \in [Pages -> Backends \cup PageStates]
    BY <1>t, <1>b, <2>1
  <2>4. penalty' \in [Backends -> 4..MaxPenalty]
    <3>1. Penalize(penalty[b]) \in 4..MaxPenalty
      BY <1>t, <2>1, PenaltyRange
    <3> QED
      BY <1>t, <2>1, <3>1
  <2>5. DispatchTypeOK'
    BY <1>t, <2>1, <2>2, <2>4 DEF DispatchTypeOK
  <2>6. \A r \in Pages : where'[r] = where[r] \/ (where[r] \in Backends /\ where'[r] \notin Backends)
    BY <1>t, <1>b, <2>1
  <2> QED
    BY <2>1, <2>5, <2>6, PagesMove
<1>4. CASE ReapQueued(p) \/ StateExpires(p)
  <2>1. /\ \E s \in {"reaped", "gone"} : where' = [where EXCEPT ![p] = s]
        /\ where[p] \in {"queued", "reaped"}
        /\ UNCHANGED <<avoid, requeues, spp, samples, penalty, tick, outages>>
    BY <1>4 DEF ReapQueued, StateExpires
  <2>2. where' \in [Pages -> Backends \cup PageStates]
    BY <1>t, <1>b, <2>1
  <2>5. DispatchTypeOK'
    BY <1>t, <2>1, <2>2 DEF DispatchTypeOK
  <2>6. \A r \in Pages : where'[r] = where[r] \/ (where[r] \in Waiting /\ where'[r] \in Waiting)
    BY <1>t, <2>1 DEF Waiting
  <2> QED
    BY <2>1, <2>5, <2>6, PagesMove
<1> QED
  BY <1>1, <1>2, <1>3, <1>4

\* A step of the tick that gives no slot and plans no page.
LEMMA TickMoves ==
    ASSUME DispatchInv, UNCHANGED <<where, avoid, requeues, spp, samples, penalty, outages>>,
           tick' \in Ticks, IsFiniteSet(tick'.tiers), tick.at # "idle", tick'.at # "idle",
           tick'.up = tick.up, tick'.free = tick.free, tick'.inflight = tick.inflight,
           tick'.assigned = tick.assigned, tick'.plan = tick.plan, tick'.window \subseteq tick.window
    PROVE  DispatchTypeOK' /\ TickTypes' /\ RoomInv' /\ RetriedElsewhere'
           /\ (\A p \in tick'.window : where'[p] \in Waiting)
           /\ (\A p \in Pages, b \in Backends : <<p, b>> \in tick'.plan => where'[p] \in Waiting)
<1>0. DispatchTypeOK /\ TickTypes /\ RoomInv /\ PlanInv
  BY DEF DispatchInv
<1>1. DispatchTypeOK'
  BY <1>0 DEF DispatchTypeOK, Ticks, TickSteps
<1>2. TickTypes'
  BY <1>0 DEF TickTypes
<1>3. RoomInv'
  BY <1>0 DEF RoomInv, Taken
<1>4. RetriedElsewhere'
  BY <1>0 DEF PlanInv, RetriedElsewhere
<1> QED
  BY <1>0, <1>1, <1>2, <1>3, <1>4 DEF PlanInv

LEMMA OtherSteps ==
    ASSUME DispatchInv, TickEnds \/ TierFull \/ TierScores \/ LeaveOut \/ AllocateReturns
    PROVE  DispatchInv'
<1>0. /\ DispatchTypeOK /\ TickTypes /\ RoomInv /\ PlanInv /\ SlotInv
      /\ tick \in Ticks /\ IsFiniteSet(tick.tiers)
  BY DEF DispatchInv, TickTypes
<1>1. CASE TickEnds
  <2>1. tick' = NoTick /\ tick.at = "tiers" /\ UNCHANGED <<where, avoid, requeues, spp, samples, penalty, outages>>
    BY <1>1 DEF TickEnds
  <2>2. /\ tick'.at = "idle" /\ tick'.plan = {} /\ tick'.window = {} /\ tick'.up = {} /\ tick'.tiers = {}
        /\ tick' \in Ticks
    BY <2>1 DEF NoTick, Ticks, TickSteps
  <2>3. DispatchTypeOK' /\ TickTypes' /\ PlanInv' /\ SlotInv'
    <3>1. IsFiniteSet({})
      BY FS_EmptySet
    <3>2. DispatchTypeOK'
      BY <1>0, <2>1, <2>2 DEF DispatchTypeOK
    <3>3. TickTypes'
      BY <2>2, <3>1 DEF TickTypes
    <3>4. PlanInv'
      BY <2>2 DEF PlanInv, RetriedElsewhere
    <3>5. SlotInv'
      BY <2>2 DEF SlotInv, EvenShare
    <3> QED
      BY <3>2, <3>3, <3>4, <3>5
  <2>4. RoomInv'
    <3> SUFFICES ASSUME NEW b \in Backends PROVE Cardinality(Taken(b)') <= MaxInflight[b]
      BY <2>2 DEF RoomInv
    <3>1. Taken(b)' \subseteq Taken(b) /\ Taken(b) \in SUBSET Pages
      BY <2>1, <2>2 DEF Taken
    <3>2. Cardinality(Taken(b)') <= Cardinality(Taken(b)) /\ Cardinality(Taken(b)) \in Nat
          /\ Cardinality(Taken(b)') \in Nat
      BY <3>1, PagesAreFinite
    <3>3. tick.free[b] \in Nat /\ MaxInflight[b] \in Nat
      BY <1>0, <2>1, DispatchConstants DEF TickTypes, Counted
    <3>4. Cardinality(Taken(b)) + tick.free[b] <= MaxInflight[b]
      BY <1>0, <2>1 DEF RoomInv
    <3> QED
      BY <3>2, <3>3, <3>4
  <2> QED
    BY <2>3, <2>4 DEF DispatchInv
<1>2. CASE TierFull
  <2>1. /\ tick' = [tick EXCEPT !.tiers = @ \ {Tier}] /\ tick.at = "tiers"
        /\ UNCHANGED <<where, avoid, requeues, spp, samples, penalty, outages>>
    BY <1>2 DEF TierFull
  <2>2. /\ tick' \in Ticks /\ tick'.at = "tiers" /\ tick'.tiers = tick.tiers \ {Tier}
        /\ tick'.up = tick.up /\ tick'.free = tick.free /\ tick'.inflight = tick.inflight
        /\ tick'.assigned = tick.assigned /\ tick'.plan = tick.plan /\ tick'.window = tick.window
    BY <1>0, <2>1 DEF Ticks
  <2>3. IsFiniteSet(tick'.tiers)
    BY <1>0, <2>2, FS_Subset
  <2>4. DispatchTypeOK' /\ TickTypes' /\ RoomInv' /\ RetriedElsewhere'
        /\ (\A p \in tick'.window : where'[p] \in Waiting)
        /\ (\A p \in Pages, b \in Backends : <<p, b>> \in tick'.plan => where'[p] \in Waiting)
    BY <2>1, <2>2, <2>3, TickMoves
  <2>5. PlanInv'
    BY <1>0, <2>1, <2>2, <2>4 DEF PlanInv
  <2>6. SlotInv'
    BY <1>0, <2>1, <2>2 DEF SlotInv, EvenShare
  <2> QED
    BY <2>4, <2>5, <2>6 DEF DispatchInv
<1>3. CASE TierScores
  <2>1. /\ tick' = [tick EXCEPT !.at = "allocate", !.start = 0] /\ tick.at = "scores"
        /\ UNCHANGED <<where, avoid, requeues, spp, samples, penalty, outages>>
    BY <1>3 DEF TierScores
  <2>2. /\ tick' \in Ticks /\ tick'.at = "allocate" /\ tick'.tiers = tick.tiers
        /\ tick'.up = tick.up /\ tick'.free = tick.free /\ tick'.inflight = tick.inflight
        /\ tick'.assigned = tick.assigned /\ tick'.plan = tick.plan /\ tick'.window = tick.window
    <3> DEFINE first == [tick EXCEPT !.at = "allocate"]
    <3>1. /\ first \in Ticks /\ first.at = "allocate" /\ first.tiers = tick.tiers
          /\ first.up = tick.up /\ first.free = tick.free /\ first.inflight = tick.inflight
          /\ first.assigned = tick.assigned /\ first.plan = tick.plan /\ first.window = tick.window
      BY <1>0 DEF Ticks, TickSteps
    <3>2. tick' = [first EXCEPT !.start = 0]
      BY <1>0, <2>1 DEF Ticks
    <3> HIDE DEF first
    <3> QED
      BY <3>1, <3>2 DEF Ticks
  <2>3. DispatchTypeOK' /\ TickTypes' /\ RoomInv' /\ RetriedElsewhere'
        /\ (\A p \in tick'.window : where'[p] \in Waiting)
        /\ (\A p \in Pages, b \in Backends : <<p, b>> \in tick'.plan => where'[p] \in Waiting)
    BY <1>0, <2>1, <2>2, TickMoves
  <2>4. PlanInv'
    BY <1>0, <2>1, <2>2, <2>3 DEF PlanInv
  <2>5. Tier' = Tier /\ Slots' = Slots
    BY <2>2 DEF Tier, Slots
  <2>6. Tier \in tick.tiers
    BY <1>0, <2>1, TierIsThere DEF SlotInv
  <2>7. \A b \in Slots : tick.assigned[b] = 0
    BY <1>0, <2>1, <2>6 DEF SlotInv, Slots
  <2>8. EvenShare'
    BY <2>2, <2>5, <2>7 DEF EvenShare
  <2>9. SlotInv'
    BY <1>0, <2>1, <2>2, <2>5, <2>8 DEF SlotInv
  <2> QED
    BY <2>3, <2>4, <2>9 DEF DispatchInv
<1>4. CASE LeaveOut
  <2> DEFINE left == tick.window \ {NextJob}
  <2>1. /\ tick' = [tick EXCEPT !.window = left] /\ tick.at = "allocate"
        /\ UNCHANGED <<where, avoid, requeues, spp, samples, penalty, outages>>
    BY <1>4 DEF LeaveOut
  <2>2. left \subseteq tick.window
    OBVIOUS
  <2> HIDE DEF left
  <2>3. /\ tick' \in Ticks /\ tick'.at = "allocate" /\ tick'.tiers = tick.tiers
        /\ tick'.up = tick.up /\ tick'.free = tick.free /\ tick'.inflight = tick.inflight
        /\ tick'.assigned = tick.assigned /\ tick'.plan = tick.plan /\ tick'.window = left
    BY <1>0, <2>1, <2>2 DEF Ticks
  <2>4. DispatchTypeOK' /\ TickTypes' /\ RoomInv' /\ RetriedElsewhere'
        /\ (\A p \in tick'.window : where'[p] \in Waiting)
        /\ (\A p \in Pages, b \in Backends : <<p, b>> \in tick'.plan => where'[p] \in Waiting)
    BY <1>0, <2>1, <2>2, <2>3, TickMoves
  <2>5. PlanInv'
    BY <1>0, <2>1, <2>3, <2>4 DEF PlanInv
  <2>6. (SmallTies => EvenShare') /\ Tier' = Tier
    <3>1. Slots' = Slots /\ Tier' = Tier
      BY <2>3 DEF Slots, Tier
    <3>2. \A b : EffectiveSpp(Slots, b)' = EffectiveSpp(Slots, b)
      BY <2>1, <3>1 DEF EffectiveSpp, Warm, TwiceMedian, Ranked, Faster
    <3>3. \A b, c : LookEqual(b, c)' <=> LookEqual(b, c)
      BY <2>1, <2>3, <3>1, <3>2 DEF LookEqual
    <3> QED
      BY <1>0, <2>1, <2>3, <3>1, <3>3 DEF SlotInv, EvenShare
  <2>7. SlotInv'
    BY <1>0, <2>1, <2>3, <2>6 DEF SlotInv
  <2> QED
    BY <2>4, <2>5, <2>7 DEF DispatchInv
<1>5. CASE AllocateReturns
  <2>1. /\ tick' = [tick EXCEPT !.at = "claim"] /\ tick.at = "allocate" /\ tick.window = {}
        /\ UNCHANGED <<where, avoid, requeues, spp, samples, penalty, outages>>
    BY <1>5 DEF AllocateReturns
  <2>2. /\ tick' \in Ticks /\ tick'.at = "claim" /\ tick'.tiers = tick.tiers
        /\ tick'.up = tick.up /\ tick'.free = tick.free /\ tick'.inflight = tick.inflight
        /\ tick'.assigned = tick.assigned /\ tick'.plan = tick.plan /\ tick'.window = tick.window
    BY <1>0, <2>1 DEF Ticks, TickSteps
  <2>3. DispatchTypeOK' /\ TickTypes' /\ RoomInv' /\ RetriedElsewhere'
        /\ (\A p \in tick'.window : where'[p] \in Waiting)
        /\ (\A p \in Pages, b \in Backends : <<p, b>> \in tick'.plan => where'[p] \in Waiting)
    BY <1>0, <2>1, <2>2, TickMoves
  <2>4. PlanInv'
    BY <2>1, <2>2, <2>3 DEF PlanInv
  <2>5. Tier' = Tier
    BY <2>2 DEF Tier
  <2>6. SlotInv'
    BY <1>0, <2>1, <2>2, <2>5 DEF SlotInv, EvenShare
  <2> QED
    BY <2>3, <2>4, <2>6 DEF DispatchInv
<1> QED
  BY <1>1, <1>2, <1>3, <1>4, <1>5

LEMMA DispatchStarts ==
    ASSUME DispatchInit
    PROVE  DispatchInv
<1> USE DispatchConstants
<1>1. /\ where = [p \in Pages |-> "queued"] /\ avoid = [p \in Pages |-> {}]
      /\ requeues = [p \in Pages |-> 0] /\ spp \in [Backends -> Speeds]
      /\ samples = [b \in Backends |-> 0] /\ penalty = [b \in Backends |-> 4]
      /\ tick = NoTick /\ outages = 0
  BY DEF DispatchInit
<1>2. /\ tick.at = "idle" /\ tick.plan = {} /\ tick.window = {} /\ tick.up = {} /\ tick.tiers = {}
      /\ tick \in Ticks
  BY <1>1 DEF NoTick, Ticks, TickSteps
<1>3. DispatchTypeOK
  BY <1>1, <1>2 DEF DispatchTypeOK, PageStates
<1>4. TickTypes
  BY <1>2, FS_EmptySet DEF TickTypes
<1>5. RoomInv
  <2> SUFFICES ASSUME NEW b \in Backends PROVE Cardinality(Taken(b)) <= MaxInflight[b]
    BY <1>2 DEF RoomInv
  <2>1. Taken(b) = {}
    BY <1>1, <1>2 DEF Taken, PageStates
  <2> QED
    BY <2>1, FS_EmptySet
<1>6. PlanInv /\ SlotInv
  BY <1>2 DEF PlanInv, SlotInv, RetriedElsewhere, EvenShare
<1> QED
  BY <1>3, <1>4, <1>5, <1>6 DEF DispatchInv

LEMMA StartOfTick ==
    ASSUME DispatchInv, NEW up \in SUBSET Backends, TickStart(up)
    PROVE  DispatchInv'
<1> USE DispatchConstants
<1>0. DispatchTypeOK /\ TickTypes /\ RoomInv /\ PlanInv /\ SlotInv
  BY DEF DispatchInv
<1> DEFINE runs == [b \in Backends |-> Cardinality(RunningOn(b))]
           room == [b \in Backends |-> Above(MaxInflight[b], Cardinality(RunningOn(b)))]
           none == [b \in Backends |-> 0]
           seen == {<<where[p], BatchOf[p]>> : p \in Inflight}
           tiers == {TierOf[b] : b \in up}
           left == Above(UnstoredMax, Cardinality(Inflight))
           fresh == [at |-> "tiers", tiers |-> tiers, up |-> up, free |-> room, inflight |-> runs,
                     assigned |-> none, batches |-> seen, window |-> {}, plan |-> {}, start |-> 0, left |-> left]
<1>1. /\ tick.at = "idle" /\ outages' \in 0..MaxOutages /\ tick' = fresh
      /\ UNCHANGED <<where, avoid, requeues, spp, samples, penalty>>
  <2>1. tick.at = "idle" /\ UNCHANGED <<where, avoid, requeues, spp, samples, penalty>>
    BY DEF TickStart
  <2>2. tick' = fresh
    BY DEF TickStart, NoTick
  <2>3. outages \in 0..MaxOutages /\ MaxOutages \in Nat
    BY <1>0 DEF DispatchTypeOK
  <2>4. outages' = outages \/ (outages < MaxOutages /\ outages' = outages + 1)
    BY DEF TickStart
  <2>5. outages' \in 0..MaxOutages
    BY <2>3, <2>4
  <2> QED
    BY <2>1, <2>2, <2>5
<1>2. ASSUME NEW b \in Backends
      PROVE  /\ Taken(b) = RunningOn(b) /\ IsFiniteSet(RunningOn(b))
             /\ runs[b] \in Nat /\ runs[b] = Cardinality(RunningOn(b)) /\ room[b] \in Nat /\ none[b] = 0
             /\ room[b] = Above(MaxInflight[b], runs[b])
             /\ runs[b] + room[b] <= MaxInflight[b]
  <2>1. Taken(b) = RunningOn(b) /\ RunningOn(b) \in SUBSET Pages
    BY <1>0, <1>1 DEF Taken, RunningOn, PlanInv
  <2>2. Cardinality(RunningOn(b)) \in Nat /\ IsFiniteSet(RunningOn(b))
    BY <2>1, PagesAreFinite
  <2>3. Cardinality(RunningOn(b)) <= MaxInflight[b] /\ MaxInflight[b] \in Nat
    BY <1>0, <1>1, <2>1 DEF RoomInv
  <2>4. /\ runs[b] = Cardinality(RunningOn(b)) /\ none[b] = 0
        /\ room[b] = Above(MaxInflight[b], Cardinality(RunningOn(b)))
    OBVIOUS
  <2>5. room[b] \in Nat /\ runs[b] + room[b] <= MaxInflight[b]
    <3> HIDE DEF room, runs
    <3> DEFINE n == Cardinality(RunningOn(b))
               m == MaxInflight[b]
    <3>1. n \in Nat /\ m \in Nat /\ n <= m /\ room[b] = Above(m, n) /\ runs[b] = n
      BY <2>2, <2>3, <2>4
    <3> HIDE DEF n, m
    <3>2. room[b] = IF m > n THEN m - n ELSE 0
      BY <3>1, AboveIsNat
    <3>3. room[b] \in Nat /\ runs[b] + room[b] <= m
      BY <3>1, <3>2
    <3> QED
      BY <3>3 DEF m
  <2> HIDE DEF room, runs, none
  <2> QED
    BY <2>1, <2>2, <2>4, <2>5
<1>3. runs \in Counted /\ room \in Counted /\ none \in Counted
  BY <1>2 DEF Counted
<1>4. left \in Nat
  <2>1. Cardinality(Inflight) \in Nat
    BY PagesAreFinite DEF Inflight
  <2> QED
    BY <2>1, AboveIsNat
<1>5. tiers \subseteq Nat /\ IsFiniteSet(tiers)
  <2>1. IsFiniteSet(up)
    BY FS_Subset
  <2> DEFINE f == [b \in up |-> TierOf[b]]
  <2>2. f \in Surjection(up, tiers)
    BY DEF Surjection
  <2>3. IsFiniteSet(tiers)
    BY <2>1, <2>2, FS_Surjection
  <2> QED
    BY <2>3
<1>6. seen \subseteq Backends \X {BatchOf[p] : p \in Pages}
  BY DEF Inflight
<1>7. tick'.tiers = tiers /\ \A b \in up : TierOf[b] \in tiers
  BY <1>1
<1> HIDE DEF runs, room, none, seen, tiers, left
<1>8. /\ tick'.at = "tiers" /\ tick'.up = up /\ tick'.free = room /\ tick'.inflight = runs
      /\ tick'.assigned = none /\ tick'.window = {} /\ tick'.plan = {} /\ tick'.tiers = tiers
  BY <1>1
<1>9. tick' \in Ticks
  BY <1>1, <1>3, <1>4, <1>5, <1>6 DEF Ticks, TickSteps
<1>10. DispatchTypeOK'
  BY <1>0, <1>1, <1>8 DEF DispatchTypeOK
<1>11. TickTypes'
  BY <1>3, <1>5, <1>8, <1>9 DEF TickTypes
<1>12. RoomInv'
  <2> SUFFICES ASSUME NEW b \in Backends PROVE Cardinality(Taken(b)') + tick'.free[b] <= MaxInflight[b]
    BY <1>8 DEF RoomInv
  <2>1. Taken(b)' = RunningOn(b)
    BY <1>1, <1>8 DEF Taken, RunningOn
  <2> QED
    BY <1>2, <1>8, <2>1
<1>13. PlanInv'
  BY <1>8 DEF PlanInv, RetriedElsewhere
<1>14. SlotInv'
  <2>1. \A b \in Backends : tick'.free[b] + tick'.assigned[b] = Above(MaxInflight[b], tick'.inflight[b])
    BY <1>2, <1>8
  <2> QED
    BY <1>2, <1>8, <2>1 DEF SlotInv, EvenShare
<1> QED
  BY <1>10, <1>11, <1>12, <1>13, <1>14 DEF DispatchInv

\* A step that moves waiting pages, gives no slot and plans no page.
LEMMA PeekOfTier ==
    ASSUME DispatchInv, TierPeek
    PROVE  DispatchInv'
<1> USE DispatchConstants
<1>0. /\ DispatchTypeOK /\ TickTypes /\ RoomInv /\ PlanInv /\ SlotInv
      /\ tick \in Ticks /\ IsFiniteSet(tick.tiers) /\ where \in [Pages -> Backends \cup PageStates]
  BY DEF DispatchInv, TickTypes, DispatchTypeOK
<1> DEFINE seen == {p \in FirstPending : where[p] # "gone"}
<1>1. /\ tick.at = "tiers" /\ tick.tiers # {} /\ tick' = [tick EXCEPT !.at = "scores", !.window = seen]
      /\ where' = [p \in Pages |-> IF p \in FirstPending /\ Dropped(p) THEN "failed" ELSE where[p]]
      /\ UNCHANGED <<avoid, requeues, spp, samples, penalty, outages>>
  BY DEF TierPeek
<1>2. seen \subseteq Pages /\ \A p \in seen : where[p] \in Waiting
  BY DEF FirstPending, Pending, Waiting
<1>3. \A p \in seen : where'[p] \in Waiting
  BY <1>1, <1>2 DEF Dropped
<1> HIDE DEF seen
<1>4. tick.plan = {}
  BY <1>0, <1>1 DEF PlanInv
<1>5. /\ tick' \in Ticks /\ tick'.at = "scores" /\ tick'.tiers = tick.tiers
      /\ tick'.up = tick.up /\ tick'.free = tick.free /\ tick'.inflight = tick.inflight
      /\ tick'.assigned = tick.assigned /\ tick'.plan = {} /\ tick'.window = seen
  <2> DEFINE first == [tick EXCEPT !.at = "scores"]
  <2>1. /\ first \in Ticks /\ first.at = "scores" /\ first.tiers = tick.tiers
        /\ first.up = tick.up /\ first.free = tick.free /\ first.inflight = tick.inflight
        /\ first.assigned = tick.assigned /\ first.plan = tick.plan
    BY <1>0 DEF Ticks, TickSteps
  <2>2. tick' = [first EXCEPT !.window = seen]
    BY <1>0, <1>1 DEF Ticks
  <2> HIDE DEF first
  <2> QED
    BY <1>2, <1>4, <2>1, <2>2 DEF Ticks
<1>6. DispatchTypeOK'
  <2>1. where' \in [Pages -> Backends \cup PageStates]
    BY <1>0, <1>1 DEF PageStates
  <2> QED
    BY <1>0, <1>1, <1>5, <2>1 DEF DispatchTypeOK
<1>7. TickTypes'
  BY <1>0, <1>1, <1>5 DEF TickTypes
<1>8. RoomInv'
  <2> SUFFICES ASSUME NEW b \in Backends PROVE Cardinality(Taken(b)') + tick'.free[b] <= MaxInflight[b]
    BY <1>5 DEF RoomInv
  <2>1. Taken(b)' = Taken(b)
    BY <1>1, <1>4, <1>5 DEF Taken, Dropped, PageStates
  <2> QED
    BY <1>0, <1>1, <1>5, <2>1 DEF RoomInv
<1>9. PlanInv'
  BY <1>3, <1>5 DEF PlanInv, RetriedElsewhere
<1>10. SlotInv'
  BY <1>0, <1>1, <1>5 DEF SlotInv, EvenShare
<1> QED
  BY <1>6, <1>7, <1>8, <1>9, <1>10 DEF DispatchInv

LEMMA DispatchOfTier ==
    ASSUME DispatchInv, TierDispatch
    PROVE  DispatchInv'
<1> USE DispatchConstants
<1>0. /\ DispatchTypeOK /\ TickTypes /\ RoomInv /\ PlanInv /\ SlotInv
      /\ tick \in Ticks /\ IsFiniteSet(tick.tiers) /\ where \in [Pages -> Backends \cup PageStates]
  BY DEF DispatchInv, TickTypes, DispatchTypeOK
<1> DEFINE others == tick.tiers \ {Tier}
           left == tick.left - Cardinality(tick.plan)
<1>1. /\ tick.at = "claim"
      /\ tick' = [tick EXCEPT !.at = "tiers", !.tiers = others, !.plan = {}, !.left = left]
      /\ where' = [p \in Pages |-> IF \E b \in Backends : <<p, b>> \in tick.plan
                                   THEN CHOOSE b \in Backends : <<p, b>> \in tick.plan ELSE where[p]]
      /\ UNCHANGED <<avoid, requeues, spp, samples, penalty, outages>>
  BY DEF TierDispatch
<1>2. left \in Int
  <2>1. tick.plan \in SUBSET (Pages \X Backends) /\ tick.left \in Int
    BY <1>0 DEF Ticks
  <2>2. Cardinality(tick.plan) \in Nat
    BY <2>1, FS_Product, FS_Subset, FS_CardinalityType
  <2> QED
    BY <2>1, <2>2
<1>3. others \subseteq tick.tiers /\ Tier \notin others /\ IsFiniteSet(others)
  BY <1>0, FS_Subset
<1>4. \A p \in Pages : \/ where'[p] \in Backends /\ <<p, where'[p]>> \in tick.plan
                       \/ where'[p] = where[p]
  BY <1>1
<1>5. tick.window = {}
  BY <1>0, <1>1 DEF PlanInv
<1>o. \A b \in tick.up : TierOf[b] \in others => TierOf[b] \in tick.tiers /\ TierOf[b] # Tier
  OBVIOUS
<1> HIDE DEF left, others
<1>6. /\ tick' \in Ticks /\ tick'.at = "tiers" /\ tick'.tiers = others
      /\ tick'.up = tick.up /\ tick'.free = tick.free /\ tick'.inflight = tick.inflight
      /\ tick'.assigned = tick.assigned /\ tick'.plan = {} /\ tick'.window = {}
  <2> DEFINE first == [tick EXCEPT !.at = "tiers"]
             then == [first EXCEPT !.tiers = others]
             next == [then EXCEPT !.plan = {}]
  <2>1. /\ first \in Ticks /\ first.at = "tiers" /\ first.window = {}
        /\ first.up = tick.up /\ first.free = tick.free /\ first.inflight = tick.inflight
        /\ first.assigned = tick.assigned /\ first.tiers = tick.tiers
    BY <1>0, <1>5 DEF Ticks, TickSteps
  <2>2. tick' = [[[first EXCEPT !.tiers = others] EXCEPT !.plan = {}] EXCEPT !.left = left]
    BY <1>0, <1>1 DEF Ticks
  <2> HIDE DEF first
  <2>3. others \subseteq Nat
    BY <1>0, <1>3 DEF Ticks
  <2>4. /\ then \in Ticks /\ then.at = "tiers" /\ then.window = {} /\ then.tiers = others
        /\ then.up = tick.up /\ then.free = tick.free /\ then.inflight = tick.inflight
        /\ then.assigned = tick.assigned
    BY <2>1, <2>3 DEF Ticks
  <2> HIDE DEF then
  <2>5. /\ next \in Ticks /\ next.at = "tiers" /\ next.window = {} /\ next.tiers = others
        /\ next.up = tick.up /\ next.free = tick.free /\ next.inflight = tick.inflight
        /\ next.assigned = tick.assigned /\ next.plan = {}
    BY <2>4 DEF Ticks
  <2>6. tick' = [next EXCEPT !.left = left]
    BY <2>2 DEF then
  <2> HIDE DEF next
  <2> QED
    BY <1>2, <2>5, <2>6 DEF Ticks
<1>7. DispatchTypeOK'
  <2>1. where' \in [Pages -> Backends \cup PageStates]
    BY <1>0, <1>1, <1>4
  <2> QED
    BY <1>0, <1>1, <1>6, <2>1 DEF DispatchTypeOK
<1>8. TickTypes'
  BY <1>0, <1>1, <1>3, <1>6 DEF TickTypes
<1>9. RoomInv'
  <2> SUFFICES ASSUME NEW b \in Backends PROVE Cardinality(Taken(b)') + tick'.free[b] <= MaxInflight[b]
    BY <1>6 DEF RoomInv
  <2>1. Taken(b)' \subseteq Taken(b) /\ Taken(b) \in SUBSET Pages
    BY <1>4, <1>6 DEF Taken
  <2>2. Cardinality(Taken(b)') <= Cardinality(Taken(b)) /\ Cardinality(Taken(b)) \in Nat
        /\ Cardinality(Taken(b)') \in Nat
    BY <2>1, PagesAreFinite
  <2>3. tick.free[b] \in Nat /\ MaxInflight[b] \in Nat
    BY <1>0, <1>1 DEF TickTypes, Counted
  <2>4. Cardinality(Taken(b)) + tick.free[b] <= MaxInflight[b]
    BY <1>0, <1>1 DEF RoomInv
  <2> QED
    BY <1>6, <2>2, <2>3, <2>4
<1>10. PlanInv'
  BY <1>6 DEF PlanInv, RetriedElsewhere
<1>11. SlotInv'
  <2>1. \A b \in tick.up : TierOf[b] \in others => tick.assigned[b] = 0
    BY <1>0, <1>1, <1>o DEF SlotInv
  <2> QED
    BY <1>0, <1>1, <1>6, <2>1 DEF SlotInv, EvenShare
<1> QED
  BY <1>7, <1>8, <1>9, <1>10, <1>11 DEF DispatchInv

-----------------------------------------------------------------------------
\* One page is given a slot.

LEMMA SlotsAreBackends ==
    ASSUME TickTypes, NEW b \in Slots
    PROVE  /\ Slots \subseteq Backends /\ IsFiniteSet(Slots) /\ Cardinality(Slots) \in Nat \ {0}
           /\ Order(b) \in Nat /\ Turn(b) \in Nat /\ (Order(b) + 1) % Cardinality(Slots) \in Int
<1>1. Slots \subseteq Backends /\ tick.start \in Int
  BY DEF Slots, TickTypes, Ticks
<1>2. IsFiniteSet(Slots)
  BY <1>1, DispatchConstants, FS_Subset
<1>3. Cardinality(Slots) \in Nat \ {0}
  BY <1>2, FS_CardinalityType, FS_EmptySet
<1>4. Order(b) \in Nat
  <2>1. {c \in Slots : Position[c] < Position[b]} \in SUBSET Slots
    OBVIOUS
  <2>2. IsFiniteSet({c \in Slots : Position[c] < Position[b]})
    BY <1>2, <2>1, FS_Subset
  <2> QED
    BY <2>2, FS_CardinalityType DEF Order
<1>5. \A m \in Int, n \in Nat \ {0} : m % n \in Nat
  OBVIOUS
<1>6. Turn(b) \in Nat
  BY <1>1, <1>3, <1>4, <1>5 DEF Turn
<1>7. (Order(b) + 1) % Cardinality(Slots) \in Int
  BY <1>3, <1>4, <1>5
<1> QED
  BY <1>1, <1>2, <1>3, <1>4, <1>6, <1>7

LEMMA BestIsThere ==
    ASSUME NEW D, NEW finish \in [D -> Nat], NEW S \in SUBSET D, S # {}
    PROVE  Best(finish, S) # {} /\ Best(finish, S) \subseteq S
<1> DEFINE T == {finish[c] : c \in S}
<1>1. T \in SUBSET Nat /\ T # {}
  OBVIOUS
<1>2. PICK x \in T : \A y \in T : x <= y
  BY <1>1, LeastOne
<1> QED
  BY <1>2 DEF Best

\* What one more page costs a backend, in units of one over Parallel: its finish time is
\* this for each page it has and the one that comes.
PageCost(b, p) == EffectiveSpp(Slots, b) * Megapixels[p] * (Parallel \div MaxInflight[b])

LEMMA FinishTimes ==
    ASSUME DispatchInv, tick.at = "allocate", NEW p \in Pages, NEW b \in Slots
    PROVE  /\ PageCost(b, p) \in Nat \ {0} /\ ExpectedFinish(b, p) \in Nat
           /\ ExpectedFinish(b, p) = (tick.inflight[b] + tick.assigned[b] + 1) * PageCost(b, p)
<1>0. DispatchTypeOK /\ TickTypes
  BY DEF DispatchInv
<1>1. Slots \subseteq Backends /\ b \in Backends
  BY <1>0, SlotsAreBackends
<1> DEFINE e == EffectiveSpp(Slots, b)
           m == Megapixels[p]
           k == Parallel \div MaxInflight[b]
           n == tick.inflight[b] + tick.assigned[b] + 1
<1>2. e \in Nat \ {0} /\ m \in Nat \ {0}
  BY <1>0, <1>1, SppPositive, DispatchConstants
<1>3. k \in Nat \ {0}
  <2>1. Parallel \in Nat \ {0} /\ Parallel % MaxInflight[b] = 0 /\ MaxInflight[b] \in Nat \ {0}
    BY <1>1, DispatchAssumption
  <2>2. \A x \in Nat \ {0}, y \in Nat \ {0} : x % y = 0 => x \div y \in Nat \ {0}
    OBVIOUS
  <2> QED
    BY <2>1, <2>2
<1>4. n \in Nat
  BY <1>0, <1>1 DEF TickTypes, Counted
<1>5. PageCost(b, p) = e * m * k /\ ExpectedFinish(b, p) = n * e * m * k
  BY DEF PageCost, ExpectedFinish
<1> HIDE DEF e, m, k, n
<1>6. \A x, y \in Nat \ {0} : x * y \in Nat \ {0}
  OBVIOUS
<1>7. e * m \in Nat \ {0} /\ e * m * k \in Nat \ {0}
  BY <1>2, <1>3, <1>6
<1>8. n * e * m * k = n * (e * m * k) /\ n * (e * m * k) \in Nat
  BY <1>2, <1>3, <1>4, <1>7
<1> QED
  BY <1>5, <1>7, <1>8 DEF n

\* Affinity does not make up for a page more: of two finish times one cost apart, the
\* later is not within the tolerance of the earlier.
LEMMA OneMorePage ==
    ASSUME NEW n \in Nat, NEW K \in Nat \ {0}, NEW t \in Nat, NEW m \in Nat, n <= m, t * m < 100
    PROVE  ~((n + 1) * K <= n * K) /\ ~(100 * ((n + 1) * K) <= (n * K) * (100 + t))
<1>1. (n + 1) * K = n * K + K /\ n * K \in Nat
  OBVIOUS
<1>2. t * n <= t * m /\ t * n \in Nat
  OBVIOUS
<1>3. (n * K) * (100 + t) = 100 * (n * K) + (t * n) * K
  OBVIOUS
<1> DEFINE x == n * K
           y == t * n
<1>4. x \in Nat /\ y \in Nat /\ y <= 99
  BY <1>1, <1>2
<1> HIDE DEF x, y
<1>5. y * K <= 99 * K /\ y * K \in Nat
  BY <1>4
<1>6. ~(100 * (x + K) <= 100 * x + y * K) /\ ~(x + K <= x)
  BY <1>4, <1>5
<1> QED
  BY <1>1, <1>3, <1>6 DEF x, y

LEMMA ChosenOne ==
    ASSUME DispatchInv, tick.at = "allocate", NEW p \in Pages, Candidates(p) # {}, NEW b,
           b = Chosen(p, [c \in Candidates(p) |-> ExpectedFinish(c, p)])
    PROVE  /\ b \in Candidates(p) /\ b \in Slots
           /\ \A c \in Candidates(p) : \/ ExpectedFinish(b, p) <= ExpectedFinish(c, p)
                                       \/ 100 * ExpectedFinish(b, p) <= ExpectedFinish(c, p) * (100 + Tolerance)
<1> DEFINE D == Candidates(p)
           finish == [c \in D |-> ExpectedFinish(c, p)]
           affine == {c \in Near(finish) : BatchOf[p] # NoBatch /\ <<c, BatchOf[p]>> \in tick.batches}
           from == IF affine # {} THEN affine ELSE DOMAIN finish
           Pool == TiePool(finish, p)
<1>0. TickTypes /\ D \subseteq Slots
  BY DEF DispatchInv, Candidates
<1>1. finish \in [D -> Nat] /\ DOMAIN finish = D
  BY <1>0, FinishTimes
<1>2. Near(finish) \subseteq D
  BY <1>1 DEF Near
<1>3. Pool = Best(finish, from)
  BY DEF TiePool
<1>4. from \in SUBSET D /\ from # {}
  BY <1>1, <1>2
<1>5. Pool # {} /\ Pool \subseteq from
  <2> HIDE DEF finish, from, D
  <2> QED
    BY <1>1, <1>3, <1>4, BestIsThere
<1>6. \A c \in Pool : Turn(c) \in Nat
  BY <1>0, <1>4, <1>5, SlotsAreBackends
<1>7. b = CHOOSE c \in Pool : \A d \in Pool : Turn(c) <= Turn(d)
  BY DEF Chosen
<1>8. b \in Pool
  <2> HIDE DEF Pool
  <2> DEFINE T == {Turn(c) : c \in Pool}
  <2>1. T \in SUBSET Nat /\ T # {}
    BY <1>5, <1>6
  <2>2. PICK x \in T : \A y \in T : x <= y
    BY <2>1, LeastOne
  <2>3. \E c \in Pool : \A d \in Pool : Turn(c) <= Turn(d)
    BY <2>2
  <2> QED
    BY <1>7, <2>3
<1>9. b \in D
  BY <1>4, <1>5, <1>8
<1>10. ASSUME NEW c \in D
       PROVE  \/ ExpectedFinish(b, p) <= ExpectedFinish(c, p)
              \/ 100 * ExpectedFinish(b, p) <= ExpectedFinish(c, p) * (100 + Tolerance)
  <2>1. finish[b] = ExpectedFinish(b, p) /\ finish[c] = ExpectedFinish(c, p)
    BY <1>9
  <2> HIDE DEF finish, D
  <2>2. CASE affine # {}
    <3>1. b \in Near(finish)
      BY <1>5, <1>8, <2>2
    <3> QED
      BY <1>1, <2>1, <3>1 DEF Near
  <2>3. CASE affine = {}
    <3>1. from = D
      BY <1>1, <2>3
    <3>2. b \in Best(finish, D)
      BY <1>3, <1>8, <3>1
    <3> QED
      BY <2>1, <3>2 DEF Best
  <2> QED
    BY <2>2, <2>3
<1> QED
  BY <1>0, <1>9, <1>10

\* A backend that looks the same and has one page less would have been a candidate, and
\* finished earlier.
LEMMA TakenInTurn ==
    ASSUME SmallTies, DispatchInv, tick.at = "allocate", NEW p \in Pages, Candidates(p) # {}, NEW b, NEW c,
           b = Chosen(p, [d \in Candidates(p) |-> ExpectedFinish(d, p)]), LookEqual(b, c)
    PROVE  tick.assigned[b] # tick.assigned[c] + 1
<1> SUFFICES ASSUME tick.assigned[b] = tick.assigned[c] + 1 PROVE FALSE
  OBVIOUS
<1>0. TickTypes /\ SlotInv
  BY DEF DispatchInv
<1>1. /\ b \in Candidates(p) /\ b \in Slots
      /\ \A d \in Candidates(p) : \/ ExpectedFinish(b, p) <= ExpectedFinish(d, p)
                                  \/ 100 * ExpectedFinish(b, p) <= ExpectedFinish(d, p) * (100 + Tolerance)
  BY ChosenOne
<1>2. /\ c \in Slots /\ MaxInflight[b] = MaxInflight[c] /\ tick.inflight[b] = tick.inflight[c]
      /\ EffectiveSpp(Slots, b) = EffectiveSpp(Slots, c) /\ Serving[b] = Serving[c]
      /\ avoid[p] \cap {b, c} \in {{}, {b, c}}
  BY DEF LookEqual
<1> DEFINE m == MaxInflight[c]
           r == tick.inflight[c]
           a == tick.assigned[c]
           K == PageCost(c, p)
<1>3. b \in Backends /\ c \in Backends
  BY <1>0, <1>1, <1>2 DEF Slots, TickTypes, Ticks
<1>4. /\ m \in Nat /\ r \in Nat /\ a \in Nat
      /\ {tick.free[b], tick.free[c]} \subseteq Nat
      /\ tick.free[c] + a = Above(m, r) /\ tick.free[b] + (a + 1) = Above(m, r)
  BY <1>0, <1>2, <1>3, DispatchConstants DEF TickTypes, Counted, SlotInv
<1>5. tick.free[b] > 0 /\ tick.free[c] > 0 /\ r + a + 1 <= m - 1 /\ m - 1 \in Nat
  <2>1. Above(m, r) = IF m > r THEN m - r ELSE 0
    BY <1>4, AboveIsNat
  <2>2. tick.free[b] > 0
    BY <1>1 DEF Candidates
  <2> HIDE DEF m, r, a
  <2> QED
    BY <1>4, <2>1, <2>2
<1>6. c \in Candidates(p)
  BY <1>1, <1>2, <1>5 DEF Candidates, CanServe
<1>7. /\ ExpectedFinish(c, p) = (r + a + 1) * K /\ K \in Nat \ {0}
      /\ ExpectedFinish(b, p) = (r + (a + 1) + 1) * K
  <2>1. PageCost(b, p) = K
    BY <1>2 DEF PageCost
  <2>2. ExpectedFinish(b, p) = (tick.inflight[b] + tick.assigned[b] + 1) * PageCost(b, p)
    BY <1>1, FinishTimes
  <2>3. ExpectedFinish(c, p) = (r + a + 1) * K /\ K \in Nat \ {0}
    BY <1>2, FinishTimes
  <2>4. ExpectedFinish(b, p) = (r + (a + 1) + 1) * K
    BY <1>2, <2>1, <2>2
  <2> QED
    BY <2>3, <2>4
<1>8. Tolerance * (m - 1) < 100 /\ Tolerance \in Nat
  BY <1>3, DispatchConstants DEF SmallTies
<1> HIDE DEF m, r, a, K
<1> DEFINE n == r + a + 1
<1>9. n \in Nat /\ n <= m - 1 /\ ExpectedFinish(c, p) = n * K /\ ExpectedFinish(b, p) = (n + 1) * K
  <2>1. n \in Nat /\ r + (a + 1) + 1 = n + 1
    BY <1>4
  <2> QED
    BY <1>5, <1>7, <2>1
<1> HIDE DEF n
<1>10. ~((n + 1) * K <= n * K) /\ ~(100 * ((n + 1) * K) <= (n * K) * (100 + Tolerance))
  BY <1>5, <1>7, <1>8, <1>9, OneMorePage
<1> QED
  BY <1>1, <1>6, <1>9, <1>10

LEMMA WindowHasFirst ==
    ASSUME TickTypes, tick.window # {}
    PROVE  NextJob \in tick.window /\ NextJob \in Pages
<1>1. tick.window \subseteq Pages
  BY DEF TickTypes, Ticks
<1>2. tick.window \in SUBSET Nat
  BY <1>1, DispatchConstants
<1>3. \E p \in tick.window : \A q \in tick.window : p <= q
  BY <1>2, LeastOne
<1> QED
  BY <1>1, <1>3 DEF NextJob

LEMMA PlaceOfJob ==
    ASSUME DispatchInv, PlaceJob
    PROVE  DispatchInv'
<1> USE DispatchConstants
<1>0. /\ DispatchTypeOK /\ TickTypes /\ RoomInv /\ PlanInv /\ SlotInv
      /\ tick \in Ticks /\ IsFiniteSet(tick.tiers)
  BY DEF DispatchInv, TickTypes
<1>1. /\ tick.at = "allocate" /\ tick.window # {} /\ Candidates(NextJob) # {}
      /\ UNCHANGED <<where, avoid, requeues, spp, samples, penalty, outages>>
  BY DEF PlaceJob
<1>2. PICK p : p = NextJob /\ p \in tick.window /\ p \in Pages
  BY <1>0, <1>1, WindowHasFirst
<1>3. PICK b : b = Chosen(p, [c \in Candidates(p) |-> ExpectedFinish(c, p)])
  OBVIOUS
<1>4. tick' = [tick EXCEPT !.window = @ \ {p}, !.plan = @ \cup {<<p, b>>},
                 !.free[b] = @ - 1, !.assigned[b] = @ + 1,
                 !.batches = IF BatchOf[p] = NoBatch THEN @ ELSE @ \cup {<<b, BatchOf[p]>>},
                 !.start = (Order(b) + 1) % Cardinality(Slots)]
  BY <1>2, <1>3 DEF PlaceJob
<1>5. b \in Candidates(p) /\ b \in Slots
  BY <1>0, <1>1, <1>2, <1>3, ChosenOne
<1>6. /\ b \in Backends /\ Slots \subseteq Backends /\ tick.free[b] > 0
      /\ (Order(b) + 1) % Cardinality(Slots) \in Int
  BY <1>0, <1>5, SlotsAreBackends DEF Candidates
<1>7. {tick.free, tick.inflight, tick.assigned} \subseteq Counted
  BY <1>0, <1>1 DEF TickTypes
<1> DEFINE window == tick.window \ {p}
           plan == tick.plan \cup {<<p, b>>}
           free == [tick.free EXCEPT ![b] = @ - 1]
           assigned == [tick.assigned EXCEPT ![b] = @ + 1]
           batches == IF BatchOf[p] = NoBatch THEN tick.batches ELSE tick.batches \cup {<<b, BatchOf[p]>>}
           start == (Order(b) + 1) % Cardinality(Slots)
<1>8. /\ free \in Counted /\ assigned \in Counted
      /\ free[b] = tick.free[b] - 1 /\ assigned[b] = tick.assigned[b] + 1
      /\ \A c \in Backends \ {b} : free[c] = tick.free[c] /\ assigned[c] = tick.assigned[c]
  <2>1. tick.free[b] - 1 \in Nat /\ tick.assigned[b] + 1 \in Nat
    BY <1>6, <1>7 DEF Counted
  <2> QED
    BY <1>6, <1>7, <2>1 DEF Counted
<1>9. /\ window \in SUBSET Pages /\ window \subseteq tick.window /\ start \in Int
      /\ plan \in SUBSET (Pages \X Backends)
      /\ batches \in SUBSET (Backends \X {BatchOf[q] : q \in Pages})
  <2>1. /\ tick.window \in SUBSET Pages /\ tick.plan \in SUBSET (Pages \X Backends)
        /\ tick.batches \in SUBSET (Backends \X {BatchOf[q] : q \in Pages})
    BY <1>0 DEF Ticks
  <2>2. window \in SUBSET Pages /\ window \subseteq tick.window /\ start \in Int
    BY <1>6, <2>1
  <2>3. plan \in SUBSET (Pages \X Backends)
    BY <1>2, <1>6, <2>1
  <2>4. batches \in SUBSET (Backends \X {BatchOf[q] : q \in Pages})
    BY <1>2, <1>6, <2>1
  <2> QED
    BY <2>2, <2>3, <2>4
<1>10. /\ \A c \in Backends : <<p, c>> \in plan => c = b \/ <<p, c>> \in tick.plan
       /\ \A q \in Pages, c \in Backends : <<q, c>> \in plan <=> (q = p /\ c = b) \/ <<q, c>> \in tick.plan
  OBVIOUS
<1>11. tick' = [tick EXCEPT !.window = window, !.plan = plan, !.free = free, !.assigned = assigned,
                            !.batches = batches, !.start = start]
  BY <1>0, <1>4 DEF Ticks
<1> HIDE DEF window, plan, free, assigned, batches, start
<1>12. /\ tick' \in Ticks /\ tick'.at = "allocate" /\ tick'.tiers = tick.tiers
       /\ tick'.up = tick.up /\ tick'.free = free /\ tick'.inflight = tick.inflight
       /\ tick'.assigned = assigned /\ tick'.plan = plan /\ tick'.window = window
  BY <1>0, <1>1, <1>8, <1>9, <1>11 DEF Ticks
<1>13. Tier' = Tier /\ Slots' = Slots
  BY <1>12 DEF Tier, Slots
<1>14. DispatchTypeOK'
  BY <1>0, <1>1, <1>12 DEF DispatchTypeOK
<1>15. TickTypes'
  BY <1>0, <1>7, <1>8, <1>12 DEF TickTypes
<1>16. RoomInv'
  <2> SUFFICES ASSUME NEW c \in Backends PROVE Cardinality(Taken(c)') + free[c] <= MaxInflight[c]
    BY <1>12 DEF RoomInv
  <2>1. Cardinality(Taken(c)) + tick.free[c] <= MaxInflight[c]
    BY <1>0, <1>1 DEF RoomInv
  <2>2. Taken(c) \in SUBSET Pages /\ IsFiniteSet(Taken(c)) /\ Cardinality(Taken(c)) \in Nat
    BY PagesAreFinite DEF Taken
  <2>3. CASE c = b
    <3>1. Taken(c)' = Taken(c) \cup {p}
      BY <1>1, <1>2, <1>10, <1>12, <2>3 DEF Taken
    <3>2. Cardinality(Taken(c)') <= Cardinality(Taken(c)) + 1 /\ Cardinality(Taken(c)') \in Nat
      <4>1. CASE p \in Taken(c)
        <5>1. Taken(c)' = Taken(c)
          BY <3>1, <4>1
        <5> QED
          BY <2>2, <5>1
      <4>2. CASE p \notin Taken(c)
        <5>1. Cardinality(Taken(c) \cup {p}) = Cardinality(Taken(c)) + 1
          BY <2>2, <4>2, FS_AddElement
        <5> QED
          BY <2>2, <3>1, <5>1
      <4> QED
        BY <4>1, <4>2
    <3>3. tick.free[c] \in Nat /\ free[c] = tick.free[c] - 1 /\ MaxInflight[c] \in Nat
      BY <1>7, <1>8, <2>3 DEF Counted
    <3> QED
      BY <2>1, <2>2, <3>2, <3>3
  <2>4. CASE c # b
    <3>1. Taken(c)' = Taken(c)
      BY <1>1, <1>10, <1>12, <2>4 DEF Taken
    <3> QED
      BY <1>8, <2>1, <2>4, <3>1
  <2> QED
    BY <2>3, <2>4
<1>17. PlanInv'
  <2>1. where[p] \in Waiting
    BY <1>0, <1>2 DEF PlanInv
  <2>2. \A q \in Pages, c \in Backends : <<q, c>> \in plan => where[q] \in Waiting
    BY <1>0, <1>10, <2>1 DEF PlanInv
  <2>3. \A q \in window : where[q] \in Waiting
    BY <1>0, <1>9 DEF PlanInv
  <2>4. RetriedElsewhere'
    <3> SUFFICES ASSUME NEW q \in Pages, NEW d \in tick.up, <<q, d>> \in plan, d \in avoid[q],
                        NEW c \in tick.up, TierOf[c] = TierOf[d], CanServe(c, q)
                 PROVE  c \in avoid[q]
      BY <1>1, <1>12 DEF RetriedElsewhere, CanServe
    <3>1. d \in Backends
      BY <1>0 DEF Ticks
    <3>2. CASE <<q, d>> \in tick.plan
      BY <1>0, <3>2 DEF PlanInv, RetriedElsewhere
    <3>3. CASE q = p /\ d = b
      <4>1. AllowAvoided(p)
        BY <1>5, <3>3 DEF Candidates
      <4>2. c \in Slots
        BY <1>5, <3>3 DEF Slots
      <4> QED
        BY <3>3, <4>1, <4>2 DEF AllowAvoided
    <3> QED
      BY <1>10, <3>1, <3>2, <3>3
  <2> QED
    BY <1>1, <1>12, <2>2, <2>3, <2>4 DEF PlanInv
<1>18. SmallTies => EvenShare'
  <2> SUFFICES ASSUME SmallTies PROVE EvenShare'
    OBVIOUS
  <2>1. \A c : EffectiveSpp(Slots, c)' = EffectiveSpp(Slots, c)
    BY <1>1, <1>13 DEF EffectiveSpp, Warm, TwiceMedian, Ranked, Faster
  <2>2. \A c, d : LookEqual(c, d)' <=> LookEqual(c, d)
    BY <1>1, <1>12, <1>13, <2>1 DEF LookEqual
  <2>3. ASSUME NEW c \in Slots, NEW d \in Slots, LookEqual(c, d)
        PROVE  assigned[c] - assigned[d] \in -1..1
    <3>1. tick.assigned[c] - tick.assigned[d] \in -1..1
      BY <1>0, <1>1, <2>3 DEF SlotInv, EvenShare
    <3>2. tick.assigned[c] \in Nat /\ tick.assigned[d] \in Nat /\ c \in Backends /\ d \in Backends
      BY <1>6, <1>7 DEF Counted
    <3>3. LookEqual(d, c)
      BY <2>3 DEF LookEqual
    <3>4. CASE c = b /\ d # b
      <4>1. tick.assigned[c] # tick.assigned[d] + 1
        BY <1>1, <1>2, <1>3, <2>3, <3>4, TakenInTurn
      <4>2. assigned[c] = tick.assigned[c] + 1 /\ assigned[d] = tick.assigned[d]
        BY <1>8, <3>2, <3>4
      <4> QED
        BY <3>1, <3>2, <4>1, <4>2
    <3>5. CASE c # b /\ d = b
      <4>1. tick.assigned[d] # tick.assigned[c] + 1
        BY <1>1, <1>2, <1>3, <3>3, <3>5, TakenInTurn
      <4>2. assigned[d] = tick.assigned[d] + 1 /\ assigned[c] = tick.assigned[c]
        BY <1>8, <3>2, <3>5
      <4> QED
        BY <3>1, <3>2, <4>1, <4>2
    <3>6. CASE c = b /\ d = b
      <4>1. assigned[c] \in Nat /\ assigned[d] = assigned[c]
        BY <1>8, <3>2, <3>6 DEF Counted
      <4> QED
        BY <4>1
    <3>7. CASE c # b /\ d # b
      BY <1>8, <3>1, <3>2, <3>7
    <3> QED
      BY <3>4, <3>5, <3>6, <3>7
  <2> QED
    BY <1>12, <1>13, <2>2, <2>3 DEF EvenShare
<1>19. SlotInv'
  <2>1. \A c \in Backends : free[c] + assigned[c] = Above(MaxInflight[c], tick.inflight[c])
    <3> SUFFICES ASSUME NEW c \in Backends PROVE free[c] + assigned[c] = tick.free[c] + tick.assigned[c]
      BY <1>0, <1>1 DEF SlotInv
    <3>1. tick.free[c] \in Nat /\ tick.assigned[c] \in Nat
      BY <1>7 DEF Counted
    <3> QED
      BY <1>8, <3>1
  <2>2. \A c \in tick.up : TierOf[c] \in tick.tiers /\ TierOf[c] # Tier => assigned[c] = 0
    <3> SUFFICES ASSUME NEW c \in tick.up, TierOf[c] \in tick.tiers, TierOf[c] # Tier PROVE assigned[c] = 0
      OBVIOUS
    <3>1. c # b /\ c \in Backends
      BY <1>0, <1>5 DEF Slots, Ticks
    <3>2. tick.assigned[c] = 0
      BY <1>0, <1>1 DEF SlotInv
    <3> QED
      BY <1>8, <3>1, <3>2
  <2>3. tick'.tiers # {}
    BY <1>0, <1>1, <1>12 DEF SlotInv
  <2> QED
    BY <1>12, <1>13, <1>18, <2>1, <2>2, <2>3 DEF SlotInv
<1> QED
  BY <1>14, <1>15, <1>16, <1>17, <1>19 DEF DispatchInv

\* A step of the workers keeps what the allocation rests on.
LEMMA DispatchSteps ==
    DispatchInv /\ [DispatchNext]_dispatchVars => DispatchInv'
<1>1. CASE UNCHANGED dispatchVars
  <2> SUFFICES ASSUME DispatchInv PROVE DispatchInv'
    OBVIOUS
  <2>1. DispatchTypeOK'
    BY <1>1 DEF dispatchVars, DispatchInv, DispatchTypeOK
  <2> QED
    BY <1>1, <2>1, PagesMove DEF dispatchVars
<1>2. CASE \E up \in SUBSET Backends : TickStart(up)
  BY <1>2, StartOfTick
<1>3. CASE TickEnds \/ TierFull \/ TierScores \/ LeaveOut \/ AllocateReturns
  BY <1>3, OtherSteps
<1>4. CASE TierPeek
  BY <1>4, PeekOfTier
<1>5. CASE PlaceJob
  BY <1>5, PlaceOfJob
<1>6. CASE TierDispatch
  BY <1>6, DispatchOfTier
<1>7. CASE \E p \in Pages :
              PageDone(p) \/ PageRetried(p) \/ PageFailed(p) \/ ReapQueued(p) \/ StateExpires(p)
  BY <1>7, PageSteps
<1> QED
  BY <1>1, <1>2, <1>3, <1>4, <1>5, <1>6, <1>7 DEF DispatchNext

LEMMA DispatchSound ==
    ASSUME DispatchInv
    PROVE  NotOverfilled /\ RetriedElsewhere /\ (SmallTies => AllocationSound)
<1>0. DispatchTypeOK /\ TickTypes /\ RoomInv /\ RetriedElsewhere /\ (SmallTies => EvenShare)
  BY DEF DispatchInv, PlanInv, SlotInv
<1>1. NotOverfilled
  <2> SUFFICES ASSUME NEW b \in Backends PROVE Cardinality(RunningOn(b)) <= MaxInflight[b]
    BY DEF NotOverfilled
  <2>1. RunningOn(b) \subseteq Taken(b) /\ Taken(b) \in SUBSET Pages
    BY DEF RunningOn, Taken
  <2>2. /\ Cardinality(RunningOn(b)) \in Nat /\ Cardinality(Taken(b)) \in Nat
        /\ Cardinality(RunningOn(b)) <= Cardinality(Taken(b))
    BY <2>1, PagesAreFinite
  <2>3. MaxInflight[b] \in Nat /\ (tick.at # "idle" => tick.free[b] \in Nat)
    BY <1>0, DispatchConstants DEF TickTypes, Counted
  <2>4. Cardinality(Taken(b)) <= MaxInflight[b]
    BY <1>0, <2>2, <2>3 DEF RoomInv
  <2> QED
    BY <2>2, <2>3, <2>4
<1> QED
  BY <1>0, <1>1 DEF AllocationSound

\* Whatever the speeds measured, the failures, the affinity of batches and the pages that
\* end while a tick goes on: no backend runs more pages than its max_inflight (D9), and a
\* job goes back to a backend that failed it only when all that serve it in that tier have
\* (D8 of allocate_scored, app/workers/submit/steps.py).
THEOREM SlotsAreKept == DispatchSpec => [](NotOverfilled /\ RetriedElsewhere)
<1>1. DispatchInit => DispatchInv
  BY DispatchStarts
<1>2. DispatchInv /\ [DispatchNext]_dispatchVars => DispatchInv'
  BY DispatchSteps
<1>3. DispatchInv => NotOverfilled /\ RetriedElsewhere
  BY DispatchSound
<1> QED
  BY <1>1, <1>2, <1>3, PTL DEF DispatchSpec

\* Besides, as long as the tolerance is small, backends that look the same share a burst
\* evenly at every step of an allocation, batches or not (docstring of allocate_scored).
THEOREM AllocationIsSound ==
    ASSUME SmallTies
    PROVE  DispatchSpec => []AllocationSound
<1>1. DispatchInit => DispatchInv
  BY DispatchStarts
<1>2. DispatchInv /\ [DispatchNext]_dispatchVars => DispatchInv'
  BY DispatchSteps
<1>3. DispatchInv => AllocationSound
  BY DispatchSound
<1> QED
  BY <1>1, <1>2, <1>3, PTL DEF DispatchSpec
=============================================================================
