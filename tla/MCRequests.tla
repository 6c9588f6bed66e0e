------------------------------ MODULE MCRequests ------------------------------
(***************************************************************************)
(* The way of a request: the legacy shim with the rate limiter, the caches *)
(* of the API, and two small instances of JobPipeline, a rollout (one job, *)
(* two submit workers, faults and retries) and a full gateway (three jobs  *)
(* that share the slots and the storage budget, one submit worker, no      *)
(* fault).  Their product would show nothing more, so a behaviour follows  *)
(* one of them.                                                            *)
(***************************************************************************)
EXTENDS MCJobPipeline, Compat, ApiCache

CONSTANTS c1, c2, f1, g1, g2, r1, r2

VARIABLE focus

requestVars == <<focus, vars, compatVars, cacheVars>>

InRollout == focus = "rollout" /\ UNCHANGED <<focus, compatVars, cacheVars>>
InFull == focus = "full" /\ UNCHANGED <<focus, compatVars, cacheVars>>
InCompat == focus = "compat" /\ UNCHANGED <<focus, vars, cacheVars>>
InCache == focus = "cache" /\ UNCHANGED <<focus, vars, compatVars>>

\* One job; or all jobs, each at its first attempt.
Alone(j) == \A i \in Jobs : i # j => api[i] = "new"
Plain ==
    /\ faults' = faults
    /\ \A t \in Tasks, j \in Jobs : pc'[t][j] \notin {"retrying", "rq_read"}

MCInit == focus \in {"rollout", "full", "compat", "cache"} /\ Init /\ CompatInit /\ CacheInit

MCNext ==
    \/ \E j \in Jobs : (InRollout /\ Alone(j) /\ ApiStep(j)) \/ (InFull /\ ApiStep(j) /\ Plain)
    \/ \E w \in Submitters, j \in Jobs : InRollout /\ SubmitStep(w, j)
    \/ \E j \in Jobs : InFull /\ SubmitStep(w1, j) /\ Plain
    \/ \E p \in Pollers, j \in Jobs : (InRollout /\ PollStep(p, j)) \/ (InFull /\ PollStep(p, j) /\ Plain)
    \/ \E h \in Harvesters, j \in Jobs : (InRollout /\ HarvestStep(h, j)) \/ (InFull /\ HarvestStep(h, j) /\ Plain)
    \/ \E t \in Tasks, j \in Jobs :
          (InRollout /\ SharedStep(t, j)) \/ (InFull /\ SharedStep(t, j) /\ Plain) \/ (InRollout /\ Abort(t, j))
    \/ InCompat /\ CompatTick
    \/ InCompat /\ OpenRequest
    \/ InCompat /\ ShimDies
    \/ InCompat /\ \E k \in Rivals : Competes(k)
    \/ \E c \in Calls :
          \/ InCompat /\ UploadPosted(c)
          \/ InCompat /\ UploadRecord(c)
          \/ InCompat /\ AskAnswered(c)
          \/ InCompat /\ Fetched(c)
          \/ InCompat /\ SleepOut(c)
          \/ InCompat /\ GiveUp(c)
          \/ InCompat /\ \E f \in Files : UploadStart(c, f)
          \/ InCompat /\ \E f \in Files, op \in {"status", "download"} : AskStart(c, op, f)
    \/ InCache /\ EditUser
    \/ InCache /\ EditLimit
    \/ InCache /\ CacheTick
    \/ \E r \in Requests :
          \/ InCache /\ ShimHit(r)
          \/ InCache /\ \E shim \in BOOLEAN : UserHit(r, shim)
          \/ InCache /\ \E shim \in BOOLEAN : UserMiss(r, shim)
          \/ InCache /\ UserRow(r)
          \/ InCache /\ UserStore(r)
          \/ InCache /\ LimitHit(r)
          \/ InCache /\ LimitRead(r)
          \/ InCache /\ LimitStore(r)
          \/ InCache /\ Answered(r)
          \/ InCache /\ ShimTakesError(r)
          \/ InCache /\ ShimGoesOn(r)

MCSpec == MCInit /\ [][MCNext]_requestVars

-----------------------------------------------------------------------------
\* One image and two calls of the legacy client at a time, a request every three
\* ticks (a second and a half) of each limit class, and a request of the shim that
\* lives shorter; two requests in the API.

TwoCalls == {c1, c2}
OneFile == {f1}
TwoGatewayJobs == {g1, g2}
Classes == {"submit", "query"}
Queries == {"query"}
NoBurst == [t |-> 3, burst |-> 0]

TwoRequests == {r1, r2}
=============================================================================
