------------------------------- MODULE Compat -------------------------------
(***************************************************************************)
(* The legacy shim (compat/app): a PERO client opens a request, uploads    *)
(* its images, polls their states and downloads the results; the shim      *)
(* keeps the request and the job id of each image in Redis, each under its *)
(* own TTL, and calls the gateway's API, whose rate limit it absorbs by    *)
(* sleeping (compat/app/retry.py).  The limiter is the one of RateLimit,   *)
(* with one key per limit class of the client's user.                      *)
(*                                                                         *)
(* A call of the API takes no time; the sleeps do.  The cache of keys is   *)
(* in ApiCache; the ids of legacy engines are taken as resolved.           *)
(***************************************************************************)
EXTENDS RateLimit, FiniteSets

CONSTANTS
    Files, GatewayJobs,
    Rivals,       \* limit classes that other programs of the user spend as well
    Calls,        \* calls of the legacy client under way
    CompatTTL,    \* compat_ttl_seconds in ticks
    Budget,       \* RETRY_BUDGET_SECONDS in ticks
    MaxSleep,     \* MAX_SLEEP_PER_ATTEMPT in ticks
    Jitter,       \* JITTER_MAX_SECONDS in ticks
    MaxDeaths,    \* restarts of the shim
    NoFile, NoJob

ASSUME CompatAssumption ==
    /\ {CompatTTL, Budget, MaxSleep, Jitter, MaxDeaths} \subseteq Nat
    /\ Users = {"submit", "query"} /\ Rivals \subseteq Users
    /\ NoFile \notin Files /\ NoJob \notin GatewayJobs

VARIABLES
    known,     \* what is left of the TTL of compat:{request_id}; 0 is gone
    idOf,      \* compat:{request_id}:{filename}: the job id, or NoJob
    idTtl,
    job,       \* the jobs that the gateway has made; how they end is JobPipeline's matter
    acked,     \* images whose upload has been answered with ok
    legacy,    \* per call: [op, file, at, job, sleep, left, since, alone]
    deaths

shimVars == <<known, idOf, idTtl, job, acked, legacy, deaths>>
compatVars == <<shimVars, rlVars>>

NoLegacy == [op |-> "none", file |-> NoFile, at |-> "idle", job |-> NoJob,
             sleep |-> 0, left |-> 0, since |-> 0, alone |-> FALSE]
ClassOf(op) == IF op = "upload" THEN "submit" ELSE "query"

CompatInit ==
    /\ RLInit
    /\ known = 0 /\ idOf = [f \in Files |-> NoJob] /\ idTtl = [f \in Files |-> 0]
    /\ job = {} /\ acked = {} /\ deaths = 0
    /\ legacy = [c \in Calls |-> NoLegacy]

Set(c, l) == legacy' = [legacy EXCEPT ![c] = l]

-----------------------------------------------------------------------------
\* The clock

\* Whatever is not asleep is done before the clock moves on.
CompatTick ==
    /\ \A c \in Calls : legacy[c].at = "idle" \/ legacy[c].sleep > 0
    /\ known' = IF known > 0 THEN known - 1 ELSE 0
    /\ idTtl' = [f \in Files |-> IF idTtl[f] > 0 THEN idTtl[f] - 1 ELSE 0]
    /\ idOf' = [f \in Files |-> IF idTtl[f] > 1 THEN idOf[f] ELSE NoJob]
    /\ legacy' = [c \in Calls |-> IF legacy[c].at = "idle" THEN legacy[c]
                                  ELSE [legacy[c] EXCEPT !.sleep = @ - 1, !.left = @ - 1, !.since = @ + 1]]
    /\ RLTick /\ UNCHANGED <<job, acked, deaths>>

\* The user's key is in use elsewhere too: who sleeps is not alone with the limiter.
Competes(k) ==
    /\ Admit(k, Limit)
    /\ legacy' = [d \in Calls |-> IF ClassOf(legacy[d].op) = k
                                  THEN [legacy[d] EXCEPT !.alone = FALSE] ELSE legacy[d]]
    /\ UNCHANGED <<known, idOf, idTtl, job, acked, deaths>>

-----------------------------------------------------------------------------
\* The shim

\* post_processing_request
OpenRequest ==
    /\ known = 0 /\ acked = {} /\ known' = CompatTTL
    /\ UNCHANGED <<idOf, idTtl, job, acked, legacy, deaths, rlVars>>

\* request_with_retry: the deadline is set once per call of the API.
Asking(op, f, j, at) == [NoLegacy EXCEPT !.op = op, !.file = f, !.job = j, !.at = at, !.left = Budget]

\* upload_image: the request must be known; its TTL is not renewed.
\* (The jobs that are left bound the uploads.)
UploadStart(c, f) ==
    /\ legacy[c] = NoLegacy /\ known > 0
    /\ Cardinality({d \in Calls : legacy[d].at = "post"}) < Cardinality(GatewayJobs \ job)
    /\ Set(c, Asking("upload", f, NoJob, "post"))
    /\ UNCHANGED <<known, idOf, idTtl, job, acked, deaths, rlVars>>

\* request_status and download_results, for one image: its job id, or WAITING and 404.
AskStart(c, op, f) ==
    /\ legacy[c] = NoLegacy /\ op \in {"status", "download"}
    /\ op = "status" => known > 0
    /\ idOf[f] # NoJob
    /\ Set(c, Asking(op, f, idOf[f], "get"))
    /\ UNCHANGED <<known, idOf, idTtl, job, acked, deaths, rlVars>>

Awake(c) == legacy[c].at # "idle" /\ legacy[c].sleep = 0
\* Somebody else's request moves the limiter: who sleeps is no longer alone with it.
Disturbed(c) ==
    [d \in Calls |-> IF d # c /\ ClassOf(legacy[d].op) = ClassOf(legacy[c].op)
                     THEN [legacy[d] EXCEPT !.alone = FALSE] ELSE legacy[d]]

\* The upload is let through: the gateway has the job before the shim knows of it.
UploadPosted(c) ==
    /\ Awake(c) /\ legacy[c].at = "post" /\ Admit("submit", Limit)
    /\ \E j \in GatewayJobs \ job :
          /\ job' = job \cup {j}
          /\ legacy' = [Disturbed(c) EXCEPT ![c].at = "record", ![c].job = j, ![c].alone = FALSE]
    /\ UNCHANGED <<known, idOf, idTtl, acked, deaths>>

\* set_job_id, and the client is told.
UploadRecordFor(c, life) ==
    /\ legacy[c].at = "record"
    /\ idOf' = [idOf EXCEPT ![legacy[c].file] = legacy[c].job]
    /\ idTtl' = [idTtl EXCEPT ![legacy[c].file] = life]
    /\ acked' = acked \cup {legacy[c].file} /\ Set(c, NoLegacy)
    /\ UNCHANGED <<known, job, deaths, rlVars>>
UploadRecord(c) == UploadRecordFor(c, CompatTTL)

\* GET of the job: PROCESSED, PROCESSING (an error and a deleted job too), or for a
\* download the next call with a deadline of its own.
AskAnswered(c) ==
    /\ Awake(c) /\ legacy[c].at = "get" /\ Admit("query", Limit)
    /\ \E done \in BOOLEAN :
          legacy' = [Disturbed(c) EXCEPT ![c] =
                    IF legacy[c].op = "download" /\ done
                    THEN [Asking("download", legacy[c].file, legacy[c].job, "fetch")
                              EXCEPT !.since = legacy[c].since] ELSE NoLegacy]
    /\ UNCHANGED <<known, idOf, idTtl, job, acked, deaths>>

\* The artifact, or 404 when the job has been deleted in between.
Fetched(c) ==
    /\ Awake(c) /\ legacy[c].at = "fetch" /\ Admit("query", Limit)
    /\ legacy' = [Disturbed(c) EXCEPT ![c] = NoLegacy]
    /\ UNCHANGED <<known, idOf, idTtl, job, acked, deaths>>

\* A 429 is slept out, for at most MaxSleep and some jitter, if the deadline allows ...
SleepFor(c) == Second * RetryAfter(ClassOf(legacy[c].op), Limit)
Capped(s) == IF s <= MaxSleep THEN s ELSE MaxSleep
SleepOutRenewed(c) ==
    /\ Awake(c) /\ legacy[c].at \in {"post", "get", "fetch"}
    /\ Refused(ClassOf(legacy[c].op), Limit)
    /\ \E jit \in 0..Jitter :
          /\ Capped(SleepFor(c)) + jit <= legacy[c].left
          /\ Set(c, [legacy[c] EXCEPT !.sleep = Capped(SleepFor(c)) + jit,
                                      !.left = Budget, !.alone = SleepFor(c) <= MaxSleep])
    /\ UNCHANGED <<known, idOf, idTtl, job, acked, deaths>>
SleepOut(c) ==
    /\ Awake(c) /\ legacy[c].at \in {"post", "get", "fetch"}
    /\ Refused(ClassOf(legacy[c].op), Limit)
    /\ \E jit \in 0..Jitter :
          /\ Capped(SleepFor(c)) + jit <= legacy[c].left
          /\ Set(c, [legacy[c] EXCEPT !.sleep = Capped(SleepFor(c)) + jit,
                                      !.alone = SleepFor(c) <= MaxSleep])
    /\ UNCHANGED <<known, idOf, idTtl, job, acked, deaths>>

\* ... or answered with 503.
GiveUp(c) ==
    /\ Awake(c) /\ legacy[c].at \in {"post", "get", "fetch"}
    /\ Refused(ClassOf(legacy[c].op), Limit)
    /\ \E jit \in 0..Jitter : Capped(SleepFor(c)) + jit > legacy[c].left
    /\ Set(c, NoLegacy)
    /\ UNCHANGED <<known, idOf, idTtl, job, acked, deaths>>

\* The shim restarts: its calls are gone, a job without a recorded id included.
ShimDies ==
    /\ deaths < MaxDeaths /\ deaths' = deaths + 1
    /\ legacy' = [c \in Calls |-> NoLegacy]
    /\ UNCHANGED <<known, idOf, idTtl, job, acked, rlVars>>

CompatNext ==
    \/ CompatTick \/ OpenRequest \/ ShimDies
    \/ \E k \in Rivals : Competes(k)
    \/ \E c \in Calls :
          \/ UploadPosted(c) \/ UploadRecord(c) \/ AskAnswered(c) \/ Fetched(c)
          \/ SleepOut(c) \/ GiveUp(c)
          \/ \E f \in Files : UploadStart(c, f) \/ \E op \in {"status", "download"} : AskStart(c, op, f)

CompatSpec == CompatInit /\ [][CompatNext]_compatVars

-----------------------------------------------------------------------------
\* The variables keep their types; nobody sleeps past the deadline of the call.
CompatTypeOK ==
    /\ RLTypeOK
    /\ known \in 0..CompatTTL /\ idTtl \in [Files -> 0..CompatTTL]
    /\ idOf \in [Files -> GatewayJobs \cup {NoJob}]
    /\ \A f \in Files : idOf[f] # NoJob <=> idTtl[f] > 0
    /\ job \subseteq GatewayJobs /\ acked \subseteq Files
    /\ \A c \in Calls : /\ legacy[c].at \in {"idle", "post", "record", "get", "fetch"}
                        /\ legacy[c].sleep \in 0..legacy[c].left /\ legacy[c].left \in 0..Budget

\* An image whose upload was acknowledged has its job id as long as the request is
\* known: no expiry and no second upload brings it back to WAITING.
UploadedStaysKnown == known > 0 => \A f \in acked : idOf[f] # NoJob

\* Retry-After is honest: a call that has slept it out in full is refused again only
\* if another request of the user came in between.
RetryAfterHonest ==
    \A c \in Calls : Awake(c) /\ legacy[c].alone => Allows(ClassOf(legacy[c].op), Limit)

\* A synchronous legacy client is not kept waiting: a call is over within one retry
\* budget for every request to the API, two for a download, however many others
\* compete for the limit.
AnsweredInTime ==
    \A c \in Calls : legacy[c].since <= IF legacy[c].at = "fetch" THEN 2 * Budget ELSE Budget

\* The legacy client notices neither the rate limit nor the expiry of the shim's keys.
CompatSound == CompatTypeOK /\ UploadedStaysKnown /\ RetryAfterHonest /\ AnsweredInTime
=============================================================================
