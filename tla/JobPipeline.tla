---------------------------- MODULE JobPipeline ----------------------------
(***************************************************************************)
(* The path of a job from its submission to its stored result: the API     *)
(* (app/routers/jobs.py), the submit workers (app/workers/submit), the     *)
(* pollers with their harvest loop (app/workers/poller), the Redis state   *)
(* functions they share (app/services/redis_jobs.py) and the job's row.    *)
(*                                                                         *)
(* Every asyncio task that works on a job is a sequential process: pc says *)
(* which await it stands at, loc holds what it has read.  One action is    *)
(* one Redis round trip, one Lua script or one database transaction, so    *)
(* the interleavings are those of the running workers.  Adjacent commands  *)
(* of one task that touch fields no other task relates are one action.     *)
(*                                                                         *)
(* The cleanup worker is not here: JobLifecycle adds it.                   *)
(***************************************************************************)
EXTENDS Integers, FiniteSets

CONSTANTS
    Jobs,          \* job ids
    Backends,      \* registered engine backends
    NoBackend,     \* the job hash holds no backend_id
    Submitters,    \* submit workers (two run during a rollout)
    Pollers,       \* status-check loops, one per poller process
    Harvesters,    \* harvest loops, one per poller process
    Reapers,       \* reaper passes of the cleanup worker (used by JobLifecycle)
    MaxInflight,   \* backends.max_inflight, the same for every backend
    UnstoredMax,   \* settings.unstored_job_max
    MaxRequeues,   \* runtime config jobs.max_requeues
    MaxFaults,     \* bound on crashes and failed calls in one behaviour
    PromptMirror   \* TRUE: a dispatch has written its row before the first poll

Tasks == Submitters \cup Pollers \cup Harvesters \cup Reapers

ASSUME PipelineAssumption ==
    /\ IsFiniteSet(Jobs) /\ IsFiniteSet(Tasks)
    /\ NoBackend \notin Backends
    /\ Submitters \cap (Pollers \cup Harvesters \cup Reapers) = {}
    /\ Pollers \cap (Harvesters \cup Reapers) = {}
    /\ Harvesters \cap Reapers = {}
    /\ MaxInflight \in Nat \ {0} /\ UnstoredMax \in Nat \ {0}
    /\ MaxRequeues \in Nat /\ MaxFaults \in Nat
    /\ PromptMirror \in BOOLEAN

Active   == {"queued", "running", "storing"}
Terminal == {"done", "failed"}
Statuses == Active \cup Terminal

VARIABLES
    \* the job:<id> hash: whether it is there and whole, and its fields
    hash, status, backend, requeues, claimed,
    \* jobs:pending:<n>, jobs:delayed, jobs:inflight, jobs:pending_harvest
    pending, delayed, inflight, harvest,
    \* backend:<id>:inflight, load:queued, load:inflight, and how often the
    \* batch hash has counted the page
    slots, loadQueued, loadInflight, pages,
    \* jobs.status in Postgres, and the done events published
    row, reports,
    \* the API request of each job, the tasks, and the faults so far
    api, pc, loc, faults,
    \* the load counter rebuild of the cleanup worker: its next step and what it
    \* has read (used by JobLifecycle)
    scan

hashVars    == <<hash, status, backend, requeues, claimed>>
queueVars   == <<pending, delayed, inflight, harvest>>
counterVars == <<slots, loadQueued, loadInflight, pages>>
redisVars   == <<hashVars, queueVars, counterVars>>
vars == <<hash, status, backend, requeues, claimed,
          pending, delayed, inflight, harvest,
          slots, loadQueued, loadInflight, pages,
          row, reports, api, pc, loc, faults, scan>>

PCs == {"idle", "promoting", "peeked", "claimed", "retrying", "accepted", "hset",
        "sadd", "record", "listed", "checking", "storing_row",
        "rq_read", "rq_srem", "rq_count", "rq_reset", "rq_delay", "rq_bump",
        "rq_row", "harvesting", "mf_check",
        "sf_read", "sf_page", "sf_write", "sf_srem", "sf_count", "sf_row",
        "sd_read", "sd_page", "sd_write", "sd_count", "sd_end",
        "reported", "orphan", "reaping"}

\* What a task remembers between awaits: the backend and status it read (or the
\* backend it was given), the requeue count of its snapshot, the reply of its
\* SREM, and whether its harvest was the first to mark the row done.
Locals == [bk : Backends \cup {NoBackend}, st : Statuses \cup {"absent"},
           rq : Nat, rem : BOOLEAN, run : {"none", "first", "again"}]
NoLocals == [bk |-> NoBackend, st |-> "absent", rq |-> 0,
             rem |-> FALSE, run |-> "none"]

Scans == [step : {"off", "delayed", "inflight", "write"},
          pend : SUBSET Jobs, dly : SUBSET Jobs, infl : SUBSET Jobs]
NoScan == [step |-> "off", pend |-> {}, dly |-> {}, infl |-> {}]

TypeOK ==
    /\ hash \in [Jobs -> {"none", "partial", "whole"}]
    /\ status \in [Jobs -> Statuses \cup {"absent"}]
    /\ backend \in [Jobs -> Backends \cup {NoBackend}]
    /\ requeues \in [Jobs -> Nat]
    /\ claimed \in [Jobs -> BOOLEAN]
    /\ pending \in SUBSET Jobs /\ delayed \in SUBSET Jobs
    /\ inflight \in SUBSET Jobs /\ harvest \in SUBSET Jobs
    /\ slots \in [Backends -> Int]
    /\ loadQueued \in Int /\ loadInflight \in Int
    /\ pages \in [Jobs -> Nat]
    /\ row \in [Jobs -> Statuses \cup {"none"}]
    /\ reports \in [Jobs -> Nat]
    /\ api \in [Jobs -> {"new", "committed", "answered"}]
    /\ pc \in [Tasks -> [Jobs -> PCs]]
    /\ loc \in [Tasks -> [Jobs -> Locals]]
    /\ faults \in Nat
    /\ scan \in Scans

Init ==
    /\ hash = [j \in Jobs |-> "none"]
    /\ status = [j \in Jobs |-> "absent"]
    /\ backend = [j \in Jobs |-> NoBackend]
    /\ requeues = [j \in Jobs |-> 0]
    /\ claimed = [j \in Jobs |-> FALSE]
    /\ pending = {} /\ delayed = {} /\ inflight = {} /\ harvest = {}
    /\ slots = [b \in Backends |-> 0]
    /\ loadQueued = 0 /\ loadInflight = 0
    /\ pages = [j \in Jobs |-> 0]
    /\ row = [j \in Jobs |-> "none"]
    /\ reports = [j \in Jobs |-> 0]
    /\ api = [j \in Jobs |-> "new"]
    /\ pc = [t \in Tasks |-> [j \in Jobs |-> "idle"]]
    /\ loc = [t \in Tasks |-> [j \in Jobs |-> NoLocals]]
    /\ faults = 0
    /\ scan = NoScan

-----------------------------------------------------------------------------
\* Steps of a task.
At(t, j, p) == pc[t][j] = p
Goto(t, j, p) == pc' = [pc EXCEPT ![t][j] = p]
Keep(t, j, l) == loc' = [loc EXCEPT ![t][j] = l]
Finish(t, j) == Goto(t, j, "idle") /\ Keep(t, j, NoLocals)

\* A late HSET or HINCRBY recreates an expired hash without its submit fields.
Touch(j) == hash' = [hash EXCEPT ![j] = IF @ = "none" THEN "partial" ELSE @]

\* get_job: the status a reader sees; "absent" for no hash or a partial one.
Seen(j) == IF hash[j] = "whole" THEN status[j] ELSE "absent"
SeenBackend(j) == IF hash[j] = "whole" THEN backend[j] ELSE NoBackend

\* Every step of a worker is with or without a fault, and none is a rebuild.
Fault == faults < MaxFaults /\ faults' = faults + 1 /\ UNCHANGED scan
NoFault == UNCHANGED <<faults, scan>>

-----------------------------------------------------------------------------
\* The API: submit_job commits the row, then enqueues the job in Redis.

SubmitRow(j) ==
    /\ api[j] = "new"
    /\ api' = [api EXCEPT ![j] = "committed"]
    /\ row' = [row EXCEPT ![j] = "queued"]
    /\ NoFault
    /\ UNCHANGED <<redisVars, reports, pc, loc>>

Enqueue(j) ==
    /\ api[j] = "committed"
    /\ api' = [api EXCEPT ![j] = "answered"]
    /\ hash' = [hash EXCEPT ![j] = "whole"]
    /\ status' = [status EXCEPT ![j] = "queued"]
    /\ pending' = pending \cup {j}
    /\ loadQueued' = loadQueued + 1
    /\ NoFault
    /\ UNCHANGED <<backend, requeues, claimed, delayed, inflight, harvest,
                   slots, loadInflight, pages, row, reports, pc, loc>>

\* The request dies (or Redis is down) after its commit: the row is queued, and
\* Redis has never heard of the job.
ApiDies(j) ==
    /\ api[j] = "committed"
    /\ api' = [api EXCEPT ![j] = "answered"]
    /\ Fault
    /\ UNCHANGED <<redisVars, row, reports, pc, loc>>

-----------------------------------------------------------------------------
\* The submit worker: promote due retries, peek and allocate, claim, dispatch.

\* promote_due_retries: ZREM wins the job, a later round trip makes it pending.
\* The timer of a delayed retry is full jitter, so it may be due at any time.
PromoteTake(w, j) ==
    /\ At(w, j, "idle") /\ j \in delayed
    /\ delayed' = delayed \ {j}
    /\ Goto(w, j, "promoting") /\ NoFault
    /\ UNCHANGED <<hashVars, counterVars, pending, inflight, harvest,
                   row, reports, api, loc>>

PromoteAdd(w, j) ==
    /\ At(w, j, "promoting")
    /\ pending' = IF hash[j] = "whole" THEN pending \cup {j} ELSE pending
    /\ Finish(w, j) /\ NoFault
    /\ UNCHANGED <<hashVars, counterVars, delayed, inflight, harvest,
                   row, reports, api>>

\* Jobs worker w has allocated but that its reads of Redis do not count yet.
Holding(w, steps) == {j \in Jobs : pc[w][j] \in steps}
\* Mutant: jobs waiting for their harvest are not counted.
UnstoredWithoutHarvest(w) ==
    Cardinality(inflight)
        + Cardinality({j \in Jobs : pc[w][j] \in {"peeked", "claimed", "accepted", "hset"}})

Unstored(w) ==
    Cardinality(inflight) + Cardinality(harvest)
        + Cardinality(Holding(w, {"peeked", "claimed", "accepted", "hset"}))
Load(w, b) ==
    slots[b] + Cardinality({j \in Holding(w, {"peeked", "claimed", "accepted",
                                              "hset", "sadd"}) : loc[w][j].bk = b})

\* A tick allocates within the backends' free slots and the storage budget.
HasRoom(w, b) == Load(w, b) < MaxInflight /\ Unstored(w) < UnstoredMax

\* Peeking removes nothing; the job gets a backend with room.  Which one
\* (allocate_scored) is not this module's concern.
Peek(w, j) ==
    /\ At(w, j, "idle") /\ j \in pending /\ hash[j] = "whole"
    /\ \E b \in Backends :
         /\ HasRoom(w, b)
         /\ Keep(w, j, [NoLocals EXCEPT !.bk = b, !.rq = requeues[j]])
    /\ Goto(w, j, "peeked") /\ NoFault
    /\ UNCHANGED <<redisVars, row, reports, api>>

\* _queued_states drops a peeked job whose state is gone.
DropPending(w, j) ==
    /\ At(w, j, "idle") /\ j \in pending /\ hash[j] # "whole"
    /\ pending' = pending \ {j}
    /\ NoFault
    /\ UNCHANGED <<hashVars, counterVars, delayed, inflight, harvest,
                   row, reports, api, pc, loc>>

\* Mutant: the reply of the ZREM is not looked at.
ClaimUnchecked(w, j) ==
    /\ At(w, j, "peeked")
    /\ pending' = pending \ {j}
    /\ claimed' = [claimed EXCEPT ![j] = TRUE]
    /\ Goto(w, j, "claimed") /\ NoFault
    /\ UNCHANGED <<hash, status, backend, requeues, counterVars, delayed,
                   inflight, harvest, row, reports, api, loc>>

\* _CLAIM_LUA: ZREM decides which worker dispatches the job.
Claim(w, j) ==
    /\ At(w, j, "peeked")
    /\ pending' = pending \ {j}
    /\ \/ /\ j \in pending /\ hash[j] # "none"
          /\ claimed' = [claimed EXCEPT ![j] = TRUE]
          /\ Goto(w, j, "claimed") /\ UNCHANGED loc
       \/ /\ j \notin pending \/ hash[j] = "none"
          /\ Finish(w, j) /\ UNCHANGED claimed
    /\ NoFault
    /\ UNCHANGED <<hash, status, backend, requeues, counterVars, delayed,
                   inflight, harvest, row, reports, api>>

\* dispatch_job: the backend does not serve the job, or its engine is full.
DispatchBack(w, j) ==
    /\ At(w, j, "claimed")
    /\ pending' = pending \cup {j}
    /\ Finish(w, j) /\ NoFault
    /\ UNCHANGED <<hashVars, counterVars, delayed, inflight, harvest,
                   row, reports, api>>

\* Mutant: the retry budget is not checked.
DispatchRetryUnbounded(w, j) ==
    /\ At(w, j, "claimed") /\ requeues[j] < MaxRequeues + 3
    /\ requeues' = [requeues EXCEPT ![j] = @ + 1]
    /\ Touch(j)
    /\ Goto(w, j, "retrying") /\ NoFault
    /\ UNCHANGED <<status, backend, claimed, queueVars, counterVars,
                   row, reports, api, loc>>

\* _retry_later: a transient error while the snapshot's budget lasts; the count
\* first, then the delayed retry.
DispatchRetry(w, j) ==
    /\ At(w, j, "claimed")
    /\ loc[w][j].rq < MaxRequeues
    /\ requeues' = [requeues EXCEPT ![j] = @ + 1]
    /\ Touch(j)
    /\ Goto(w, j, "retrying") /\ NoFault
    /\ UNCHANGED <<status, backend, claimed, queueVars, counterVars,
                   row, reports, api, loc>>

ScheduleRetry(w, j) ==
    /\ At(w, j, "retrying")
    /\ Touch(j)
    /\ delayed' = delayed \cup {j}
    /\ Finish(w, j) /\ NoFault
    /\ UNCHANGED <<status, backend, requeues, claimed, counterVars, pending,
                   inflight, harvest, row, reports, api>>

\* The image cannot be read, the error is terminal or the budget is spent.
DispatchFail(w, j) ==
    /\ At(w, j, "claimed")
    /\ Goto(w, j, "sf_read") /\ NoFault
    /\ UNCHANGED <<redisVars, row, reports, api, loc>>

EngineAccepts(w, j) ==
    /\ At(w, j, "claimed")
    /\ Goto(w, j, "accepted") /\ NoFault
    /\ UNCHANGED <<redisVars, row, reports, api, loc>>

\* set_running: HSET, then SADD, then (only for a new member) the counters.
SetRunningHash(w, j) ==
    /\ At(w, j, "accepted")
    /\ status' = [status EXCEPT ![j] = "running"]
    /\ backend' = [backend EXCEPT ![j] = loc[w][j].bk]
    /\ Touch(j)
    /\ Goto(w, j, "hset") /\ NoFault
    /\ UNCHANGED <<requeues, claimed, queueVars, counterVars,
                   row, reports, api, loc>>

SetRunningAdd(w, j) ==
    /\ At(w, j, "hset")
    /\ inflight' = inflight \cup {j}
    /\ Goto(w, j, IF j \in inflight THEN "record" ELSE "sadd") /\ NoFault
    /\ UNCHANGED <<hashVars, counterVars, pending, delayed, harvest,
                   row, reports, api, loc>>

SetRunningCount(w, j) ==
    /\ At(w, j, "sadd")
    /\ slots' = [slots EXCEPT ![loc[w][j].bk] = @ + 1]
    /\ IF hash[j] = "whole"
       THEN loadQueued' = loadQueued - 1 /\ loadInflight' = loadInflight + 1
       ELSE UNCHANGED <<loadQueued, loadInflight>>
    /\ Goto(w, j, "record") /\ NoFault
    /\ UNCHANGED <<hashVars, queueVars, pages, row, reports, api, loc>>

\* _record_running mirrors the dispatch on the row, whatever the row says by
\* then; a database error is logged and the job goes on.
RecordRunning(w, j) ==
    /\ At(w, j, "record")
    /\ row' = [row EXCEPT ![j] = "running"]
    /\ Finish(w, j) /\ NoFault
    /\ UNCHANGED <<redisVars, reports, api>>

\* An exception between the engine's answer and the end of set_running (its last
\* call is signal_poll, at "record") is a terminal dispatch error: _fail_job.
SubmitError(w, j) ==
    /\ pc[w][j] \in {"accepted", "hset", "sadd", "record"}
    /\ Goto(w, j, "sf_read") /\ Fault
    /\ UNCHANGED <<redisVars, row, reports, api, loc>>

-----------------------------------------------------------------------------
\* set_failed, run by any worker: read the hash, count the batch page, write the
\* hash and leave the harvest queue, leave the in-flight set, move the counters.

\* _count_batch_page: a page whose state was terminal when read is not counted.
CountPage(j, st) ==
    pages' = [pages EXCEPT ![j] = IF st \in Active THEN @ + 1 ELSE @]

SetFailedRead(t, j) ==
    /\ At(t, j, "sf_read")
    /\ Keep(t, j, [loc[t][j] EXCEPT !.st = Seen(j), !.bk = SeenBackend(j)])
    /\ Goto(t, j, "sf_page") /\ NoFault
    /\ UNCHANGED <<redisVars, row, reports, api>>

SetFailedPage(t, j) ==
    /\ At(t, j, "sf_page")
    /\ CountPage(j, loc[t][j].st)
    /\ Goto(t, j, "sf_write") /\ NoFault
    /\ UNCHANGED <<hashVars, queueVars, slots, loadQueued, loadInflight,
                   row, reports, api, loc>>

SetFailedWrite(t, j) ==
    /\ At(t, j, "sf_write")
    /\ status' = [status EXCEPT ![j] = "failed"]
    /\ Touch(j)
    /\ harvest' = harvest \ {j}
    /\ Goto(t, j, "sf_srem") /\ NoFault
    /\ UNCHANGED <<backend, requeues, claimed, counterVars, pending, delayed,
                   inflight, row, reports, api, loc>>

SetFailedRemove(t, j) ==
    /\ At(t, j, "sf_srem")
    /\ inflight' = inflight \ {j}
    /\ Keep(t, j, [loc[t][j] EXCEPT !.rem = (j \in inflight)])
    /\ Goto(t, j, "sf_count") /\ NoFault
    /\ UNCHANGED <<hashVars, counterVars, pending, delayed, harvest,
                   row, reports, api>>

\* Mutant: the slot is given back whatever the SREM replied.
ReleasedAlways(t, j) ==
    slots' = IF loc[t][j].bk # NoBackend THEN [slots EXCEPT ![loc[t][j].bk] = @ - 1]
             ELSE slots

\* The slot a task gives back: only what its own SREM removed, on the backend
\* its own read of the hash named.
Released(t, j) ==
    slots' = IF loc[t][j].rem /\ loc[t][j].bk # NoBackend
             THEN [slots EXCEPT ![loc[t][j].bk] = @ - 1]
             ELSE slots

SetFailedCount(t, j) ==
    /\ At(t, j, "sf_count")
    /\ Released(t, j)
    /\ loadInflight' = IF loc[t][j].st # "absent" /\ loc[t][j].rem
                       THEN loadInflight - 1 ELSE loadInflight
    /\ loadQueued' = IF loc[t][j].st = "queued" /\ ~loc[t][j].rem
                     THEN loadQueued - 1 ELSE loadQueued
    /\ Goto(t, j, "sf_row") /\ NoFault
    /\ UNCHANGED <<hashVars, queueVars, pages, row, reports, api, loc>>

\* The row: the poller's mark_failed spares a done one, the submit worker's
\* _fail_job and the reaper do not look.
FailRow(t, j) ==
    /\ At(t, j, "sf_row")
    /\ row' = IF t \in Pollers \cup Harvesters /\ row[j] = "done"
              THEN row ELSE [row EXCEPT ![j] = "failed"]
    /\ Finish(t, j) /\ NoFault
    /\ UNCHANGED <<redisVars, reports, api>>

-----------------------------------------------------------------------------
\* The poller's status checks.

\* _inflight_states: SMEMBERS, then the hashes in a second round trip.  The
\* first poll is due poll_backoff_initial after set_running: PromptMirror says
\* that the dispatch is over by then, its row written.
PollList(p, j) ==
    /\ At(p, j, "idle") /\ j \in inflight
    /\ PromptMirror => \A w \in Submitters : pc[w][j] \in {"idle", "peeked"}
    /\ Goto(p, j, "listed") /\ NoFault
    /\ UNCHANGED <<redisVars, row, reports, api, loc>>

PollRead(p, j) ==
    /\ At(p, j, "listed")
    /\ IF hash[j] = "whole"
       THEN /\ Keep(p, j, [NoLocals EXCEPT !.bk = backend[j], !.st = status[j],
                                           !.rq = requeues[j]])
            /\ Goto(p, j, "checking")
       ELSE Finish(p, j)
    /\ NoFault
    /\ UNCHANGED <<redisVars, row, reports, api>>

\* The engine is still working: schedule_next_poll writes the hash.
PollRunning(p, j) ==
    /\ At(p, j, "checking") /\ loc[p][j].bk # NoBackend
    /\ Touch(j)
    /\ Finish(p, j) /\ NoFault
    /\ UNCHANGED <<status, backend, requeues, claimed, queueVars, counterVars,
                   row, reports, api>>

\* _RELEASE_DONE_LUA: one atomic step from the in-flight set to the harvest
\* queue; the caller's snapshot names the backend.
ReleaseDone(p, j) ==
    /\ At(p, j, "checking") /\ loc[p][j].bk # NoBackend
    /\ IF j \in inflight
       THEN /\ inflight' = inflight \ {j}
            /\ harvest' = harvest \cup {j}
            /\ status' = IF hash[j] = "none" THEN status
                         ELSE [status EXCEPT ![j] = "storing"]
            /\ loadInflight' = loadInflight - 1
            /\ slots' = [slots EXCEPT ![loc[p][j].bk] = @ - 1]
            /\ Goto(p, j, "storing_row") /\ UNCHANGED loc
       ELSE /\ Finish(p, j)
            /\ UNCHANGED <<inflight, harvest, status, loadInflight, slots>>
    /\ NoFault
    /\ UNCHANGED <<hash, backend, requeues, claimed, pending, delayed,
                   loadQueued, pages, row, reports, api>>

\* Mutant: the row is set to storing whatever it says.
StoringRowAlways(p, j) ==
    /\ At(p, j, "storing_row")
    /\ row' = [row EXCEPT ![j] = "storing"]
    /\ Finish(p, j) /\ NoFault
    /\ UNCHANGED <<redisVars, reports, api>>

StoringRow(p, j) ==
    /\ At(p, j, "storing_row")
    /\ row' = IF row[j] = "running" THEN [row EXCEPT ![j] = "storing"] ELSE row
    /\ Finish(p, j) /\ NoFault
    /\ UNCHANGED <<redisVars, reports, api>>

\* classify_poll_result: retryable with budget left requeues, the rest fails.
\* A snapshot without an engine job (LookupError) is never retryable.
PollRequeue(p, j) ==
    /\ At(p, j, "checking") /\ loc[p][j].bk # NoBackend
    /\ loc[p][j].rq < MaxRequeues
    /\ Goto(p, j, "rq_read") /\ NoFault
    /\ UNCHANGED <<redisVars, row, reports, api, loc>>

PollFail(p, j) ==
    /\ At(p, j, "checking")
    /\ Goto(p, j, "mf_check") /\ NoFault
    /\ UNCHANGED <<redisVars, row, reports, api, loc>>

\* release_and_requeue, then count_requeue, then the row.
RequeueRead(p, j) ==
    /\ At(p, j, "rq_read")
    /\ Keep(p, j, [loc[p][j] EXCEPT !.st = Seen(j), !.bk = SeenBackend(j)])
    /\ Goto(p, j, "rq_srem") /\ NoFault
    /\ UNCHANGED <<redisVars, row, reports, api>>

RequeueRemove(p, j) ==
    /\ At(p, j, "rq_srem")
    /\ inflight' = inflight \ {j}
    /\ Keep(p, j, [loc[p][j] EXCEPT !.rem = (j \in inflight)])
    /\ Goto(p, j, "rq_count") /\ NoFault
    /\ UNCHANGED <<hashVars, counterVars, pending, delayed, harvest,
                   row, reports, api>>

RequeueCount(p, j) ==
    /\ At(p, j, "rq_count")
    /\ Released(p, j)
    /\ IF loc[p][j].rem /\ loc[p][j].st # "absent"
       THEN loadQueued' = loadQueued + 1 /\ loadInflight' = loadInflight - 1
       ELSE UNCHANGED <<loadQueued, loadInflight>>
    /\ Goto(p, j, "rq_reset") /\ NoFault
    /\ UNCHANGED <<hashVars, queueVars, pages, row, reports, api, loc>>

RequeueReset(p, j) ==
    /\ At(p, j, "rq_reset")
    /\ status' = [status EXCEPT ![j] = "queued"]
    /\ backend' = [backend EXCEPT ![j] = NoBackend]
    /\ Touch(j)
    /\ harvest' = harvest \ {j}
    /\ Goto(p, j, "rq_delay") /\ NoFault
    /\ UNCHANGED <<requeues, claimed, counterVars, pending, delayed, inflight,
                   row, reports, api, loc>>

RequeueDelay(p, j) ==
    /\ At(p, j, "rq_delay")
    /\ delayed' = delayed \cup {j}
    /\ Goto(p, j, "rq_bump") /\ NoFault
    /\ UNCHANGED <<hashVars, counterVars, pending, inflight, harvest,
                   row, reports, api, loc>>

\* Mutant: the requeue is refunded instead of counted.
RequeueRefund(p, j) ==
    /\ At(p, j, "rq_bump")
    /\ requeues' = [requeues EXCEPT ![j] = @ - 1]
    /\ Touch(j)
    /\ Goto(p, j, "rq_row") /\ NoFault
    /\ UNCHANGED <<status, backend, claimed, queueVars, counterVars,
                   row, reports, api, loc>>

RequeueBump(p, j) ==
    /\ At(p, j, "rq_bump")
    /\ requeues' = [requeues EXCEPT ![j] = @ + 1]
    /\ Touch(j)
    /\ Goto(p, j, "rq_row") /\ NoFault
    /\ UNCHANGED <<status, backend, claimed, queueVars, counterVars,
                   row, reports, api, loc>>

RequeueRow(p, j) ==
    /\ At(p, j, "rq_row")
    /\ row' = [row EXCEPT ![j] = "queued"]
    /\ Finish(p, j) /\ NoFault
    /\ UNCHANGED <<redisVars, reports, api>>

-----------------------------------------------------------------------------
\* The poller's harvest loop.

\* mark_failed reads the row first: a job that is already done stays done.
MarkFailedCheck(t, j) ==
    /\ At(t, j, "mf_check")
    /\ Goto(t, j, IF row[j] = "done" THEN "sd_read" ELSE "sf_read") /\ NoFault
    /\ UNCHANGED <<redisVars, row, reports, api, loc>>

HarvestStart(h, j) ==
    /\ At(h, j, "idle") /\ j \in harvest /\ hash[j] = "whole"
    /\ Keep(h, j, [NoLocals EXCEPT !.bk = backend[j]])
    /\ Goto(h, j, "harvesting") /\ NoFault
    /\ UNCHANGED <<redisVars, row, reports, api>>

\* forget_harvests: the entry of a job whose state is gone.
HarvestForget(h, j) ==
    /\ At(h, j, "idle") /\ j \in harvest /\ hash[j] # "whole"
    /\ harvest' = harvest \ {j}
    /\ NoFault
    /\ UNCHANGED <<hashVars, counterVars, pending, delayed, inflight,
                   row, reports, api, pc, loc>>

\* A transient storage or database error: reschedule_harvest.
HarvestRetry(h, j) ==
    /\ At(h, j, "harvesting")
    /\ harvest' = harvest \cup {j}
    /\ Touch(j)
    /\ Finish(h, j) /\ NoFault
    /\ UNCHANGED <<status, backend, requeues, claimed, counterVars, pending,
                   delayed, inflight, row, reports, api>>

\* The engine cannot give an output, or has no such job: mark_failed.
HarvestFail(h, j) ==
    /\ At(h, j, "harvesting")
    /\ Goto(h, j, "mf_check") /\ NoFault
    /\ UNCHANGED <<redisVars, row, reports, api, loc>>

\* Mutant: the transaction is not committed.
RecordDoneUncommitted(h, j) ==
    /\ At(h, j, "harvesting") /\ loc[h][j].bk # NoBackend
    /\ Keep(h, j, [loc[h][j] EXCEPT !.run = "first"])
    /\ Goto(h, j, "sd_read") /\ NoFault
    /\ UNCHANGED <<redisVars, row, reports, api>>

\* _record_done: the outputs are stored, and one transaction marks the row done.
\* Its row count says whether this harvest was the first.
RecordDone(h, j) ==
    /\ At(h, j, "harvesting") /\ loc[h][j].bk # NoBackend
    /\ row' = [row EXCEPT ![j] = "done"]
    /\ Keep(h, j, [loc[h][j] EXCEPT !.run = IF row[j] = "done" THEN "again" ELSE "first"])
    /\ Goto(h, j, "sd_read") /\ NoFault
    /\ UNCHANGED <<redisVars, reports, api>>

\* set_done: a batch page re-reads the hash, counts itself, then one pipeline
\* writes the hash and leaves both sets; the counters follow a real SREM.
SetDoneRead(t, j) ==
    /\ At(t, j, "sd_read")
    /\ Keep(t, j, [loc[t][j] EXCEPT !.st = Seen(j), !.bk = SeenBackend(j)])
    /\ Goto(t, j, "sd_page") /\ NoFault
    /\ UNCHANGED <<redisVars, row, reports, api>>

SetDonePage(t, j) ==
    /\ At(t, j, "sd_page")
    /\ CountPage(j, loc[t][j].st)
    /\ Goto(t, j, "sd_write") /\ NoFault
    /\ UNCHANGED <<hashVars, queueVars, slots, loadQueued, loadInflight,
                   row, reports, api, loc>>

\* Mutant: the entry stays in the harvest queue.
SetDoneWriteKeepsEntry(t, j) ==
    /\ At(t, j, "sd_write")
    /\ status' = [status EXCEPT ![j] = "done"]
    /\ Touch(j)
    /\ inflight' = inflight \ {j}
    /\ Keep(t, j, [loc[t][j] EXCEPT !.rem = (j \in inflight)])
    /\ Goto(t, j, IF j \in inflight THEN "sd_count" ELSE "sd_end") /\ NoFault
    /\ UNCHANGED <<backend, requeues, claimed, counterVars, pending, delayed, harvest,
                   row, reports, api>>

SetDoneWrite(t, j) ==
    /\ At(t, j, "sd_write")
    /\ status' = [status EXCEPT ![j] = "done"]
    /\ Touch(j)
    /\ inflight' = inflight \ {j}
    /\ harvest' = harvest \ {j}
    /\ Keep(t, j, [loc[t][j] EXCEPT !.rem = (j \in inflight)])
    /\ Goto(t, j, IF j \in inflight THEN "sd_count" ELSE "sd_end") /\ NoFault
    /\ UNCHANGED <<backend, requeues, claimed, counterVars, pending, delayed,
                   row, reports, api>>

SetDoneCount(t, j) ==
    /\ At(t, j, "sd_count")
    /\ Released(t, j)
    /\ loadInflight' = IF loc[t][j].st # "absent" THEN loadInflight - 1
                       ELSE loadInflight
    /\ Goto(t, j, "sd_end") /\ NoFault
    /\ UNCHANGED <<hashVars, queueVars, loadQueued, pages, row, reports, api, loc>>

\* Only the first harvest reports the job done; the batch event comes after.
ReportDone(t, j) ==
    /\ At(t, j, "sd_end") /\ loc[t][j].run = "first"
    /\ reports' = [reports EXCEPT ![j] = @ + 1]
    /\ Goto(t, j, "reported") /\ NoFault
    /\ UNCHANGED <<redisVars, row, api, loc>>

SetDoneEnd(t, j) ==
    /\ At(t, j, "reported") \/ (At(t, j, "sd_end") /\ loc[t][j].run # "first")
    /\ Finish(t, j) /\ NoFault
    /\ UNCHANGED <<redisVars, row, reports, api>>

\* A call of _harvest raises after the row was marked done: the except clause
\* of harvest() queues another harvest, or fails the job (and finds it done).
HarvestError(h, j) ==
    /\ pc[h][j] \in {"sd_read", "sd_page", "sd_write", "sd_count", "sd_end", "reported"}
    /\ loc[h][j].run # "none"
    /\ Fault
    /\ \/ /\ harvest' = harvest \cup {j}
          /\ Touch(j)
          /\ Finish(h, j)
       \/ /\ Goto(h, j, "mf_check")
          /\ Keep(h, j, [loc[h][j] EXCEPT !.run = "none"])
          /\ UNCHANGED <<harvest, hash>>
    /\ UNCHANGED <<status, backend, requeues, claimed, counterVars, pending,
                   delayed, inflight, row, reports, api>>

-----------------------------------------------------------------------------
\* A worker is killed, or a Redis or database call raises: the task ends where
\* it stands.  At "record" this is the swallowed database error.
Abort(t, j) ==
    /\ pc[t][j] # "idle"
    /\ Finish(t, j) /\ Fault
    /\ UNCHANGED <<redisVars, row, reports, api>>

ApiStep(j) == SubmitRow(j) \/ Enqueue(j) \/ ApiDies(j)

SubmitStep(w, j) ==
    \/ PromoteTake(w, j) \/ PromoteAdd(w, j) \/ Peek(w, j) \/ DropPending(w, j)
    \/ Claim(w, j) \/ DispatchBack(w, j) \/ DispatchRetry(w, j)
    \/ ScheduleRetry(w, j) \/ DispatchFail(w, j) \/ EngineAccepts(w, j) \/ SetRunningHash(w, j)
    \/ SetRunningAdd(w, j) \/ SetRunningCount(w, j) \/ RecordRunning(w, j)
    \/ SubmitError(w, j)

PollStep(p, j) ==
    \/ PollList(p, j) \/ PollRead(p, j) \/ PollRunning(p, j) \/ ReleaseDone(p, j)
    \/ StoringRow(p, j) \/ PollRequeue(p, j) \/ PollFail(p, j)
    \/ RequeueRead(p, j) \/ RequeueRemove(p, j) \/ RequeueCount(p, j)
    \/ RequeueReset(p, j) \/ RequeueDelay(p, j) \/ RequeueBump(p, j)
    \/ RequeueRow(p, j)

HarvestStep(h, j) ==
    \/ HarvestStart(h, j) \/ HarvestForget(h, j) \/ HarvestRetry(h, j)
    \/ HarvestFail(h, j) \/ RecordDone(h, j) \/ HarvestError(h, j)

\* The functions of redis_jobs.py and mark_failed, whichever task runs them.
SharedStep(t, j) ==
    \/ SetFailedRead(t, j) \/ SetFailedPage(t, j) \/ SetFailedWrite(t, j)
    \/ SetFailedRemove(t, j) \/ SetFailedCount(t, j) \/ FailRow(t, j)
    \/ MarkFailedCheck(t, j) \/ SetDoneRead(t, j) \/ SetDonePage(t, j)
    \/ SetDoneWrite(t, j) \/ SetDoneCount(t, j) \/ ReportDone(t, j)
    \/ SetDoneEnd(t, j)

PipelineNext ==
    \/ \E j \in Jobs : ApiStep(j)
    \/ \E w \in Submitters, j \in Jobs : SubmitStep(w, j)
    \/ \E p \in Pollers, j \in Jobs : PollStep(p, j)
    \/ \E h \in Harvesters, j \in Jobs : HarvestStep(h, j)
    \/ \E t \in Tasks, j \in Jobs : SharedStep(t, j) \/ Abort(t, j)

PipelineSpec == Init /\ [][PipelineNext]_vars

-----------------------------------------------------------------------------
\* Who has the job.  A job is dispatched by whoever takes it off a queue, so two
\* owners at once would run it twice and give its slot back twice.

\* The submit worker that has taken it and not yet put it in flight.
SubmitSteps == {"promoting", "claimed", "retrying", "accepted", "hset"}
SubmitHeld(w, j) == pc[w][j] \in SubmitSteps
\* The poller that has taken it out of flight and not yet requeued it.
RequeueSteps == {"rq_count", "rq_reset", "rq_delay"}
PollHeld(p, j) == pc[p][j] \in RequeueSteps

Unowned(j) == j \notin pending \cup delayed \cup inflight \cup harvest

\* At every moment at most one of these has the job, whatever crashes: the
\* pending queue, the delayed retries, the in-flight set, the harvest queue, one
\* submit worker, the poller's requeue (claim_pending, promote_due_retries,
\* set_running, release_done, release_and_requeue).
ExclusiveOwner ==
    \A j \in Jobs :
        /\ j \in pending => j \notin delayed \cup inflight \cup harvest
        /\ j \in delayed => j \notin inflight \cup harvest
        /\ j \in inflight => j \notin harvest
        /\ \A w \in Submitters : SubmitHeld(w, j) =>
              Unowned(j) /\ \A v \in Submitters \ {w} : ~SubmitHeld(v, j)
        /\ \A p \in Pollers : PollHeld(p, j) =>
              Unowned(j) /\ \A w \in Submitters : ~SubmitHeld(w, j)

\* Why ExclusiveOwner holds with one poller.  A job being polled can only go
\* where its poller takes it, and a job being harvested only back to the harvest
\* queue: count them with the in-flight set and with the harvest queue.
CheckSteps == {"listed", "checking", "rq_read", "rq_srem"}
HarvestSteps == {"harvesting", "mf_check", "sd_read", "sd_page", "sd_write",
                 "sd_count", "sd_end", "reported"}
Flying(j) == j \in inflight \/ \E p \in Pollers : pc[p][j] \in CheckSteps
Storing(j) == j \in harvest \/ \E h \in Harvesters : pc[h][j] \in HarvestSteps

OneOwner(j) ==
    /\ j \in pending => j \notin delayed
    /\ j \in pending \cup delayed => ~Flying(j) /\ ~Storing(j)
    /\ Flying(j) => ~Storing(j)
    /\ \A w \in Submitters : SubmitHeld(w, j) =>
          /\ j \notin pending \cup delayed /\ ~Flying(j) /\ ~Storing(j)
          /\ \A v \in Submitters \ {w} : ~SubmitHeld(v, j)
    /\ \A p \in Pollers : PollHeld(p, j) =>
          /\ j \notin pending \cup delayed /\ ~Flying(j) /\ ~Storing(j)
          /\ \A w \in Submitters : ~SubmitHeld(w, j)
    /\ api[j] # "answered" =>
          /\ j \notin pending \cup delayed /\ ~Flying(j) /\ ~Storing(j)
          /\ \A w \in Submitters : ~SubmitHeld(w, j)
          /\ \A p \in Pollers : ~PollHeld(p, j)

\* The inductive strengthening of ExclusiveOwner: the tasks that have read a job
\* and will still move it share its owner, and a job the API has not enqueued
\* has none (claim_pending, release_done, release_and_requeue, reschedule_harvest).
OwnerInv == \A j \in Jobs : OneOwner(j)

\* The slot counters.  A job enters and leaves the in-flight set one round trip
\* before its backend's counter moves.
InflightOn(b) == {j \in inflight : backend[j] = b}
Uncounted(b) ==
    {x \in Submitters \X Jobs : At(x[1], x[2], "sadd") /\ loc[x[1]][x[2]].bk = b}
Unreleased(b) ==
    {x \in Tasks \X Jobs : /\ pc[x[1]][x[2]] \in {"sf_count", "rq_count", "sd_count"}
                           /\ loc[x[1]][x[2]].rem /\ loc[x[1]][x[2]].bk = b}

\* As long as no task died half way, a backend's counter is its in-flight jobs,
\* less the ones just added and plus the ones just removed: no path (done,
\* failed, requeued, failed at dispatch) forgets a slot or gives one back twice.
SlotsExact ==
    faults = 0 => \A b \in Backends :
        slots[b] = Cardinality(InflightOn(b)) - Cardinality(Uncounted(b))
                     + Cardinality(Unreleased(b))

\* Task steps between which a job counts as queued, or as in flight, for /load.
Running(steps) == {x \in Tasks \X Jobs : pc[x[1]][x[2]] \in steps}
Removing(steps) == {x \in Running(steps) : loc[x[1]][x[2]].rem}
SubmitFailing == {x \in Submitters \X Jobs : pc[x[1]][x[2]] \in
                    {"sf_read", "sf_page", "sf_write", "sf_srem", "sf_count"}}

\* The /load counters: a job counts as queued until it is counted in flight or
\* failed at dispatch, and as in flight until its one removal is counted.
LoadsExact ==
    faults = 0 =>
        /\ loadQueued = Cardinality(pending) + Cardinality(delayed)
             + Cardinality(Running({"promoting", "claimed", "retrying", "accepted",
                                    "hset", "sadd", "rq_reset", "rq_delay"}))
             + Cardinality(SubmitFailing)
        /\ loadInflight = Cardinality(inflight) - Cardinality(Running({"sadd"}))
             + Cardinality(Removing({"sf_count", "rq_count", "sd_count"}))

\* With one submit worker a backend never has more jobs than its max_inflight,
\* counting the one being handed over (_eligible_slots, allocate_scored).
BackendNotOverfilled ==
    faults = 0 => \A b \in Backends :
        Cardinality(InflightOn(b))
          + Cardinality({x \in Submitters \X Jobs :
                            /\ pc[x[1]][x[2]] \in {"claimed", "accepted", "hset"}
                            /\ loc[x[1]][x[2]].bk = b}) <= MaxInflight

\* With one submit worker the jobs in flight, waiting for storage or being
\* handed over never exceed unstored_job_max (_dispatch_budget).
StorageBudget ==
  faults = 0 =>
    Cardinality(inflight) + Cardinality(harvest)
      + Cardinality({x \in Submitters \X Jobs :
                        pc[x[1]][x[2]] \in {"claimed", "accepted", "hset"}}) <= UnstoredMax

\* What one submit worker may spend in a tick it never overspends: the slots of a
\* backend and the room for unstored results, read once and used while jobs move.
WithinLimits == BackendNotOverfilled /\ StorageBudget

\* A job is requeued, at dispatch and at polling together, at most max_requeues
\* times and one more per poller and per further submit worker: a poller makes
\* the job dispatchable before it counts the requeue, and a submit worker may
\* claim a job on a snapshot it peeked before another one retried it
\* (_requeue_in_redis, _dispatch_failed).
RetryOverrun ==
    \A j \in Jobs : requeues[j] <= MaxRequeues + Cardinality(Pollers)
                                    + Cardinality(Submitters) - 1

\* A batch counts each of its pages once, done or failed (_count_batch_page).
PageCountedOnce == faults = 0 => \A j \in Jobs : pages[j] <= 1

\* Every counter beside a set or a status is exact while no task has died: slots,
\* load and batch pages, on whatever path a job leaves.
CountersExact == SlotsExact /\ LoadsExact /\ PageCountedOnce

\* Once Redis says a page is done or failed, its batch does not count it again,
\* however often its harvest is run again (_count_batch_page).
PagesFrozen ==
    [][\A j \in Jobs : status[j] \in Terminal => pages'[j] = pages[j]]_vars

\* The done event of a job is published at most once (_record_done), whatever the
\* pipeline's workers do.  The cleanup worker's reaper can undo it: JobLifecycle.
ReportedOnce == \A j \in Jobs : reports[j] <= 1

\* A row that says done keeps saying it.
DoneStaysDone == [][\A j \in Jobs : row[j] = "done" => row'[j] = "done"]_vars

\* Redis says done only when the row, which holds the results, does (_record_done
\* commits before set_done; mark_failed re-checks the row).
DoneIsRecorded == \A j \in Jobs : status[j] = "done" => row[j] = "done"

\* What is shown as done is on record and was reported once, over harvests that fail
\* before or after their commit and are run again.
DoneOnRecord == DoneIsRecorded /\ ReportedOnce

\* What is final stays: a done row, and the count of a page that has ended.
NothingUndone == DoneStaysDone /\ PagesFrozen

=============================================================================
