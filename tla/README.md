# Verification of tuzka-as-a-service (taas)

taas is an asynchronous OCR gateway: clients submit page images over HTTP, workers hand
them to OCR engines, poll the engines, store the results and report them. This directory
holds TLA+ models of the gateway, of the legacy shim and client libraries around it and of
the box that runs its engines, the TLC configurations that check them, and TLAPS proofs.

Run everything from this directory:

    tlc -workers 2 -config BatchCycle.cfg MCBatch     # one run
    tlapm JobPipelineCounters.tla                     # the proofs of one module

`PROJECT.json` lists the components, the runs with their properties, a mutant for every
property, the source lines behind every definition, the findings and the hazards.

## 1. Inventory

### The parts and their state

| Part | Source | State it keeps | Operations | Module |
|---|---|---|---|---|
| Redis job state | `app/services/redis_jobs.py` | `job:<id>` hash; `jobs:pending:<n>`, `jobs:delayed`, `jobs:inflight`, `jobs:pending_harvest`; `backend:<id>:inflight`, `load:*`, `batch:<id>` | enqueue, promote, peek, claim, set_running, release_done, set_done, set_failed, release_and_requeue, requeue_orphans, rebuilds | `JobPipeline`, `JobLifecycle` |
| Submit worker | `app/workers/submit/` | health and domain caches, scores | per tick: promote, read slots and budget, allocate over tiers, claim, dispatch; background domain syncs | `JobPipeline`, `Dispatch`, `DomainSync`, `Engines` |
| Poller | `app/workers/poller/` | the running batch of status checks, back-offs | status checks, harvest, sleep and wake-up, shutdown | `JobPipeline`, `PollLoop` |
| Cleanup worker | `app/workers/cleanup.py`, `services/reaper.py`, `services/retention.py` | tick counter | requeue lost jobs, reap stale ones, retention, purge of buckets, counter rebuilds | `JobLifecycle`, `Results`, `Batch` |
| Batches | `routers/batches.py`, `services/batch_store.py`, `batches.py`, `batch_archive.py` | `batches` and `jobs` rows, counts, archive object | submit, refuse, finish, retry, archive, expire, evict | `Batch`, `BatchPromise` |
| Results | `routers/jobs.py`, `services/storage.py`, `retention.py` | `job_results` rows, objects | store, download, presign, evict, delete | `Results` |
| What may be asked for | `services/job_spec.py`, `scopes.py`, `routers/domains.py` | cache of capabilities | scope, domain, outputs and options of a submit; list of domains | `JobSpec` |
| Load signal | `services/load.py`, `routers/load.py` | none of its own | totals and groups of the load counters | `Load` |
| Scores, allocation | `workers/submit/steps.py`, `services/perf.py` | averages, penalties | `allocate_scored` | `Dispatch` |
| Rate limit | `services/rate_limit.py` | a GCRA key per user and class | the script | `RateLimit`, `TokenBucket` |
| Caches of the API | `app/deps.py`, `services/config.py` | keys, limits | look-up and store | `ApiCache` |
| Events | `routers/ws.py`, `clients/python`, `clients/java` | connections; pending and early results, waiters | catch-up, subscribe, deliver; submit, wait, reconnect | `EventStream` |
| Event emitter | `services/event_emitter.py` | bounded queue, batch | emit, flush, close | `Emitter` |
| Engine adapters | `app/engines/` | cached OpenAPI document | describe, validate | `Engines`, `JobSpec` |
| Legacy shim | `compat/app/` | requests and job ids under TTLs, validated keys | upload, status, download, sleeping out a 429 | `Compat`, `ApiCache` |
| Box | `deploy/box/` | dispatch gate, containers, drain deadline | the scheduler's tick | `Box` |
| CLI, bench, migrations, telemetry | `app/cli/`, `bench/` | | edits of the tables appear as steps of the modules above | |

### How they interact

The API decides on the request (`JobSpec`, `ApiCache`, `RateLimit`), commits the job's row
and enqueues the job in Redis. A submit worker *peeks* the queue, allocates a backend and
*claims* the job with a Lua `ZREM`; it hands the image to the engine and calls
`set_running` (hash, in-flight set, counters: three round trips), then mirrors the dispatch
on the row. The poller lists the in-flight set, asks the engines, and for each job either
does nothing, releases it to the harvest queue (one Lua script), requeues it (several round
trips) or fails it. The harvest loop stores the outputs, marks the row done in one
transaction, which also finishes the batch, calls `set_done` and publishes the event that
the WebSockets forward. The cleanup worker repairs: jobs that are in no queue, jobs past
their deadline, batches nobody finished, counters that drifted; and it takes away what is
too old.

All workers are asyncio processes that share nothing but Redis, Postgres and the object
store. Deployments roll with one replica each, so two submit workers, or two pollers, run
for a while during every rollout; any of them can be killed at any await.

### What is hard, and what makes each part correct

* **Ownership.** A job has no lock. Who may go on with it is decided by which set or queue
  it is in, and by the reply of a `ZREM` or `SREM`. Correct: never two owners.
* **Two stores and a bucket.** Row, hash and object are written in different round trips by
  different workers. Correct: `done` is recorded before it is shown, is final, is reported
  once; what a row offers can be downloaded; what has no row goes.
* **Counters beside sets.** Slots, load and batch counts move a round trip after the sets
  they count. Correct: exact when nothing crashed, repaired for good when something did.
* **Limits read early.** Free slots, storage budget and retry budget are read once and
  used later.
* **Caches that nobody tells.** Keys, limits, capabilities, OpenAPI documents, health. Each
  has only its TTL, and a slow query may fill it late. Correct: a bounded age, and in the
  end the truth.
* **Sleep.** The poller, the waiting clients and the box scheduler sleep; a wake-up may
  come between their last look and the sleep.
* **Recovery.** Whatever dies or hangs, every submitted job and every batch ends.

The hazards, each at its line with the properties about it, are in `PROJECT.json`.

## 2. Modules

| Module | What it is |
|---|---|
| `JobPipeline` | API, submit workers, pollers, harvest loops and the Redis functions they share |
| `JobLifecycle` | extends it with the cleanup worker: lost jobs, the reaper, hash expiry, counter rebuilds; fairness and liveness |
| `JobPipelineProofs`, `JobPipelineCounters` | theorems about `JobPipeline`: types, owners and what is done; then counters and limits |
| `Batch` | one batch over its whole life; `BatchPromise` is what it promises, and `Batch` refines it |
| `BatchProofs`, `BatchArchiveProofs` | theorems about `Batch`: the refinement; rows, objects, archive and counters |
| `EventStream` | the event channel, the WebSockets, the two Python clients and the Java client |
| `EventStreamProofs` | theorems about `EventStream` |
| `Dispatch` | which backend a job goes to: tiers, peek, scores, affinity, ties |
| `PollLoop` | passes, sliding window, back-off, harvest retries, wake-ups, SIGTERM |
| `Results` | results of single jobs: harvest, reads, retention, purge |
| `JobSpec`, `Load` | what a submit may ask for; what `/load` says |
| `DomainSync`, `Engines` | several workers that sync one engine; one worker that syncs several |
| `RateLimit`, `TokenBucket` | the limiter, and what it implements |
| `ApiCache`, `Compat`, `Emitter`, `Box` | see the inventory |
| `AdmissionProofs`, `WorkerLoopsProofs` | theorems about `RateLimit`, `ApiCache`, `JobSpec`, `Compat` and `Dispatch`; about `Emitter`, `DomainSync` and `PollLoop` |
| `UpkeepProofs` | theorems about `Results`, `Load`, `Box` and `Engines` |
| `MCJobPipeline`, `MCJobLifecycle`, `MCBatch` | instances of one module |
| `MCRequests`, `MCEventStream`, `MCUpkeep`, `MCWorkerLoops` | instances of several modules that share no variable |

The last four compose modules that do not interact through the state they model. The
product of their state spaces would show nothing more than each of them, so the variable
`focus`, chosen in the initial state, says which of them a behaviour follows; the others
stay in one initial state. Next-state relation and fairness are those of the modules, each
conjoined with its focus. `MCRequests` has two foci on `JobPipeline`: a rollout of one job
and a gateway full with three. `Compat` interacts with `RateLimit` and extends it.

### JobPipeline and JobLifecycle

`pc[t][j]` is the await at which task `t` stands with job `j`, `loc[t][j]` what it has read
so far (`bk`, `st`: the backend and status of the hash; `rq`: the requeue count of its
snapshot; `rem`: the reply of its `SREM`; `run`: whether its harvest was the first). One
action is one Redis round trip, Lua script or database transaction. `idle` is the worker's
loop. The prefixes name the function being executed: `sf_` is `set_failed`, `sd_`
`set_done`, `rq_` `release_and_requeue` and the rest of `_requeue`, `mf_` `mark_failed`.
`sf_*` and `sd_*` are shared by every kind of task, as the functions are.

Variables are the keys and columns: `hash` says whether `job:<id>` is absent, whole, or a
*partial* one that a late write recreated after its TTL (`_parse_state` takes it for
gone); `status`, `backend`, `requeues`, `claimed` are its fields; `pending`, `delayed`,
`inflight`, `harvest` the queues; `slots`, `loadQueued`, `loadInflight`, `pages` the
counters; `row` is `jobs.status`; `reports` counts published done events.

Abstractions, all of them on the side of more behaviours unless said:

* Time is not modelled. A retry may be due, and a deadline may pass, at any moment. Orders
  that the program's durations exclude are excluded by guards, each with its reason:
  a claim's grace (300 s) does not run out during a dispatch or a delayed retry
  (`GraceExpires`), the hash TTL outlives both deadlines (`HashExpires`), the reaper's
  queued deadline outlives the submit request (`ReapSelect`). `PromptMirror = TRUE`
  assumes that a dispatch has written its row before the first poll is due
  (`poll_backoff_initial`, 1 s); with `FALSE` it may be arbitrarily late, and
  `DoneStaysDone` then fails: `_record_running` has no condition on the row.
* A tick's reads of slots, budget and queue are one step, `Peek`. A single submit worker's
  own reads only become more conservative between them, since only it adds jobs.
* Ticks and poll batches are per job: a worker may look at one job while it still works on
  another. The code waits for the whole batch, which is fewer interleavings; `PollLoop` and
  `Dispatch` have the batches.
* Adjacent commands of one function on fields that no other task relates are one step
  (`RequeueReset`, `RequeueCount`, the unlocked pipeline of `set_done`).
* Every job is a page of a batch, so that every counting path is taken. Priority levels are
  one queue; one domain, one load field. `max_inflight` is the same for every backend.
* A retry delay of exactly zero seconds, which full jitter may give, is a delay here.
* Engines answer by choice: accepted, full, transient error, terminal error; done, running,
  failed, unreachable, lost.
* `Abort` ends a task where it stands: a killed worker, or a Redis or database call that
  raises out of it. `SubmitError` and `HarvestError` are the raises the code catches.
  `MaxFaults` bounds them.

### Batch

A page has one job for the original submit and one per retry request. `status`, `built`,
`job` and `result` are the rows, `uploads`, `objects` and `archive` the bucket, `live` and
`counts` Redis; `sub`, `txn[w]`, `retry[k]`, `dl[c]` and `cln` are where the upload, the
settling workers, the retry requests, the downloads and the retention stand. Postgres is
READ COMMITTED: a statement sees the committed rows, and the update of the batch row waits
for its lock (`lock`), which is what makes `finish_if_done` right. Requests overlap as they
like: nothing in the code holds a batch between the reads of a retry or of a download and
its commit. `crossed` is a history variable that remembers which overlaps have happened, a
retry's commit with the building of an archive (`"archive"`) or two retries (`"retries"`).
The purge of both buckets by age is `PurgeUploads` and `PurgeResults`. The three Boolean
constants name what the configuration leaves open: `LongResults` (the results bucket keeps
objects for longer than rows, jobs and requests live, which the default does not),
`SlowSubmit` (storing an archive takes longer than the queued deadline, so that the reaper
fails pages of a batch that is still open) and `TightCap` (the storage cap reaches results
of jobs that are not settled). `BatchCycle` has them benign, `Upkeep` (`BatchFinishes`) not.
Only a slow submit lets a dispatch revive a failed row, or leaves a queued batch without
active pages: `Dispatch` and `FinishStalled` are in `SlowNext`, not in `Next`.

### EventStream

A pub/sub message reaches the sockets that are subscribed when it is published. A socket
runs its catch-up query, then subscribes; `missed` records what was published in between.
`wire` is the order of frames. `pending`, `early` (`_finished_early`, bounded), `alldone`
and `flag` are the client's fields; callbacks run outside the lock, hence `hnd`. `told` has
the jobs whose callback has run, `got` those of them with an output or an error in it: a
replayed event carries no URL, so its callback brings nothing. The Java client differs where its code does: its latch is never set
up again.

### Dispatch, PollLoop, Results and the caches

* `Dispatch`: a tick is the steps `TickStart`, then per tier `TierPeek`, `TierScores`,
  `PlaceJob` or `LeaveOut` for one job after another, `TierDispatch`; pages finish and fail
  between any two. Seconds, megapixels and penalties are small integers, and
  `expected_finish` is compared with denominators cleared.
* `PollLoop`: time passes only while everybody waits. `pollIn`, `gap`, `harvestIn` count
  down; `token` is `jobs:poll_wakeup`; `todo` and `checks` are the sliding window of the
  running batch; `late` is how long a check has been overdue while the loop slept. The
  token's own TTL (60 s, `redis_jobs.py:84`) is not modelled: it outlives a pass. With two
  jobs the limit of harvests per pass does not bind, so `EveryJobEnds` says nothing of it.
* `Results`: ages of rows and objects stop one past the longest TTL. The cleanup is a
  sequence of selects, deletes of objects, and commits, any of which may fail. A harvest
  takes at most `LateHarvest` and no object appears after that.
* `ApiCache`, `JobSpec`, `DomainSync`, `Engines`: tables have versions, and a variable
  counts for each version how long it has been out of the tables; a look-up is a query and
  a store with any step of another request in between. An age stops at the TTL.
* `Box`: a week of a few days of a few minutes, every schedule of one entry over it, docker
  commands that fail, restarts of the scheduler, containers started and removed by hand.
* `Compat`: a call of the API takes no time, the sleeps do; the limiter is `RateLimit`'s.
* `Emitter`: a post ends stored or not, and says so or not; it may hang until cancelled.
* `Load`: a pure computation, checked over all small counter tables in its initial states.

## 3. Runs

| Run | Instance | Shows |
|---|---|---|
| `Requests` | rollout: 1 job, 2 backends, 2 submit workers, 1 poller, 1 requeue, 2 faults; full: 3 jobs, slots of 1, room for 2 unstored results; compat: 2 calls, 1 image, a rival, 1 restart; cache: 2 requests, 1 edit | `ExclusiveOwner`, `CountersExact` (slots, load, pages), `DoneOnRecord`, `NothingUndone`, `TypeOK`; `WithinLimits`; `CompatSound`, `ActsAsBucket` (refinement of `TokenBucket`); `CachesRecent` |
| `PipelineBudget` | 1 job, 1 submit worker, 2 pollers, 1 requeue | `RetryOverrun` |
| `LifecycleCrash` | 1 job, cleanup worker, 1 fault, backend rebuild | `Settles`, `SlotsRepaired` |
| `LifecycleLoads` | 1 job, cleanup worker, load rebuild, no fault | `LoadsRepaired` |
| `BatchCycle` | 2 pages, 2 workers, 1 download, LongResults; 1 retry that crosses anything with 2 mishaps, or 2 retries that overlap each other and the download, or 2 that keep their turn with 1 mishap | `KeepsPromise` (refinement of `BatchPromise`), `BatchSound` (rows, objects, archive), `RefusedLeavesNothing`, `CountsReachTotal` |
| `EventStream` | stream: a Python client with 2 jobs, a Java client with 1, or a wait for a batch; 1 drop; engines: 2, 2 releases, 2 upsets | `WaitersSound`, `CallbackComes`; `EnginesTypeOK`, `SchemaSound`, `Learned` |
| `WorkerLoops` | dispatch: 4 pages, 3 backends in 2 tiers; sync: 2 workers, 2 releases; poll: 2 jobs, window of 1; emitter: 4 events, queue of 2 | `AllocationSound`, `EveryPageEnds`; `SyncSound`, `NeverForgotten`, `CatchesUp`; `PollSound`, `EveryJobEnds`; `EmitterSound`, `CloseEnds` |
| `Upkeep` | results: 2 jobs of 2 outputs, a cap, 1 failure; batch: 1 page, 3 mishaps, short bucket TTL; load: 3 counters in -1..1; spec: 3 tables, 2 submits; box: 3 days of 2 minutes, every schedule of one entry | `ReadsSound`, `CapTakesOldest`, `NothingStays`; `BatchFinishes`; `LoadFaithful`; `SubmitSound`; `BoxSound`, `FullDrain`, `ObeysSchedule` |
| `ResultsPurged` | results with the default TTL of the bucket | violates `DownloadableUntil` |
| `BatchOverlap` | 1 page, 1 retry, 1 download, no mishap | violates `ArchiveIsNewest` |
| `EventDrop` | a client whose live connection drops once before its jobs end | violates `DropLosesNothing` |
| `ReportedTwice` | `LifecycleCrash` without fairness | violates `ReportedOnce` |

The last four are described below.

An invariant named `...Sound`, `CountersExact`, `WithinLimits`, `DoneOnRecord` or
`CachesRecent` is a conjunction of named parts, often with the module's type invariant; each part is stated, with what it means for the code, above the conjunction.

**Why the bounds are enough.** In the pipeline jobs meet each other only through slots,
budget and counters; the full gateway of `Requests` has the fewest jobs for which a slot and the budget
can each be the limit that binds. Everything else is about one job and the tasks that race
for it, so one job with two submit workers, a poller, a harvest loop and a reaper has every
pair of racing functions. One requeue gives a second life to a job; two faults let a
harvest fail, be retried and fail again. Two pages and two workers are the fewest for two
finishing transactions to overlap, two retries for a second round on top of the first. Ages and TTLs
are small numbers of ticks, with the TTL above the longest query, so that an entry can be
fresh, stale by a slow query, and expired. Four pages over backends with two slots make
ties, a full backend and a page that nobody serves. A queue of two and batches of two
overflow with four events. A week of three days of two minutes has a window that wraps past
midnight, one that wraps past the week, one that ends with the day and ranges that wrap.

Every run has a part that comes to rest when its jobs have ended or its requests are
answered, so deadlock is not checked; the liveness properties say that what must end does.
They are written with the operators that TLC checks without a product of automata,
`[]<>P` and `<>[]P`. Where this replaces a leads-to its antecedent is stable: a closing
emitter and the words of the box schedule stay as they are, and a job or batch that is
active for ever is what `[]<>~active` excludes.

`CountersExact` and `WithinLimits` are claimed while no task has died (`faults = 0`): a
crash between a set and its counter is exactly what the rebuilds exist for, and
`SlotsRepaired` and `LoadsRepaired` cover it. `WithinLimits` holds for one submit worker;
during a rollout each of two spends the free slots in full, and the engine's 503
(`EngineFullError`) is what is left.

Of `SchemaSound`, `SchemaIsRecent` is the part with content: that a stored schema is never
lost (`SchemaKept`) is close to what `plan_domain_links` says in one line. `NothingUndone`
is claimed with a prompt mirror, see the races below.

`RetryOverrun` is the exact form of the shared retry budget. `jobs.max_requeues` itself can
be overrun: the poller makes the job dispatchable one round trip before it counts the
requeue, and a submit worker decides on the count it peeked before its claim. The `VIEW` of
`PipelineBudget` leaves out the counters and events that no worker reads.

### What fails

* `ResultsPurged`. `_purge_expired` (`app/workers/cleanup.py:149`) deletes every object of
  the results bucket older than `storage.results_ttl_minutes`, 60 minutes unless it is set,
  and tells no row. `app/README.md:160` promises that results stay downloadable until
  `storage.results_max_age_seconds`, a day. With the defaults a download after an hour meets
  a live row and no object, and breaks. `Upkeep` shows that with a bucket TTL above the
  results' age the promise is kept. A batch meets the same purge: with
  `LongResults = FALSE`, `StoredHasObject` claims nothing, and its pages and its archive may
  be gone under rows that offer them.
* `BatchOverlap`. A batch is finished with a failed page; a download has read its pages and
  builds the archive; a retry commits, and clears `archive_built_at`
  (`app/routers/batches.py:568`); the download sets it (`:486`). When the retried page is
  done the batch is finished again, its archive counts as built, and every download serves
  the old one, without the page. The docstring of `retry_batch` (`:516`) says otherwise.
  A client or proxy that gives up on a slow build is enough for the two to overlap. A build
  that locked the row, or looked again at `status` and the newest jobs at its commit, would
  do.
* `EventDrop`. A connection drops, the job ends, the client connects again: the catch-up
  (`app/routers/ws.py:122`) replays the event without `alto_url` and `txt_url`.
  `_handle_event` (`client.py:331-343`) calls `on_result` with neither output and crosses the
  job off, so that `wait()` returns. `clients/README.md:159-160` says that a brief drop won't
  lose results. A program that notices the empty result can still download it.
* `ReportedTwice`. The reaper selects a job past its deadline and finds it in no harvest
  queue (`app/services/reaper.py:99`). The job is released, harvested, recorded done and
  reported; a later publish raises (`app/workers/poller/worker.py:491-493`) and the harvest is
  put back. The reaper's update, with no condition (`reaper.py:122`), sets the row to failed.
  The harvest runs again, its `status != DONE` (`worker.py:399-402`) matches, and done is
  reported a second time. Within the pipeline alone `ReportedOnce` holds, and is proved.

### Races the models reach that no passing property covers

Each of these is a trace of the model as it stands; the properties above are stated so that
they hold beside them. The remedies are the ones the code already uses elsewhere: a
condition on the row's status (as in `_record_done` and `mark_failed`), gating on the reply
of the `SREM` (as in `release_done`), one script for a read and the write that rests on it.

* *Promotion and orphan scan* (`redis_jobs.py:161`): a promotion has taken a job off
  `jobs:delayed` and not added it yet; the scan sees it in no queue and adds it; a submit
  worker claims it, the promotion adds it again, and a second submit worker claims it too.
* *Reaper and harvest* (`reaper.py:122`): the reaper has looked at the harvest queue; the
  job is released, harvested and recorded done; the reaper's update of the row, which has no
  condition, fails it over its stored results. `ReportedTwice` is what may follow.
* *Retry and retry* (`routers/batches.py:571-581`): both requests find the batch finished.
  The second reads `page_counts` while a page of the first is counted in Redis and still
  queued in Postgres (`set_failed` runs before the row's commit), and then writes the
  counters anew: that page is counted no more, and the counts of the finished batch stop
  short of its total. `CountsReachTotal` excludes retries that overlap.
* *Reaper and dispatch* (`redis_jobs.py:612`): `set_failed` has read no backend, the
  dispatch runs through `set_running`, `set_failed` removes the member: the slot stays
  counted until the next rebuild. When the dispatch fails instead, both have read the page
  as active and both count it (`redis_jobs.py:410`).
* *Two pollers* (`redis_jobs.py:669`): `release_and_requeue` does not look at the reply of
  its `SREM`; a second poller's stale failure requeues a job that was harvested meanwhile.
* *Slow mirror* (`submit/worker.py:313`): with `PromptMirror = FALSE` the row update of a
  dispatch lands after the harvest's and takes done back. Every run has `PromptMirror = TRUE`,
  so `NothingUndone` does not speak of this race.

Smaller ones met on the way: an event published between a socket's catch-up and its
subscribe reaches nobody (`missed`; `CallbackComes` names the exception); a batch whose API
process dies during the upload stays OPEN for ever (`ApiDies`); `delete_expired_batches`
deletes a batch that a retry has reopened since the select; a result may be evicted while a
re-harvest stores it again, which leaves a stored row without object (`TightCap`); the
result of a partly evicted job gets a fresh URL for the evicted output
(`routers/jobs.py:316`); a purge or a delete between its select and its commit takes the
objects of a harvest that commits in between (excluded by `LateHarvest`); rows in a POST
that the shutdown cancels are neither surely stored nor counted (`cut`); a job retried on
a lower tier may avoid nothing there (avoidance is per tier); pages at the head of the queue
that nobody serves hold back the others until their hash expires; a job that one adapter
accepts may go to an able backend whose adapter would not have
(`adapter_capabilities` unions outputs over backends in the same way); during a rolling
upgrade two releases overwrite each other's options schema on every sync; the shim takes
every answer but 401 for a valid key, and reports a failed or deleted job as PROCESSING;
Java's `doneLatch` is never set up again, so a second wait returns at once.

### Fairness

* `FairLifecycle` assumes weak fairness of every started task (an await returns or raises;
  every HTTP and database call has a timeout), of every worker's loop for every job it finds
  (each tick or pass starts over, at latest after `submit_tick_seconds` or
  `poller_tick_seconds`) and of the rebuilds (each heavy tick). It assumes strong fairness
  of `ReapSelect`: a row that is again and again active past its deadline is not selected in
  some tick only while the reaper works on it. The reaper takes at most `REAP_MAX_PER_TICK`
  rows per tick; the instances are below that. The TTL of a whole hash runs out weakly
  fairly. Nothing is assumed about engines or storage: a poll may say `running`, and a
  harvest may be retried, for ever. `Settles` therefore rests on the reaper, and for a job
  that waits for its harvest on the TTL and `forget_harvests`.
* `Batch`: the upload, each worker, each retry, a retention step, the reaper for each row
  and `finish_stalled` go on; deaths are bounded by `MaxMishaps`. Users need not retry.
* `EventStream`: sockets, listeners and waiting calls go on, and what is finished is
  published; the connection drops at most `MaxFaults` times.
* `Dispatch`: the worker ticks, some page on an engine ends, the reaper and the TTL reach a
  job that nobody serves. `PollLoop`: the clock, the loop, the batch and every check or
  harvest under way; an engine says `running` at most `MaxRuns` times.
* `DomainSync`, `Engines`, `Results`, `Box`: the clock ticks, and the sync, the cleanup or
  the scheduler, which all run on a timer, go on. `Emitter`: the shutdown goes on.

## 4. Proofs

Every theorem below holds for all values of the constants of its module that satisfy the
module's `ASSUME` (roles are disjoint and finite, limits are numbers, TTLs outlive a query)
and the hypotheses named in the theorem.

| Hypothesis | What it says | Why the program has it |
|---|---|---|
| `OnePollerOnly`, `OneHarvesterOnly`, `OneSubmitterOnly` | one process of the kind | every worker is deployed with one replica, and the poller process runs one harvest loop. During a rollout there are two for a while: what then remains true is `ExclusiveOwner` (any submit workers), `RetryOverrun` (any workers), and what the runs with two submit workers or two pollers check |
| `PromptMirror = TRUE` | a dispatch has written its row before the first poll of the job | `poll_backoff_initial` is 1 s. With `FALSE`, `DoneStaysDone` fails (see the races in section 3) |
| `PromptSubmit` | `SlowSubmit = FALSE`: an archive is stored before the queued deadline | the deadline is 900 s by default, and the upload streams through. With `TRUE`, the reaper fails pages of an open batch; `BatchFinishes` is checked there |
| `Unhurried` | `PromptSubmit`, `TightCap = FALSE` | the cap is far above what is being settled. Nothing is assumed about the order of requests |
| `KeptLongEnough` | the bucket keeps an object for `results_max_age_seconds` or `done_ttl_seconds` and a harvest; a failed job keeps its row for as long as it may be harvested | what an operator has to see to: with the default TTL of the buckets and a longer age of results it does not hold, and `ResultsPurged` shows what happens then |
| `SmallTies` | `affinity_tolerance` times one slot less than `max_inflight` is below 100 %, for each backend | the defaults are 15 % and 4. From 8 slots on a page may follow its batch past an equal backend that is emptier, as `allocate_scored` is written (`WorkerLoops` with `Tolerance = 100` and its 2 slots shows one); `SlotsAreKept` needs no hypothesis |
| `ShortSleep` | the shim sleeps less than a minute before it tries again | `MAX_SLEEP` is 10 s (`compat/app/retry.py:14`) |

### The job pipeline

* `TypeCorrect`: `PipelineSpec => []TypeOK`. Inductive as it stands; one lemma per kind of
  task, one case per action, on small lemmas about what a step leaves in `pc` and `loc`.
* `OwnedByOne` (one poller): `[]ExclusiveOwner`, which is not inductive: a poller that has
  listed a job will still move it, wherever it is by then, and a harvest may put a job back
  on its queue. `OwnerInv` counts a job being checked with the in-flight set (`Flying`), a
  job being harvested with the harvest queue (`Storing`), and says that a job the API has
  not enqueued has no owner. Most actions only take owners away (`Narrow`, `Still`); the ten
  that transfer a job are treated one by one, and leave the other jobs alone (`Others`). The
  assumption is used in `ReleaseDone`, `RequeueRemove` and `RequeueDelay`: a second poller
  between its read and its act is what breaks the invariant.
* `DoneRecorded`, `PublishedOnce`, `DoneStays` (one poller, prompt mirror): `DoneOnRecord`,
  `ReportedOnce`, `DoneStaysDone`. An owner is not enough here, because a worker that owns a
  job no longer may still write its row. `AloneInv` says who may be busy with a job at all:
  a submit worker that has dispatched it and a poller that checks it exclude each other, and
  a poller that requeues has at most its count and its row left. `DoneInv` then says that a
  done row finds nobody busy but a harvest, and `ReportInv` that of all harvests of a job
  one alone knows it was first.
* `FinalStays`, `CountersKept` (also one harvest loop): `NothingUndone`, `CountersExact`. The
  counters move a round trip after the sets, so they are exact only as sums over sets *and*
  the workers that stand between the two. `SumsInv` says that each counter is the
  cardinality of its set, plus and minus those who are about to count. For a step to keep
  it, a worker's snapshot (the backend or status it read) must still be what the hash says:
  `WholeInv` (the hash of a job someone has is whole), `FreshInv` (a page is counted by the
  status it has) and `CalmInv` (while nobody died, the status says which queue the job is in).
* `RetriesBounded` (any workers, at least one): `RetryOverrun`. `BudgetInv`: the requeues made
  and the workers that hold a snapshot below the limit are together at most the limit, and
  one for each further worker.
* `LimitsKept` (also one submit worker): `WithinLimits`. `LimitsInv` says that what the worker
  has read, or now would read, holds at every later moment: slots with the dispatches in its
  hands, unstored results with those and the harvest. It rests on `CountersKept`.

### Batches

* `PromiseInvariant`, `PromiseKept`, `NothingLeft` (prompt submit): `Batch` implements
  `BatchPromise`, step by step, and `RefusedLeavesNothing`. `PromiseInv` has the row lock
  (`LockInv`: what `finish_if_done` found is true until its commit, which is exactly what
  `SELECT ... FOR UPDATE` is for), the open batch (`SubmitInv`: nothing but the upload
  touches it), `ActiveInv` (a queued batch has a page to settle) and `RetryInv`.
* `SoundInvariant`, `BatchSoundness` (unhurried): `BatchSound`. `SoundInv` adds to it the
  uploads (`UploadInv`), which jobs a worker may have (`PageInv`, `TxnInv`), that stored rows
  have objects up to the deletes under way (`ObjectInv`), what a request that has looked may
  still believe (`AskInv`), and that a download has read at least the stored results and
  exactly the current jobs of the batch it will commit an archive for (`ArchiveInv`). Requests
  overlap in all of it. Two parts are conditional, because the code breaks them otherwise:
  objects are there if `LongResults`, and the archive is that of the newest jobs until a retry
  has crossed a build (`"archive" \notin crossed`). Both constants of `Unhurried` are used: a
  late upload, or a cap that reaches unsettled pages, breaks the invariant.
* `CountsReach` (unhurried): `CountsReachTotal`, while no two retries have overlapped. Two functions write the counters anew
  (`init_batch`, the retry's) while workers add to them one by one. `TallyInv`: what is
  counted and the pages still waited for (`Waiting`: live, or committed and not yet enqueued)
  make up the total; what a retry has counted and its own pages make up the batch.
  `RowsInv` and `RoundInv` say which rows are queued at that time, so that the pages a retry
  leaves out are done or failed. A finished batch with idle workers waits for no page.

### Admission and upkeep

* `CachesAreRecent`: `CachesRecent` for any number of requests, TTLs and slow queries.
  `CacheInv` bounds what is in a cache *and* what is in the hands of a look-up that has not
  stored it yet (`CallsInv`), and ties both to the versions that were ever in the tables
  (`UserKnown`, `LimitKnown`).
* `SubmitsAreJudged`: `SubmitSound` for any tables, forms, keys and requests. `JudgedInv`
  carries the age of the cached capabilities through the awaits of a request. The proof
  found that `VisibleOutputs` had two overlapping cases where the code has an order.
* `ShimKeepsFaith` (short sleep): `CompatSound`, over the limiter's `RLInv` and, for each
  call, what its remaining budget and its next retry are (`CallsKept`, `KeysInv`).
* `EmitterAccounts`: `EmitterSound`. `EmitterInv` is the account of where each event is
  (queue, batch, post, stored, dropped), each in one place.
* `SyncsAreWhole`, `ReportsRemain`: `SyncSound`, `NeverForgotten`. `SyncInv` says of every
  transaction under way which rows it has deleted (`GoneInv`): all of the engine's rows it
  saw or, when another sync has committed since, none of those that are there now.
* `LimiterInvariant`, `LimiterIsBucket`: `RLInv`, and the limiter implements `TokenBucket`,
  with the burst and one request, less the debt, as its level. The expiry of a key is a
  stutter because of `DebtOutlived` (from the `EX` of the script, which is rounded up to
  seconds); an admitted request finds its cost in the bucket because of `DebtBounded`.

* `PollerIsOnTime`: `PollSound`. `LateInv` bounds how late a check is by what is left of the
  sleep, so that the next pass comes in time; `WakeInv` says that a job which has not been
  checked yet is in the batch, or its deadline was seen by the pass, or its token is still
  there, from the look at `jobs:inflight` over the `BLPOP` to the `DELETE`. That a harvest
  stands in `jobs:pending_harvest` once (`LineInv`) is what `PollTypeOK` counts.
* `WaitersAreWoken`: `WaitersSound`, of all clients at once. `WaitInv` ties `_all_done` to
  `_pending` and says that a submitted job is pending until its callback has run, which an
  event that overtakes its submit keeps only because `_finished_early` (`EarlyInv`: each job
  once, told of, within the cap) is consulted under the same lock. For `wait_batch()` an
  answer that the batch still runs is older than the event of its end (`HeardInv`).

* `ReadsAreSound` (kept long enough): `ReadsSound`. Three clocks have to agree: the age of a
  row, the age of its object, which a harvest may have stored earlier, and what the cleanup
  selected before it deleted. `KeptInv`: the object of a result that is not due (`Due`: its
  age, its job's TTL, the cap) is there and is older than the row by one harvest at most, so
  the purge of the bucket takes none early. `CleanerInv`: what has been selected is still due
  when it is deleted; this is where a late harvest of a failed job would break it. `ReadInv`:
  what an answer has said is still so or is worse (`Still`), for the answer before and for
  what the request under way has read already, so that answers only go forward.
* `BoxIsSound`, `DrainIsFull`: `BoxSound`, `FullDrain`. That the box is up in exactly the
  minutes of its schedule (`CoveredMinutes`) is arithmetic over a week of any length: of
  `ParseDays`' modular run of days (`RangeParsed`), and of `is_up`, which looks at today's
  windows and at yesterday's that go on past midnight (`EntryCovered`). `DrainInv`: while the
  gate is closed, what is left of the drain makes up for what each page on the box lacks of
  a whole one.
* `EnginesAreTyped`, `SchemaIsSound`: `EnginesTypeOK`, `SchemaSound`.
  `RecentInv`: no engine has run the release of a cached document for at most as long as the
  document has been cached, and one in the hands of a `describe()` is a tick older at most.

* `CapIsFair`: `CapTakesOldest`. `plan_eviction` subtracts one size after another until 90 % of
  the cap are left (`PlanTakesPrefix`): it takes the first *k* of the order, where *k* is the
  least number that leaves enough, or all of them. The theorem needs no hypothesis.
* `LoadIsFaithful`: `LoadFaithful` for any counters. The sums of the groups are the sum of all
  (`SumOfGroups`), and no term of a sum of naturals is more than the sum (`SumAtLeast`).

These two rest on `SumsOf`: the sum that the library folds in an order it chooses is the
sum in any order. An induction theorem cannot be cited with its predicate here; the proofs
take the least number at which a statement fails instead (`LeastOne`, from the
well-foundedness of the naturals), and find a smaller one.

* `SlotsAreKept`, `AllocationIsSound` (small ties): `NotOverfilled` and `RetriedElsewhere`, and
  with the even share `AllocationSound`. A tick counts the free slots once and pages end
  meanwhile, so `RoomInv` counts what a backend runs together with what the plan gives it
  (`Taken`) against the slots that are left. `PlanInv`: a page in the plan runs nowhere, so
  what it avoids stands still. For the even share (`TakenInTurn`): were a backend given a page
  that has one more than its equal, the equal would have been a candidate with a finish one
  page earlier; `OneMorePage` says that no small tolerance makes up for a page. That the chosen
  backend is there at all rests on the scores being positive (`SppPositive`), and this on the
  median of the warm backends being one of them (`RankedBackend`).

### What stays with TLC

* Liveness (`Settles`, `SlotsRepaired`, `LoadsRepaired`, `BatchFinishes`, `CallbackComes`,
  `EveryPageEnds`, `EveryJobEnds`, `CatchesUp`, `CloseEnds`, `Learned`, `ObeysSchedule`,
  `NothingStays`) rests on fairness, which the proof system does not handle.

## 5. Plan

1. Done: the pipeline and its recovery, batches with their abstract promise, events,
   results and retention, dispatch, poll loop, caches, domain sync, engines, shim, box.
2. Done: the safety of the pipeline with one poller, its counters and limits, the retry
   budget with any workers; batches, their promise, archive and counters; the caches, the
   judgement of a submit, the shim, the limiter, the allocation, the emitter, the syncs, the
   poll loop, the waiters; reads of results, the storage cap, `/load`, the box and the engines.
3. Proofs next: action properties that no theorem states yet (what a step of `JobLifecycle`
   may never do).
4. An abstract job specification (queued, running, stored, over; one owner) that
   `JobPipeline` with one poller refines; `OwnerInv` and `DoneInv` are what it would rest on.
5. Modelling that is left: `refresh_backends`, the submit worker's wake-up list, the shim's
   cached list of legacy engines, the paging of `list_jobs` (an offset may skip a job).

## 6. Not modelled

Upload validation, image and ALTO parsing, the parsing of archives, presigned URLs and HTTP
details are pure functions of their input or library calls. The read-only endpoints (status,
lists) are single queries. Telemetry, stage timers and migrations keep no state that the
program reads back. The plain HTTP calls of the client libraries and the benchmarks are not
part of the gateway. Averages of run times are floats; only the order they induce matters,
and small integers stand for it.
