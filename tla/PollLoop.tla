------------------------------ MODULE PollLoop ------------------------------
(***************************************************************************)
(* The loop of the poller (app/workers/poller/worker.py): a pass starts    *)
(* the status checks that are due as a background batch with a sliding     *)
(* window, harvests what is ready, and then sleeps until the next deadline *)
(* or until a token on jobs:poll_wakeup wakes it                           *)
(* (app/services/redis_jobs.py).  What a check does to the state of a job  *)
(* in Redis and Postgres is JobPipeline's matter; here it is where the job *)
(* is and when it is looked at again.                                      *)
(*                                                                         *)
(* Time passes only while everybody waits: for an engine, for the storage, *)
(* or for the wake-up.                                                     *)
(***************************************************************************)
EXTENDS Integers, Sequences, FiniteSets

CONSTANTS
    Jobs,
    PollConcurrency,     \* poller_poll_concurrency
    HarvestConcurrency,  \* poller_harvest_concurrency
    PollerTick,          \* poller_tick_seconds
    BackoffInitial, BackoffMax,    \* poll_backoff_initial, poll_backoff_max
    HarvestBackoff,      \* the longest delay of a harvest that is tried again
    CheckMax,            \* ticks that an engine or the storage takes to answer
    RequeueLimit,        \* max_requeues
    MaxRuns,             \* how often an engine may say that it is still at work
    MaxTroubles          \* failed checks, storage errors, restarts

ASSUME PollAssumption ==
    /\ IsFiniteSet(Jobs)
    /\ {PollConcurrency, HarvestConcurrency, PollerTick, BackoffInitial} \subseteq Nat \ {0}
    /\ {BackoffMax, HarvestBackoff, CheckMax, RequeueLimit, MaxRuns, MaxTroubles} \subseteq Nat
    /\ BackoffInitial <= BackoffMax /\ PollerTick <= BackoffInitial

VARIABLES
    place,       \* per job: "new", "joined" (jobs:inflight, not signalled yet), "inflight",
                 \* "storing" (jobs:pending_harvest) or "ended"
    tries,       \* per job: requeues
    runs,        \* per job: how often its engine has been found at work
    pollIn,      \* per job: ticks until next_poll_at, 0 when it is due
    gap,         \* per job: next_poll_at - last_poll
    late,        \* per job: how long it has been due with the loop asleep and no batch running
    harvestIn,   \* per job: ticks until its score in jobs:pending_harvest
    line,        \* jobs:pending_harvest, by score
    token,       \* jobs:poll_wakeup is not empty
    loop,        \* "pass", "harvest", "harvesting", "wait", "drain", "finish", "stopped"
    soonest,     \* the first of pending_deadlines, or NoDeadline
    left,        \* of the BLPOP's timeout
    skipped,     \* this pass has found a batch still running, or its own has failed
    task,        \* poll_task: "none", "running" or "ended"
    todo, checks,  \* of the batch: jobs not begun, status checks under way
    asked,       \* per job: for how long its status check has been under way
    harvests,    \* the jobs of the gather of _harvest_due
    hage,        \* and for how long it has been under way
    released,    \* released_since_harvest
    stopping,    \* the stop event
    troubles

batchVars == <<task, todo, checks, asked>>
timeVars == <<runs, pollIn, gap, late, harvestIn>>
loopVars == <<loop, soonest, left, skipped, harvests, hage, released, stopping>>
pollVars == <<place, tries, timeVars, line, token, loopVars, batchVars, troubles>>

NoDeadline == -1
Lower(a, b) == IF a < b THEN a ELSE b
Higher(a, b) == IF a > b THEN a ELSE b
InFlight == {j \in Jobs : place[j] \in {"joined", "inflight"}}
DueJobs == {j \in InFlight : pollIn[j] = 0}
Trouble == troubles < MaxTroubles /\ troubles' = troubles + 1

PollInit ==
    /\ place = [j \in Jobs |-> "new"] /\ tries = [j \in Jobs |-> 0]
    /\ runs = [j \in Jobs |-> 0] /\ pollIn = [j \in Jobs |-> 0] /\ gap = [j \in Jobs |-> 0] /\ late = [j \in Jobs |-> 0]
    /\ harvestIn = [j \in Jobs |-> 0] /\ line = <<>> /\ token = FALSE
    /\ loop = "pass" /\ soonest = NoDeadline /\ left = 0 /\ skipped = FALSE
    /\ task = "none" /\ todo = {} /\ checks = {} /\ asked = [j \in Jobs |-> 0]
    /\ harvests = {} /\ hage = 0 /\ released = 0 /\ stopping = FALSE /\ troubles = 0

Down(n) == IF n > 0 THEN n - 1 ELSE n

PollTick ==
    /\ loop = "wait" => left > 0 /\ ~token
    /\ loop \in {"wait", "harvesting", "finish"}
    /\ task = "running" => checks # {}
    /\ \A j \in checks : asked[j] < CheckMax
    /\ harvests # {} => hage < CheckMax
    /\ loop = "finish" => task = "running"
    /\ pollIn' = [j \in Jobs |-> Down(pollIn[j])] /\ harvestIn' = [j \in Jobs |-> Down(harvestIn[j])]
    /\ late' = [j \in Jobs |-> IF j \in DueJobs /\ loop = "wait" /\ task # "running"
                               THEN Lower(late[j] + 1, PollerTick + 1) ELSE late[j]]
    /\ asked' = [j \in Jobs |-> IF j \in checks THEN asked[j] + 1 ELSE 0]
    /\ hage' = IF harvests # {} THEN hage + 1 ELSE 0
    /\ left' = Down(left) /\ soonest' = Down(soonest)
    /\ UNCHANGED <<place, tries, runs, gap, line, token, loop, skipped, task, todo, checks,
                   harvests, released, stopping, troubles>>

-----------------------------------------------------------------------------
\* The submit worker

\* set_running: the job joins jobs:inflight, with its first deadline ...
Join(j) ==
    /\ place[j] = "new" /\ place' = [place EXCEPT ![j] = "joined"]
    /\ pollIn' = [pollIn EXCEPT ![j] = BackoffInitial] /\ gap' = [gap EXCEPT ![j] = 0]
    /\ UNCHANGED <<tries, runs, late, harvestIn, line, token, loopVars, batchVars, troubles>>

\* ... and signal_poll pushes a token.
SignalPoll(j) ==
    /\ place[j] = "joined" /\ place' = [place EXCEPT ![j] = "inflight"] /\ token' = TRUE
    /\ UNCHANGED <<tries, timeVars, line, loopVars, batchVars, troubles>>

-----------------------------------------------------------------------------
\* run_pass

\* _collect_polls and _start_polls: no second batch while one is running; the window
\* of the new one is filled.
Filled(S, W) ==
    {w \in SUBSET S : W \subseteq w /\ Cardinality(w) = Lower(Cardinality(S), PollConcurrency)}
StartPolls ==
    /\ skipped' = FALSE
    /\ task' = IF DueJobs = {} THEN "none" ELSE "running"
    /\ \E w \in Filled(DueJobs, {}) : checks' = w /\ todo' = DueJobs \ w
    /\ late' = [j \in Jobs |-> IF j \in DueJobs THEN 0 ELSE late[j]]
    /\ asked' = [j \in Jobs |-> 0]
    /\ LET ahead == {pollIn[j] : j \in InFlight \ DueJobs}
       IN IF ahead = {} THEN soonest' = NoDeadline
          ELSE \E n \in ahead : soonest' = n /\ \A m \in ahead : n <= m
Skip ==
    /\ skipped' = TRUE /\ soonest' = NoDeadline
    /\ UNCHANGED <<late, task, todo, checks, asked>>
CollectPolls == task # "running"

PassStarts ==
    /\ loop = "pass" /\ ~stopping /\ loop' = "harvest"
    /\ IF CollectPolls THEN StartPolls ELSE Skip
    /\ UNCHANGED <<place, tries, runs, pollIn, gap, harvestIn, line, token, left,
                   harvests, hage, released, stopping, troubles>>

\* _harvest_due: what is due, soonest first, as many as were released since the last
\* time and at least twice the concurrency; the pass waits for all of them.
HarvestLimitReleased == released
HarvestLimit == Higher(2 * HarvestConcurrency, released)
RipeFirst ==
    {line[i] : i \in {i \in 1..Lower(Len(line), HarvestLimit) : harvestIn[line[i]] = 0}}
HarvestDue ==
    /\ loop = "harvest" /\ RipeFirst # {} /\ loop' = "harvesting"
    /\ harvests' = RipeFirst /\ released' = 0 /\ hage' = 0
    /\ UNCHANGED <<place, tries, timeVars, line, token, soonest, left, skipped, stopping,
                   batchVars, troubles>>

\* ZREM; ZADD with the score d, behind those that come no later.
Without(s, j) ==
    LET k == CHOOSE k \in 1..Len(s) : s[k] = j
    IN SubSeq(s, 1, k - 1) \o SubSeq(s, k + 1, Len(s))
Queued(s, j, d) ==
    \E k \in 0..Len(s) :
       /\ \A i \in 1..Len(s) : i <= k <=> harvestIn[s[i]] <= d
       /\ line' = SubSeq(s, 1, k) \o <<j>> \o SubSeq(s, k + 1, Len(s))

\* harvest: the results are stored, or the job fails for good.
HarvestEnds(j) ==
    /\ j \in harvests /\ harvests' = harvests \ {j}
    /\ place' = [place EXCEPT ![j] = "ended"] /\ line' = Without(line, j)
    /\ UNCHANGED <<tries, timeVars, token, loop, soonest, left, skipped, hage, released,
                   stopping, batchVars, troubles>>

\* A transient error: reschedule_harvest, after any delay of the full-jitter backoff.
HarvestAgain(j) ==
    /\ j \in harvests /\ harvests' = harvests \ {j}
    /\ Trouble
    /\ \E d \in 0..HarvestBackoff :
          /\ harvestIn' = [harvestIn EXCEPT ![j] = d]
          /\ Queued(Without(line, j), j, d)
    /\ UNCHANGED <<place, tries, runs, pollIn, gap, late, token, loop, soonest, left, skipped,
                   hage, released, stopping, batchVars>>

-----------------------------------------------------------------------------
\* The wait

\* next_poll_timeout and _wait_timeout.
PollTimeout == IF soonest = NoDeadline THEN PollerTick ELSE Lower(PollerTick, soonest)
WaitTimeout == IF line = <<>> THEN PollTimeout ELSE Lower(PollTimeout, harvestIn[Head(line)])

\* wait_for_poll_signal: a timeout of zero would block for ever, so there is no wait.
Waits(timeout, cleared) ==
    /\ \/ loop = "harvest" /\ RipeFirst = {}
       \/ loop = "harvesting" /\ harvests = {}
    /\ left' = timeout /\ loop' = IF timeout = 0 THEN "pass" ELSE "wait"
    /\ token' = (token /\ ~cleared) /\ soonest' = NoDeadline /\ hage' = 0 /\ released' = 0
    /\ UNCHANGED <<place, tries, timeVars, line, skipped, harvests, stopping, batchVars, troubles>>
WaitStartsCleared == Waits(WaitTimeout, TRUE)
WaitStarts == Waits(WaitTimeout, FALSE)

\* BLPOP returns with a token, or without one; then the list is deleted, with what was
\* pushed in between.
Wakes ==
    /\ loop = "wait" /\ (token \/ left = 0) /\ loop' = "drain"
    /\ UNCHANGED <<place, tries, timeVars, line, token, soonest, left, skipped, harvests,
                   hage, released, stopping, batchVars, troubles>>

DrainTokens ==
    /\ loop = "drain" /\ token' = FALSE /\ left' = 0 /\ loop' = "pass"
    /\ UNCHANGED <<place, tries, timeVars, line, soonest, skipped, harvests, hage, released,
                   stopping, batchVars, troubles>>

-----------------------------------------------------------------------------
\* drain_poll_queue, the background batch

\* app/services/retry_policy.py; 0 stands for a status that nobody knows.
Codes == {0, 404, 422, 429, 500}
RetryableDispatchError(code) == code >= 500 \/ code \in {408, 429}
RetryablePollError(code) == RetryableDispatchError(code) \/ code = 404
RetryableEngineFailure(code) == code = 0 \/ code >= 500

\* check_one: what the engine says, or how it could not be asked.
Outcome(status, retryable) == [status |-> status, retryable |-> retryable]
StillRunning == {Outcome("running", FALSE)}
Outcomes ==
    {Outcome("done", FALSE)} \cup {Outcome("failed", RetryableEngineFailure(c)) : c \in Codes}
BadOutcomes ==
    {Outcome("unreachable", TRUE)} \cup {Outcome("error", RetryablePollError(c)) : c \in Codes \ {0}}

\* classify_poll_result
Classify(o, requeues) ==
    IF o.status = "done" THEN "harvest"
    ELSE IF o.status = "running" THEN "running"
    ELSE IF o.retryable /\ requeues < RequeueLimit THEN "requeue"
    ELSE "fail"

\* next_poll_delay: double the last gap, within its limits.
NextPollDelay(j) == Lower(Higher(2 * gap[j], BackoffInitial), BackoffMax)

\* A completed check frees its slot at once, unless the poller is stopping.
SlotFreed(j) ==
    /\ j \in checks /\ asked' = [asked EXCEPT ![j] = 0]
    /\ IF stopping \/ todo = {}
       THEN checks' = checks \ {j} /\ UNCHANGED todo
       ELSE \E i \in todo : checks' = (checks \ {j}) \cup {i} /\ todo' = todo \ {i}
    /\ UNCHANGED task
Forgotten(f, j) == [f EXCEPT ![j] = 0]

\* process_chunk.  release_done, and the loop is woken for the harvest.
ProcessDone(j) ==
    /\ place' = [place EXCEPT ![j] = "storing"] /\ token' = TRUE
    /\ Queued(line, j, 0)
    /\ runs' = Forgotten(runs, j) /\ pollIn' = Forgotten(pollIn, j) /\ gap' = Forgotten(gap, j)
    /\ released' = released + 1
    /\ UNCHANGED <<tries, late, harvestIn, loop, soonest, left, skipped, harvests, hage, stopping>>

\* _schedule_next_poll
ProcessRunning(j) ==
    /\ runs[j] < MaxRuns /\ runs' = [runs EXCEPT ![j] = @ + 1]
    /\ gap' = [gap EXCEPT ![j] = NextPollDelay(j)]
    /\ pollIn' = [pollIn EXCEPT ![j] = NextPollDelay(j)]
    /\ UNCHANGED <<place, tries, late, harvestIn, line, token, loopVars>>

\* _fail_polled and _requeue
ProcessFailed(j, action) ==
    /\ place' = [place EXCEPT ![j] = IF action = "fail" THEN "ended" ELSE "new"]
    /\ tries' = [tries EXCEPT ![j] = IF action = "fail" THEN @ ELSE @ + 1]
    /\ runs' = Forgotten(runs, j) /\ pollIn' = Forgotten(pollIn, j) /\ gap' = Forgotten(gap, j)
    /\ UNCHANGED <<late, harvestIn, line, token, loopVars>>

CheckGives(j, outcomes) ==
    /\ SlotFreed(j)
    /\ \E action \in {Classify(o, tries[j]) : o \in outcomes} :
          \/ action = "harvest" /\ ProcessDone(j)
          \/ action = "running" /\ ProcessRunning(j)
          \/ action \in {"fail", "requeue"} /\ ProcessFailed(j, action)
CheckRuns(j) == CheckGives(j, StillRunning) /\ UNCHANGED troubles
CheckEnds(j) == CheckGives(j, Outcomes) /\ UNCHANGED troubles
CheckGoesWrong(j) == CheckGives(j, BadOutcomes) /\ Trouble

BatchEnds ==
    /\ task = "running" /\ checks = {} /\ task' = "ended" /\ todo' = {}
    /\ UNCHANGED <<place, tries, timeVars, line, token, loopVars, checks, asked, troubles>>

\* Processing raises: the remaining checks are cancelled, and their jobs are still due.
BatchFails ==
    /\ Trouble /\ task = "running" /\ checks # {}
    /\ task' = "ended" /\ todo' = {} /\ checks' = {} /\ skipped' = TRUE
    /\ asked' = [j \in Jobs |-> 0]
    /\ UNCHANGED <<place, tries, timeVars, line, token, loop, soonest, left, harvests, hage,
                   released, stopping>>

-----------------------------------------------------------------------------
\* SIGTERM, and the next poller

StopRequested ==
    /\ Trouble /\ ~stopping /\ loop # "stopped" /\ stopping' = TRUE
    /\ UNCHANGED <<place, tries, timeVars, line, token, loop, soonest, left, skipped, harvests,
                   hage, released, batchVars>>

LeaveLoop ==
    /\ loop = "pass" /\ stopping /\ loop' = "finish"
    /\ UNCHANGED <<place, tries, timeVars, line, token, soonest, left, skipped, harvests, hage,
                   released, stopping, batchVars, troubles>>

\* _finish_polls: the batch is let finish.
FinishPolls ==
    /\ loop = "finish" /\ task # "running" /\ loop' = "stopped"
    /\ UNCHANGED <<place, tries, timeVars, line, token, soonest, left, skipped, harvests, hage,
                   released, stopping, batchVars, troubles>>

Fresh ==
    /\ loop' = "pass" /\ soonest' = NoDeadline /\ left' = 0 /\ skipped' = FALSE
    /\ harvests' = {} /\ hage' = 0 /\ released' = 0 /\ stopping' = FALSE
    /\ task' = "none" /\ todo' = {} /\ checks' = {} /\ asked' = [j \in Jobs |-> 0]
    /\ UNCHANGED <<place, tries, timeVars, line, token>>
PollerStarts == loop = "stopped" /\ Fresh /\ UNCHANGED troubles
PollerKilled == Trouble /\ loop # "stopped" /\ Fresh

-----------------------------------------------------------------------------
LoopStep ==
    PassStarts \/ HarvestDue \/ WaitStarts \/ Wakes \/ DrainTokens
    \/ LeaveLoop \/ FinishPolls \/ PollerStarts

PollNext ==
    \/ PollTick \/ BatchEnds \/ BatchFails \/ StopRequested \/ PollerKilled
    \/ PassStarts \/ HarvestDue \/ WaitStarts \/ Wakes \/ DrainTokens
    \/ LeaveLoop \/ FinishPolls \/ PollerStarts
    \/ \E j \in Jobs :
          \/ Join(j) \/ SignalPoll(j) \/ HarvestEnds(j) \/ HarvestAgain(j)
          \/ CheckRuns(j) \/ CheckEnds(j) \/ CheckGoesWrong(j)

PollSpec == PollInit /\ [][PollNext]_pollVars

\* The event loop runs what is ready, the clock goes on, engines and the storage answer.
JobGoesOn(j) == CheckRuns(j) \/ CheckEnds(j) \/ HarvestEnds(j)
PollFairness ==
    /\ WF_pollVars(PollTick) /\ WF_pollVars(LoopStep) /\ WF_pollVars(BatchEnds)
    /\ \A j \in Jobs : WF_pollVars(JobGoesOn(j))

-----------------------------------------------------------------------------
\* The variables keep their types; the gap between two checks of a job stays within
\* the limits of the backoff, and a job that waits for its harvest is in line once.
PollTypeOK ==
    /\ place \in [Jobs -> {"new", "joined", "inflight", "storing", "ended"}]
    /\ tries \in [Jobs -> 0..RequeueLimit]
    /\ runs \in [Jobs -> 0..MaxRuns] /\ pollIn \in [Jobs -> 0..BackoffMax] /\ gap \in [Jobs -> {0} \cup BackoffInitial..BackoffMax]
    /\ late \in [Jobs -> 0..(PollerTick + 1)] /\ harvestIn \in [Jobs -> 0..HarvestBackoff]
    /\ \A j \in Jobs : Cardinality({i \in 1..Len(line) : line[i] = j}) = IF place[j] = "storing" THEN 1 ELSE 0
    /\ {token, skipped, stopping} \subseteq BOOLEAN
    /\ loop \in {"pass", "harvest", "harvesting", "wait", "drain", "finish", "stopped"}
    /\ soonest \in {NoDeadline} \cup 0..BackoffMax /\ left \in 0..BackoffMax
    /\ task \in {"none", "running", "ended"} /\ todo \subseteq Jobs /\ checks \subseteq Jobs
    /\ asked \in [Jobs -> 0..CheckMax] /\ harvests \subseteq Jobs /\ hage \in 0..CheckMax
    /\ released \in 0..Cardinality(Jobs) /\ troubles \in 0..MaxTroubles

\* While the loop sleeps and no batch runs, the first check of a dispatched job is never
\* due before the wake-up, unless the last pass found a batch still running or its batch
\* failed: no token is lost between the look at jobs:inflight, the BLPOP and the DELETE.
WakesInTime ==
    loop = "wait" /\ ~token /\ task # "running" /\ ~skipped /\ ~stopping
        => \A j \in Jobs : place[j] = "inflight" /\ gap[j] = 0 => left <= pollIn[j]

\* In any case sleep delays a status check that is due by no more than one
\* poller_tick_seconds, whether a token was lost, spent on a pass with a running batch,
\* or never pushed.
OnTime == \A j \in Jobs : late[j] <= PollerTick

\* A poller that has stopped on SIGTERM has cut off nothing: no check and no
\* harvest was under way.
StopsCleanly == loop = "stopped" => checks = {} /\ harvests = {}

\* The poller sleeps only while nothing is due, and stops only when nothing is running.
PollSound == PollTypeOK /\ WakesInTime /\ OnTime /\ StopsCleanly

\* Every job that an engine has taken is looked at, and its results are asked for, until
\* it is stored, fails or is requeued: over failed batches and harvests and restarts of
\* the poller.
EveryJobEnds ==
    \A j \in Jobs : []<>(place[j] \in {"new", "ended"})
=============================================================================
