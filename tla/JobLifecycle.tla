---------------------------- MODULE JobLifecycle ----------------------------
(***************************************************************************)
(* JobPipeline together with the cleanup worker (app/workers/cleanup.py):  *)
(* the requeue of lost jobs, the reaper (app/services/reaper.py), the      *)
(* expiry of the job hashes and the rebuild of the counters.               *)
(*                                                                         *)
(* Time is abstract.  A phase deadline may pass at any moment; the orders  *)
(* that the program's own durations exclude are excluded by the guards,    *)
(* each named where it stands.                                             *)
(***************************************************************************)
EXTENDS JobPipeline

CONSTANT
    Rebuilds       \* which counters the heavy cleanup tick (every tenth) rebuilds

ASSUME LifecycleAssumption == Rebuilds \subseteq {"backend", "load"}

-----------------------------------------------------------------------------
\* requeue_lost_jobs: the ids of the queued rows, then one script per job.

OrphanScan(c, j) ==
    /\ At(c, j, "idle") /\ row[j] = "queued"
    /\ Goto(c, j, "orphan") /\ NoFault
    /\ UNCHANGED <<redisVars, row, reports, api, loc>>

\* _REQUEUE_ORPHAN_LUA: queued, in no queue, and not claimed within the grace.
OrphanRequeue(c, j) ==
    /\ At(c, j, "orphan")
    /\ pending' = IF status[j] = "queued" /\ j \notin delayed /\ ~claimed[j]
                  THEN pending \cup {j} ELSE pending
    /\ Finish(c, j) /\ NoFault
    /\ UNCHANGED <<hashVars, counterVars, delayed, inflight, harvest,
                   row, reports, api>>

\* claim_grace_s (300 s) has passed since claimed_at.  It does not run out during
\* a dispatch (the engine client times out after 60 s) or a delayed retry (due
\* within 30 s), nor between the scan and its scripts, which are given the time
\* at which the scan ended.
GraceExpires(j) ==
    /\ claimed[j]
    /\ \A c \in Reapers : ~At(c, j, "orphan")
    /\ j \notin delayed
    /\ \A w \in Submitters : pc[w][j] \in {"idle", "peeked"}
    /\ claimed' = [claimed EXCEPT ![j] = FALSE]
    /\ NoFault
    /\ UNCHANGED <<hash, status, backend, requeues, queueVars, counterVars,
                   row, reports, api, pc, loc>>

-----------------------------------------------------------------------------
\* reap_stale_jobs: active rows past their deadline, less the ones waiting for
\* their harvest; then set_failed (JobPipeline) and the row.

\* Mutant: rows in storing are left to the harvest.
ReapSelectNotStoring(c, j) ==
    /\ At(c, j, "idle") /\ row[j] \in {"queued", "running"} /\ api[j] = "answered"
    /\ Goto(c, j, "reaping") /\ NoFault
    /\ UNCHANGED <<redisVars, row, reports, api, loc>>

\* The queued deadline (900 s) is longer than the submit request.
ReapSelect(c, j) ==
    /\ At(c, j, "idle") /\ row[j] \in Active /\ api[j] = "answered"
    /\ Goto(c, j, "reaping") /\ NoFault
    /\ UNCHANGED <<redisVars, row, reports, api, loc>>

ReapFilter(c, j) ==
    /\ At(c, j, "reaping")
    /\ Goto(c, j, IF j \in harvest THEN "idle" ELSE "sf_read") /\ NoFault
    /\ UNCHANGED <<redisVars, row, reports, api, loc>>

-----------------------------------------------------------------------------
\* The TTL of the job hash outlives both deadlines (get_state_ttl_seconds), so it
\* only runs out on a job that is over, or that waits for its harvest; and never
\* inside a state function, which renews it.
HashExpires(j) ==
    /\ hash[j] # "none"
    /\ row[j] \in Terminal \/ j \in harvest
    /\ \A t \in Tasks : pc[t][j] \in {"idle", "promoting", "peeked", "claimed",
                              "retrying", "accepted", "listed", "checking", "harvesting",
                              "orphan", "reaping"}
    /\ hash' = [hash EXCEPT ![j] = "none"]
    /\ status' = [status EXCEPT ![j] = "absent"]
    /\ backend' = [backend EXCEPT ![j] = NoBackend]
    /\ requeues' = [requeues EXCEPT ![j] = 0]
    /\ claimed' = [claimed EXCEPT ![j] = FALSE]
    /\ NoFault
    /\ UNCHANGED <<queueVars, counterVars, row, reports, api, pc, loc>>

-----------------------------------------------------------------------------
\* The heavy tick's counter repair.

\* Mutant: a backend with nothing in flight is not zeroed.
RebuildBusyBackends ==
    /\ "backend" \in Rebuilds
    /\ slots' = [b \in Backends |->
                   IF \E j \in inflight : backend[j] = b
                   THEN Cardinality({j \in inflight : backend[j] = b}) ELSE slots[b]]
    /\ NoFault
    /\ UNCHANGED <<hashVars, queueVars, loadQueued, loadInflight, pages,
                   row, reports, api, pc, loc>>

\* _REBUILD_BACKEND_COUNTERS_LUA: one script counts and sets every backend.
RebuildBackendCounters ==
    /\ "backend" \in Rebuilds
    /\ slots' = [b \in Backends |-> Cardinality({j \in inflight : backend[j] = b})]
    /\ NoFault
    /\ UNCHANGED <<hashVars, queueVars, loadQueued, loadInflight, pages,
                   row, reports, api, pc, loc>>

\* rebuild_load_counters reads the queues one after the other, counts the jobs
\* whose hash is whole, and swaps the two counters in.
Counted(ids) == Cardinality({j \in ids : hash[j] = "whole"})

RebuildRead ==
    /\ "load" \in Rebuilds
    /\ \/ scan.step = "off" /\ scan' = [NoScan EXCEPT !.step = "delayed", !.pend = pending]
       \/ scan.step = "delayed" /\ scan' = [scan EXCEPT !.step = "inflight", !.dly = delayed]
       \/ scan.step = "inflight" /\ scan' = [scan EXCEPT !.step = "write", !.infl = inflight]
    /\ UNCHANGED <<redisVars, row, reports, api, pc, loc, faults>>

\* Mutant: the queued counter of an empty queue is left as it is.
RebuildWriteNonEmpty ==
    /\ scan.step = "write"
    /\ loadQueued' = IF Counted(scan.pend) + Counted(scan.dly) = 0 THEN loadQueued
                     ELSE Counted(scan.pend) + Counted(scan.dly)
    /\ loadInflight' = Counted(scan.infl)
    /\ scan' = NoScan
    /\ UNCHANGED <<hashVars, queueVars, slots, pages, row, reports, api, pc, loc,
                   faults>>

RebuildWrite ==
    /\ scan.step = "write"
    /\ loadQueued' = Counted(scan.pend) + Counted(scan.dly)
    /\ loadInflight' = Counted(scan.infl)
    /\ scan' = NoScan
    /\ UNCHANGED <<hashVars, queueVars, slots, pages, row, reports, api, pc, loc,
                   faults>>

-----------------------------------------------------------------------------
CleanupStep(c, j) ==
    \/ OrphanScan(c, j) \/ OrphanRequeue(c, j)
    \/ ReapSelect(c, j) \/ ReapFilter(c, j)

LifecycleNext ==
    \/ PipelineNext
    \/ \E c \in Reapers, j \in Jobs : CleanupStep(c, j)
    \/ \E j \in Jobs : GraceExpires(j) \/ HashExpires(j)
    \/ RebuildBackendCounters \/ RebuildRead \/ RebuildWrite

\* A request is answered, a started task goes on (an await returns or raises),
\* the worker loops take the jobs they find, every cleanup tick looks at every
\* stale row, and the TTL of a whole hash runs out when nobody refreshes it (a
\* hash that a late write recreated may have none).
Fairness ==
    /\ \A j \in Jobs :
         /\ WF_vars(Enqueue(j) \/ ApiDies(j))
         /\ \A w \in Submitters : WF_vars(SubmitStep(w, j) \/ SharedStep(w, j))
         /\ \A p \in Pollers : WF_vars(PollStep(p, j) \/ SharedStep(p, j))
         /\ \A h \in Harvesters : WF_vars(HarvestStep(h, j) \/ SharedStep(h, j))
         /\ \A c \in Reapers :
              /\ SF_vars(ReapSelect(c, j))
              /\ WF_vars(OrphanRequeue(c, j) \/ ReapFilter(c, j) \/ SharedStep(c, j))
         /\ WF_vars(hash[j] = "whole" /\ HashExpires(j))
    /\ WF_vars(RebuildBackendCounters)
    /\ WF_vars(RebuildRead \/ RebuildWrite)

LifecycleSpec == Init /\ [][LifecycleNext]_vars
FairLifecycle == LifecycleSpec /\ Fairness

-----------------------------------------------------------------------------
\* Every submitted job ends: whatever crashes, and however long an engine hangs
\* or the storage stays down, its row becomes done or failed (the reaper, the
\* hash TTL, forget_harvests).
Settles == \A j \in Jobs : []<>(row[j] \notin Active)

\* Whatever the crashes and races left behind, the slot counters end up equal to
\* the in-flight jobs of their backends and stay so (rebuild_backend_counters).
SlotsRepaired ==
    <>[](\A b \in Backends : slots[b] = Cardinality(InflightOn(b)))

\* The same for the /load counters (rebuild_load_counters).
LoadsRepaired ==
    <>[](/\ loadQueued = Counted(pending) + Counted(delayed)
         /\ loadInflight = Counted(inflight))
=============================================================================
