------------------------------ MODULE Dispatch ------------------------------
(***************************************************************************)
(* Which backend a queued job goes to: a tick of the submit worker         *)
(* (app/workers/submit/worker.py) goes through the priority tiers of its   *)
(* healthy backends, peeks as many jobs as a tier has room for and gives   *)
(* each to the backend that would finish it first                          *)
(* (app/workers/submit/steps.py), by the speed and the failures measured   *)
(* so far (app/services/perf.py).  Meanwhile pages finish and fail.        *)
(*                                                                         *)
(* Seconds per megapixel, megapixels and penalties are small integers; a   *)
(* moving average is any value its samples allow.  One submit worker; the  *)
(* claim's races are JobPipeline's.                                        *)
(***************************************************************************)
EXTENDS Integers, FiniteSets, Functions

CONSTANTS
    Pages,          \* 1..n, in the order of the queue
    DomainOf, BatchOf, Megapixels,           \* of a page
    Backends, MaxInflight, TierOf, Serving,  \* Serving: the domains it serves
    Position,       \* the place of a backend in the worker's list
    Speeds,         \* seconds per megapixel
    Fallback,       \* of a domain nobody has measured
    ColdSamples,    \* COLD_SAMPLES
    MaxPenalty,     \* MAX_PENALTY, in quarters; a backend without failures has 4
    Tolerance,      \* affinity_tolerance in percent
    UnstoredMax,    \* unstored_job_max
    MaxRequeues, MaxOutages, NoBatch,
    Parallel        \* a common multiple of all max_inflight: the unit of finish times

PageStates == {"queued", "reaped", "gone", "done", "failed"}

ASSUME DispatchAssumption ==
    /\ IsFiniteSet(Pages) /\ Pages = 1..Cardinality(Pages) /\ Megapixels \in [Pages -> Nat \ {0}]
    /\ IsFiniteSet(Backends) /\ Backends \cap PageStates = {}
    /\ MaxInflight \in [Backends -> Nat \ {0}] /\ TierOf \in [Backends -> Nat]
    /\ Position \in [Backends -> Nat] /\ \A b, c \in Backends : Position[b] = Position[c] => b = c
    /\ Speeds \cup {Fallback} \subseteq Nat \ {0} /\ {Tolerance, UnstoredMax, ColdSamples} \subseteq Nat
    /\ MaxPenalty \in Nat /\ MaxPenalty >= 4 /\ {MaxRequeues, MaxOutages} \subseteq Nat
    /\ Parallel \in Nat \ {0} /\ \A b \in Backends : Parallel % MaxInflight[b] = 0

VARIABLES
    where,     \* per page: "queued", its backend, "done", "failed"; "reaped" and then
               \* "gone" (its hash too) while a failed page is still in its queue
    avoid,     \* per page: avoid_backends
    requeues,  \* per page
    spp,       \* per backend: the moving average
    samples,   \* per backend: how many pages it is over, up to ColdSamples
    penalty,   \* per backend, in quarters
    tick,      \* of the submit worker: its tiers, their slots (free, inflight, assigned,
               \* batches), the peeked jobs, the plan and the storage budget left
    outages

dispatchVars == <<where, avoid, requeues, spp, samples, penalty, tick, outages>>

NoTick == [at |-> "idle", tiers |-> {}, up |-> {}, free |-> <<>>, inflight |-> <<>>,
           assigned |-> <<>>, batches |-> {}, window |-> {}, plan |-> {}, start |-> 0, left |-> 0]
Pending == {p \in Pages : where[p] \in {"queued", "reaped", "gone"}}
RunningOn(b) == {p \in Pages : where[p] = b}
Inflight == {p \in Pages : where[p] \in Backends}
Above(n, m) == IF n > m THEN n - m ELSE 0

DispatchInit ==
    /\ where = [p \in Pages |-> "queued"] /\ avoid = [p \in Pages |-> {}]
    /\ requeues = [p \in Pages |-> 0]
    /\ spp \in [Backends -> Speeds] /\ samples = [b \in Backends |-> 0]
    /\ penalty = [b \in Backends |-> 4]
    /\ tick = NoTick /\ outages = 0

-----------------------------------------------------------------------------
\* app/services/perf.py

\* penalize and ease, on quarters.
Penalize(p) == IF (3 * p) \div 2 < MaxPenalty THEN (3 * p) \div 2 ELSE MaxPenalty
Ease(p) == IF (2 * p) \div 3 > 4 THEN (2 * p) \div 3 ELSE 4

Warm(b) == samples[b] >= ColdSamples
Faster(b, c) == spp[b] < spp[c] \/ (spp[b] = spp[c] /\ Position[b] < Position[c])
Ranked(S, n) == CHOOSE b \in S : Cardinality({c \in S : Faster(c, b)}) = n - 1
TwiceMedian(S) ==
    LET n == Cardinality(S) IN spp[Ranked(S, (n + 1) \div 2)] + spp[Ranked(S, (n + 2) \div 2)]

\* effective_spp of a backend of the tier, in eighths: a cold one borrows the median
\* of the others that are warm.
EffectiveSpp(tier, b) ==
    penalty[b] * LET others == {c \in tier \ {b} : Warm(c)}
                 IN IF Warm(b) THEN 2 * spp[b]
                    ELSE IF others # {} THEN TwiceMedian(others)
                    ELSE IF samples[b] > 0 THEN 2 * spp[b]
                    ELSE 2 * Fallback

-----------------------------------------------------------------------------
\* A tick of the submit worker

\* _eligible_slots and _dispatch_budget: the healthy backends with what they run, and
\* how many jobs may be dispatched before the results waiting for storage hit the limit.
TickStart(up) ==
    /\ tick.at = "idle"
    /\ IF up = Backends THEN UNCHANGED outages ELSE outages < MaxOutages /\ outages' = outages + 1
    /\ tick' = [NoTick EXCEPT !.at = "tiers", !.tiers = {TierOf[b] : b \in up}, !.up = up,
                  !.inflight = [b \in Backends |-> Cardinality(RunningOn(b))],
                  !.free = [b \in Backends |-> Above(MaxInflight[b], Cardinality(RunningOn(b)))],
                  !.assigned = [b \in Backends |-> 0], !.batches = {<<where[p], BatchOf[p]>> : p \in Inflight},
                  !.left = Above(UnstoredMax, Cardinality(Inflight))]
    /\ UNCHANGED <<where, avoid, requeues, spp, samples, penalty>>

Tier == CHOOSE t \in tick.tiers : \A u \in tick.tiers : u <= t
Slots == {b \in tick.up : TierOf[b] = Tier}
Room == SumFunctionOnSet(tick.free, Slots)
Capacity == IF Room < tick.left THEN Room ELSE tick.left

TickEnds ==
    /\ tick.at = "tiers"
    /\ IF tick.tiers = {} \/ tick.left <= 0 THEN TRUE ELSE Capacity > 0 /\ Pending = {}
    /\ tick' = NoTick
    /\ UNCHANGED <<where, avoid, requeues, spp, samples, penalty, outages>>

\* This tier is full; a lower one may still have room.
TierFull ==
    /\ tick.at = "tiers" /\ tick.tiers # {} /\ tick.left > 0 /\ Capacity = 0
    /\ tick' = [tick EXCEPT !.tiers = @ \ {Tier}]
    /\ UNCHANGED <<where, avoid, requeues, spp, samples, penalty, outages>>

\* peek_pending and _queued_states: the oldest jobs the tier has room for; those whose
\* hash is gone are dropped from the queue.
FirstPending == {p \in Pending : Cardinality({q \in Pending : q < p}) < Capacity}
DroppedNever(p) == FALSE
Dropped(p) == where[p] = "gone"
TierPeek ==
    /\ tick.at = "tiers" /\ tick.tiers # {} /\ tick.left > 0 /\ Capacity > 0 /\ Pending # {}
    /\ where' = [p \in Pages |-> IF p \in FirstPending /\ Dropped(p) THEN "failed" ELSE where[p]]
    /\ tick' = [tick EXCEPT !.at = "scores", !.window = {p \in FirstPending : where[p] # "gone"}]
    /\ UNCHANGED <<avoid, requeues, spp, samples, penalty, outages>>

\* _allocate: the scores of this moment.
TierScores ==
    /\ tick.at = "scores"
    /\ tick' = [tick EXCEPT !.at = "allocate", !.start = 0]
    /\ UNCHANGED <<where, avoid, requeues, spp, samples, penalty, outages>>

-----------------------------------------------------------------------------
\* allocate_scored (app/workers/submit/steps.py), one job of the window at a time and
\* nothing else in between: it awaits nothing, and the scores have been read before it.

CanServe(b, p) == DomainOf[p] \in Serving[b]
AllowAvoidedFree(p) == \A b \in Slots : CanServe(b, p) /\ tick.free[b] > 0 => b \in avoid[p]
AllowAvoided(p) == \A b \in Slots : CanServe(b, p) => b \in avoid[p]
Candidates(p) ==
    {b \in Slots : CanServe(b, p) /\ tick.free[b] > 0 /\ (AllowAvoided(p) \/ b \notin avoid[p])}

\* expected_finish, in units of one over Parallel.
ExpectedFinish(b, p) ==
    (tick.inflight[b] + tick.assigned[b] + 1) * EffectiveSpp(Slots, b) * Megapixels[p]
        * (Parallel \div MaxInflight[b])

\* The backends with the earliest finish, those within the tolerance of it, and among
\* these the ones that run pages of the batch; finish is a function on the candidates.
Best(finish, S) == {b \in S : \A c \in S : finish[b] <= finish[c]}
Near(finish) ==
    {b \in DOMAIN finish : \A c \in DOMAIN finish : 100 * finish[b] <= finish[c] * (100 + Tolerance)}
TiePool(finish, p) ==
    LET affine == {b \in Near(finish) : BatchOf[p] # NoBatch /\ <<b, BatchOf[p]>> \in tick.batches}
    IN Best(finish, IF affine # {} THEN affine ELSE DOMAIN finish)

\* Exact ties rotate, starting after the last backend chosen.
Order(b) == Cardinality({c \in Slots : Position[c] < Position[b]})
Turn(b) == (Order(b) - tick.start) % Cardinality(Slots)
Chosen(p, finish) ==
    CHOOSE b \in TiePool(finish, p) : \A c \in TiePool(finish, p) : Turn(b) <= Turn(c)

NextJob == CHOOSE p \in tick.window : \A q \in tick.window : p <= q
PlaceJob ==
    /\ tick.at = "allocate" /\ tick.window # {} /\ Candidates(NextJob) # {}
    /\ LET p == NextJob
       IN \E b \in {Chosen(p, [c \in Candidates(p) |-> ExpectedFinish(c, p)])} :
              tick' = [tick EXCEPT !.window = @ \ {p}, !.plan = @ \cup {<<p, b>>},
                         !.free[b] = @ - 1, !.assigned[b] = @ + 1,
                         !.batches = IF BatchOf[p] = NoBatch THEN @ ELSE @ \cup {<<b, BatchOf[p]>>},
                         !.start = (Order(b) + 1) % Cardinality(Slots)]
    /\ UNCHANGED <<where, avoid, requeues, spp, samples, penalty, outages>>

\* A job without a candidate is left out and stays queued.
LeaveOut ==
    /\ tick.at = "allocate" /\ tick.window # {} /\ Candidates(NextJob) = {}
    /\ tick' = [tick EXCEPT !.window = @ \ {NextJob}]
    /\ UNCHANGED <<where, avoid, requeues, spp, samples, penalty, outages>>

AllocateReturns ==
    /\ tick.at = "allocate" /\ tick.window = {} /\ tick' = [tick EXCEPT !.at = "claim"]
    /\ UNCHANGED <<where, avoid, requeues, spp, samples, penalty, outages>>

\* The jobs are claimed and dispatched; the next tier may use what is left.
TierDispatch ==
    /\ tick.at = "claim"
    /\ where' = [p \in Pages |-> IF \E b \in Backends : <<p, b>> \in tick.plan
                                 THEN CHOOSE b \in Backends : <<p, b>> \in tick.plan ELSE where[p]]
    /\ tick' = [tick EXCEPT !.at = "tiers", !.tiers = @ \ {Tier}, !.plan = {},
                            !.left = @ - Cardinality(tick.plan)]
    /\ UNCHANGED <<avoid, requeues, spp, samples, penalty, outages>>

-----------------------------------------------------------------------------
\* The engines, the poller and the reaper

\* A page finishes: record_service.
PageDone(p) ==
    /\ where[p] \in Backends /\ tick.at # "allocate"
    /\ LET b == where[p]
       IN /\ \E v \in Speeds : spp' = [spp EXCEPT ![b] = v]
          /\ samples' = [samples EXCEPT ![b] = IF @ < ColdSamples THEN @ + 1 ELSE @]
          /\ penalty' = [penalty EXCEPT ![b] = Ease(@)]
    /\ where' = [where EXCEPT ![p] = "done"]
    /\ UNCHANGED <<avoid, requeues, tick, outages>>

\* An attempt fails for the backend's fault and is retried elsewhere (the delay of
\* the retry is JobPipeline's): record_failure, and the backend is avoided.
PageRetried(p) ==
    /\ where[p] \in Backends /\ tick.at # "allocate" /\ requeues[p] < MaxRequeues
    /\ where' = [where EXCEPT ![p] = "queued"]
    /\ requeues' = [requeues EXCEPT ![p] = @ + 1]
    /\ avoid' = [avoid EXCEPT ![p] = @ \cup {where[p]}]
    /\ penalty' = [penalty EXCEPT ![where[p]] = Penalize(@)]
    /\ UNCHANGED <<spp, samples, tick, outages>>

\* It fails for good, the page's fault or after its last retry (counts_against_backend).
PageFailed(p) ==
    /\ where[p] \in Backends /\ tick.at # "allocate"
    /\ \E fault \in BOOLEAN :
          /\ ~fault \/ requeues[p] >= MaxRequeues
          /\ penalty' = IF fault THEN [penalty EXCEPT ![where[p]] = Penalize(@)] ELSE penalty
    /\ where' = [where EXCEPT ![p] = "failed"]
    /\ UNCHANGED <<avoid, requeues, spp, samples, tick, outages>>

\* The reaper fails a job that has been queued for too long, and leaves it in its
\* queue until its hash has expired.  A job that some backend serves does not wait so long.
ReapQueued(p) ==
    /\ where[p] = "queued" /\ \A b \in Backends : ~CanServe(b, p)
    /\ where' = [where EXCEPT ![p] = "reaped"]
    /\ UNCHANGED <<avoid, requeues, spp, samples, penalty, tick, outages>>
StateExpires(p) ==
    /\ where[p] = "reaped" /\ where' = [where EXCEPT ![p] = "gone"]
    /\ UNCHANGED <<avoid, requeues, spp, samples, penalty, tick, outages>>

-----------------------------------------------------------------------------
DispatchNext ==
    \/ \E up \in SUBSET Backends : TickStart(up)
    \/ TickEnds \/ TierFull \/ TierPeek \/ TierScores
    \/ PlaceJob \/ LeaveOut \/ AllocateReturns \/ TierDispatch
    \/ \E p \in Pages :
          PageDone(p) \/ PageRetried(p) \/ PageFailed(p) \/ ReapQueued(p) \/ StateExpires(p)

DispatchSpec == DispatchInit /\ [][DispatchNext]_dispatchVars

\* The submit loop goes on (its tick is the floor of its wait), some page on an engine
\* ends, the reaper runs and hashes expire.
WorkerGoesOn ==
    TickStart(Backends) \/ TickEnds \/ TierFull \/ TierPeek \/ TierScores
    \/ PlaceJob \/ LeaveOut \/ AllocateReturns \/ TierDispatch
SomePageEnds == \E p \in Pages : PageDone(p) \/ PageFailed(p)
ReaperGoesOn == \E p \in Pages : ReapQueued(p) \/ StateExpires(p)
DispatchFairness ==
    WF_dispatchVars(WorkerGoesOn) /\ WF_dispatchVars(SomePageEnds) /\ WF_dispatchVars(ReaperGoesOn)

-----------------------------------------------------------------------------
\* The variables keep their types; a penalty is never below that of a backend without
\* failures nor above the maximum.
DispatchTypeOK ==
    /\ where \in [Pages -> Backends \cup PageStates]
    /\ avoid \in [Pages -> SUBSET Backends] /\ requeues \in [Pages -> 0..MaxRequeues]
    /\ spp \in [Backends -> Speeds] /\ samples \in [Backends -> 0..ColdSamples]
    /\ penalty \in [Backends -> 4..MaxPenalty]
    /\ tick.at \in {"idle", "tiers", "scores", "allocate", "claim"}
    /\ outages \in 0..MaxOutages

\* A backend never runs more pages than its max_inflight, whatever affinity, scores
\* and the pages that finish or fail during the tick say (D9 of allocate_scored).
NotOverfilled == \A b \in Backends : Cardinality(RunningOn(b)) <= MaxInflight[b]

\* A job goes back to a backend it failed on only if every healthy backend of that
\* tier that serves it has failed it, not merely because the others are full.
RetriedElsewhere ==
    \A p \in Pages, b \in tick.up : <<p, b>> \in tick.plan /\ b \in avoid[p]
        => \A c \in tick.up : TierOf[c] = TierOf[b] /\ CanServe(c, p) => c \in avoid[p]

\* Equal backends share a burst evenly (docstring of allocate_scored): at every point
\* of an allocation two backends that look the same differ by at most one page.
LookEqual(b, c) ==
    /\ {b, c} \subseteq Slots /\ MaxInflight[b] = MaxInflight[c]
    /\ tick.inflight[b] = tick.inflight[c] /\ EffectiveSpp(Slots, b) = EffectiveSpp(Slots, c)
    /\ Serving[b] = Serving[c]
    /\ \A p \in Pages : avoid[p] \cap {b, c} \in {{}, {b, c}}
EvenShare ==
    tick.at = "allocate" =>
        \A b, c \in Slots : LookEqual(b, c) => tick.assigned[b] - tick.assigned[c] \in -1..1

\* What allocate_scored owes to backends and pages at every step of an allocation.
AllocationSound == DispatchTypeOK /\ NotOverfilled /\ RetriedElsewhere /\ EvenShare

\* While the worker keeps ticking, every job ends: one that no backend serves blocks the others
\* only until its hash has expired, and one that all its backends have failed is still
\* tried again.
EveryPageEnds == []<>(tick.at # "idle") => <>[](\A p \in Pages : where[p] \in {"done", "failed"})
=============================================================================
