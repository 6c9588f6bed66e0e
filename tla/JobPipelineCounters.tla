------------------------- MODULE JobPipelineCounters -------------------------
(***************************************************************************)
(* Counters and limits of the job pipeline, for any jobs, backends and     *)
(* settings: the counters kept beside the sets are exact (CountersKept),   *)
(* what is final stays (FinalStays), a stale snapshot costs the retry      *)
(* budget one requeue per worker (RetriesBounded), and a dispatch tick     *)
(* never overspends what it read (LimitsKept).  RetriesBounded holds with  *)
(* any workers; the others are about one poller process, LimitsKept also   *)
(* about one submit worker.                                                *)
(***************************************************************************)
EXTENDS JobPipelineProofs

USE DEF redisVars, hashVars, queueVars, counterVars

-----------------------------------------------------------------------------
\* The counters.

\* What a task knows about the job it works on, while no task has died.
KnowsSubmit(w, j) ==
    /\ pc[w][j] \in {"promoting", "claimed", "retrying", "accepted", "sf_read"} => status[j] = "queued"
    /\ pc[w][j] = "hset" => status[j] = "running" /\ loc[w][j].bk = backend[j]
    /\ pc[w][j] \in {"sf_read", "sf_page", "sf_write", "sf_srem"} => j \notin inflight
    /\ pc[w][j] \in {"sf_page", "sf_write", "sf_srem", "sf_count"} => loc[w][j].st = "queued"
    /\ pc[w][j] = "sf_count" => ~loc[w][j].rem
    /\ pc[w][j] # "mf_check"

KnowsPoll(p, j) ==
    /\ pc[p][j] \in {"listed", "checking", "rq_read", "rq_srem", "mf_check", "sf_read", "sf_page",
                     "sf_write"} => status[j] \in Active /\ j \in inflight
    /\ pc[p][j] = "sf_srem" => j \in inflight
    /\ pc[p][j] \in {"rq_count", "rq_reset"} => status[j] \in Active
    /\ pc[p][j] = "rq_delay" => status[j] = "queued"
    /\ pc[p][j] \in {"checking", "rq_srem"} => loc[p][j].bk = backend[j]
    /\ pc[p][j] \in {"rq_srem", "rq_count", "sf_page", "sf_write", "sf_srem", "sf_count"} =>
          loc[p][j].st # "absent"
    /\ pc[p][j] \in {"rq_count", "sf_count"} => loc[p][j].rem

KnowsHarvest(h, j) ==
    /\ status[j] # "queued"
    /\ pc[h][j] \in {"sf_page", "sf_write", "sf_srem", "sf_count"} =>
          loc[h][j].st \notin {"queued", "absent"}
    /\ pc[h][j] = "sf_count" => ~loc[h][j].rem

Knows(t, j) ==
    /\ t \in Submitters => KnowsSubmit(t, j)
    /\ t \in Pollers => KnowsPoll(t, j)
    /\ t \in Harvesters => KnowsHarvest(t, j)
    /\ pc[t][j] \in {"sf_page", "sf_write", "sf_srem"} => loc[t][j].bk = backend[j]
    /\ pc[t][j] \in {"sf_page", "sd_page"} => loc[t][j].st = status[j]
    /\ pc[t][j] # "sd_count"

\* The hash is whole wherever someone may need it.
Whole(j) ==
    /\ j \in pending \cup delayed \cup inflight \cup harvest => hash[j] = "whole"
    /\ \A t \in Tasks : pc[t][j] # "idle" => hash[j] = "whole"
    /\ hash[j] = "whole" => status[j] # "absent"
WholeInv == \A j \in Jobs : Whole(j)

\* The status says which queue, and the page is counted on the way to the end.
Sorted(j) ==
    /\ j \in pending \cup delayed => status[j] = "queued"
    /\ j \in harvest => status[j] # "queued"
    /\ j \in inflight => status[j] \in Active \/ \E t \in Tasks : pc[t][j] = "sf_srem"
    /\ pages[j] \in {0, 1}
    /\ pages[j] = 1 => status[j] \in Terminal \/ \E t \in Tasks : pc[t][j] \in {"sf_write", "sd_write"}
    /\ api[j] # "answered" => pages[j] = 0

Calm(j) == Sorted(j) /\ \A t \in Tasks : Busy(t, j) => Knows(t, j)
CalmInv == faults = 0 => \A j \in Jobs : Calm(j)

\* A page is counted by the status it has.
Fresh(j) == \A t \in Tasks :
    pc[t][j] \in {"sf_page", "sd_page"} => loc[t][j].st \in {"absent", status[j]}
FreshInv == \A j \in Jobs : Fresh(j)

-----------------------------------------------------------------------------
\* The hash of a job someone has.

LEMMA WholeInit == Init => WholeInv
BY DEF Init, WholeInv, Whole

LEMMA WholeFrame ==
    ASSUME TypeOK, NEW t, NEW i \in Jobs, NEW j \in Jobs, Elsewhere(t, i), i # j, Whole(j)
    PROVE  Whole(j)'
BY DEF Elsewhere, Whole

\* A step of a task on the job: the hash was whole or it stays out of reach.
LEMMA WholeMove ==
    ASSUME TypeOK, NEW t \in Tasks, NEW j \in Jobs, Elsewhere(t, j), Whole(j),
           hash' = hash \/ Touch(j),
           status'[j] # "absent" \/ status'[j] = status[j],
           hash[j] # "whole" =>
               pc'[t][j] = "idle" /\ j \notin pending' \cup delayed' \cup inflight' \cup harvest'
    PROVE  Whole(j)'
<1>1. (hash[j] = "whole") = (hash'[j] = "whole")
  BY DEF Touch, TypeOK
<1>2. \A u \in Tasks : pc'[u][j] # "idle" => hash[j] = "whole"
  BY DEF Elsewhere, Whole
<1> QED
  BY <1>1, <1>2 DEF Whole

LEMMA WholeApi ==
    ASSUME TypeOK, WholeInv, NEW j \in Jobs, ApiStep(j)
    PROVE  WholeInv'
BY DEF ApiStep, SubmitRow, Enqueue, ApiDies, WholeInv, Whole, TypeOK

LEMMA WholeSubmit ==
    ASSUME TypeOK, NEW w \in Submitters, NEW j \in Jobs, SubmitStep(w, j), Whole(j)
    PROVE  Whole(j)'
<1> USE Roles DEF At, Finish
<1>1. hash' = hash \/ Touch(j)
  BY DEF SubmitStep, PromoteTake, PromoteAdd, Peek, DropPending, Claim, DispatchBack,
     DispatchRetry, ScheduleRetry, DispatchFail, EngineAccepts, SetRunningHash, SetRunningAdd,
     SetRunningCount, RecordRunning, SubmitError
<1>2. status'[j] # "absent" \/ status'[j] = status[j]
  BY DEF SubmitStep, PromoteTake, PromoteAdd, Peek, DropPending, Claim, DispatchBack,
     DispatchRetry, ScheduleRetry, DispatchFail, EngineAccepts, SetRunningHash, SetRunningAdd,
     SetRunningCount, RecordRunning, SubmitError, TypeOK
<1>3. hash[j] # "whole" =>
        pc'[w][j] = "idle" /\ j \notin pending' \cup delayed' \cup inflight' \cup harvest'
  BY DEF SubmitStep, PromoteTake, PromoteAdd, Peek, DropPending, Claim, DispatchBack,
     DispatchRetry, ScheduleRetry, DispatchFail, EngineAccepts, SetRunningHash, SetRunningAdd,
     SetRunningCount, RecordRunning, SubmitError, Whole
<1> QED
  BY <1>1, <1>2, <1>3, SubmitElsewhere, WholeMove

LEMMA WholePoll ==
    ASSUME TypeOK, NEW p \in Pollers, NEW j \in Jobs, PollStep(p, j), Whole(j)
    PROVE  Whole(j)'
<1> USE Roles DEF At, Finish
<1>1. hash' = hash \/ Touch(j)
  BY DEF PollStep, PollList, PollRead, PollRunning, ReleaseDone, StoringRow, PollRequeue,
     PollFail, RequeueRead, RequeueRemove, RequeueCount, RequeueReset, RequeueDelay, RequeueBump,
     RequeueRow
<1>2. status'[j] # "absent" \/ status'[j] = status[j]
  BY DEF PollStep, PollList, PollRead, PollRunning, ReleaseDone, StoringRow, PollRequeue,
     PollFail, RequeueRead, RequeueRemove, RequeueCount, RequeueReset, RequeueDelay, RequeueBump,
     RequeueRow, TypeOK
<1>3. hash[j] # "whole" =>
        pc'[p][j] = "idle" /\ j \notin pending' \cup delayed' \cup inflight' \cup harvest'
  BY DEF PollStep, PollList, PollRead, PollRunning, ReleaseDone, StoringRow, PollRequeue,
     PollFail, RequeueRead, RequeueRemove, RequeueCount, RequeueReset, RequeueDelay, RequeueBump,
     RequeueRow, Whole
<1> QED
  BY <1>1, <1>2, <1>3, PollElsewhere, WholeMove

LEMMA WholeHarvest ==
    ASSUME TypeOK, NEW h \in Harvesters, NEW j \in Jobs, HarvestStep(h, j), Whole(j)
    PROVE  Whole(j)'
<1> USE Roles DEF At, Finish
<1>1. hash' = hash \/ Touch(j)
  BY DEF HarvestStep, HarvestStart, HarvestForget, HarvestRetry, HarvestFail, RecordDone,
     HarvestError
<1>2. status' = status
  BY DEF HarvestStep, HarvestStart, HarvestForget, HarvestRetry, HarvestFail, RecordDone,
     HarvestError
<1>3. hash[j] # "whole" =>
        pc'[h][j] = "idle" /\ j \notin pending' \cup delayed' \cup inflight' \cup harvest'
  BY DEF HarvestStep, HarvestStart, HarvestForget, HarvestRetry, HarvestFail, RecordDone,
     HarvestError, Whole
<1> QED
  BY <1>1, <1>2, <1>3, HarvestElsewhere, WholeMove

LEMMA WholeShared ==
    ASSUME TypeOK, NEW t \in Tasks, NEW j \in Jobs, SharedStep(t, j) \/ Abort(t, j), Whole(j)
    PROVE  Whole(j)'
<1> USE DEF At, Finish
<1>0. pc[t][j] # "idle"
  BY DEF SharedStep, SetFailedRead, SetFailedPage, SetFailedWrite, SetFailedRemove,
     SetFailedCount, FailRow, MarkFailedCheck, SetDoneRead, SetDonePage, SetDoneWrite, SetDoneCount,
     ReportDone, SetDoneEnd, Abort
<1>1. hash' = hash \/ Touch(j)
  BY DEF SharedStep, SetFailedRead, SetFailedPage, SetFailedWrite, SetFailedRemove,
     SetFailedCount, FailRow, MarkFailedCheck, SetDoneRead, SetDonePage, SetDoneWrite, SetDoneCount,
     ReportDone, SetDoneEnd, Abort
<1>2. status'[j] # "absent" \/ status'[j] = status[j]
  BY DEF SharedStep, SetFailedRead, SetFailedPage, SetFailedWrite, SetFailedRemove,
     SetFailedCount, FailRow, MarkFailedCheck, SetDoneRead, SetDonePage, SetDoneWrite, SetDoneCount,
     ReportDone, SetDoneEnd, Abort, TypeOK
<1> QED
  BY <1>0, <1>1, <1>2, SharedElsewhere, WholeMove DEF Whole

LEMMA WholeStep ==
    ASSUME TypeOK, WholeInv, [PipelineNext]_vars
    PROVE  WholeInv'
<1>1. CASE UNCHANGED vars
  BY <1>1 DEF vars, WholeInv, Whole
<1>2. CASE \E j \in Jobs : ApiStep(j)
  BY <1>2, WholeApi
<1>3. CASE \E w \in Submitters, i \in Jobs : SubmitStep(w, i)
  BY <1>3, WholeSubmit, SubmitElsewhere, WholeFrame DEF WholeInv
<1>4. CASE \E p \in Pollers, i \in Jobs : PollStep(p, i)
  BY <1>4, WholePoll, PollElsewhere, WholeFrame DEF WholeInv
<1>5. CASE \E h \in Harvesters, i \in Jobs : HarvestStep(h, i)
  BY <1>5, WholeHarvest, HarvestElsewhere, WholeFrame DEF WholeInv
<1>6. CASE \E t \in Tasks, i \in Jobs : SharedStep(t, i) \/ Abort(t, i)
  BY <1>6, WholeShared, SharedElsewhere, WholeFrame DEF WholeInv
<1> QED
  BY <1>1, <1>2, <1>3, <1>4, <1>5, <1>6 DEF PipelineNext

-----------------------------------------------------------------------------
\* What a page is counted by.

LEMMA Solo ==
    ASSUME AloneInv, OneHarvesterOnly, NEW j \in Jobs, NEW t \in Tasks, NEW u \in Tasks,
           Busy(t, j), Busy(u, j)
    PROVE  t = u
BY DEF AloneInv, Alone, OneHarvesterOnly

PageSteps == {"sf_page", "sd_page"}

LEMMA FreshInit == Init => FreshInv
BY DEF Init, FreshInv, Fresh

LEMMA FreshFrame ==
    ASSUME TypeOK, NEW t, NEW i \in Jobs, NEW j \in Jobs, Elsewhere(t, i), i # j, Fresh(j)
    PROVE  Fresh(j)'
BY DEF Elsewhere, Fresh

\* A task reads the status just before it counts the page, and no other task changes it
\* in between.
LEMMA FreshMove ==
    ASSUME TypeOK, AloneInv, OneHarvesterOnly, NEW t \in Tasks, NEW j \in Jobs, Elsewhere(t, j),
           Fresh(j),
           status'[j] = status[j] \/ Busy(t, j),
           pc'[t][j] \in PageSteps =>
               /\ status'[j] = status[j]
               /\ loc'[t][j].st \in {"absent", status[j]}
    PROVE  Fresh(j)'
<1>1. ASSUME NEW u \in Tasks, u # t, pc'[u][j] \in PageSteps
      PROVE  loc'[u][j].st \in {"absent", status'[j]}
  <2>1. pc[u][j] \in PageSteps /\ loc'[u][j] = loc[u][j]
    BY <1>1 DEF Elsewhere
  <2>2. Busy(u, j)
    BY <2>1 DEF Busy, Spare, PageSteps
  <2>3. status'[j] = status[j]
    BY <1>1, <2>2, Solo
  <2> QED
    BY <2>1, <2>3 DEF Fresh, PageSteps
<1> QED
  BY <1>1 DEF Fresh, PageSteps

LEMMA FreshSubmit ==
    ASSUME TypeOK, AloneInv, OneHarvesterOnly, NEW w \in Submitters, NEW j \in Jobs,
           SubmitStep(w, j), Fresh(j)
    PROVE  Fresh(j)'
<1> USE Roles, SpareSteps DEF At, Finish
<1>1. CASE SetRunningHash(w, j)
  <2>1. Busy(w, j) /\ pc'[w][j] \notin PageSteps
    BY <1>1 DEF SetRunningHash, Busy, Goto, PageSteps, TypeOK
  <2> QED
    BY <1>1, <2>1, SubmitElsewhere, FreshMove
<1>2. CASE ~SetRunningHash(w, j)
  <2>1. status' = status
    BY <1>2 DEF SubmitStep, PromoteTake, PromoteAdd, Peek, DropPending, Claim, DispatchBack,
       DispatchRetry, ScheduleRetry, DispatchFail, EngineAccepts, SetRunningAdd, SetRunningCount,
       RecordRunning, SubmitError
  <2>2. pc'[w][j] \notin PageSteps
    BY SubmitMoves, PcAfter DEF PageSteps
  <2> QED
    BY <2>1, <2>2, SubmitElsewhere, FreshMove
<1> QED
  BY <1>1, <1>2

LEMMA FreshPoll ==
    ASSUME TypeOK, AloneInv, OneHarvesterOnly, NEW p \in Pollers, NEW j \in Jobs,
           PollStep(p, j), Fresh(j)
    PROVE  Fresh(j)'
<1> USE Roles, SpareSteps DEF At, Finish
<1>1. pc'[p][j] \notin PageSteps
  BY DEF PollStep, PollList, PollRead, PollRunning, ReleaseDone, StoringRow, PollRequeue,
     PollFail, RequeueRead, RequeueRemove, RequeueCount, RequeueReset, RequeueDelay, RequeueBump,
     RequeueRow, Goto, TypeOK, PageSteps
<1>2. status' = status \/ Busy(p, j)
  BY DEF PollStep, PollList, PollRead, PollRunning, ReleaseDone, StoringRow, PollRequeue,
     PollFail, RequeueRead, RequeueRemove, RequeueCount, RequeueReset, RequeueDelay, RequeueBump,
     RequeueRow, Busy
<1> QED
  BY <1>1, <1>2, PollElsewhere, FreshMove

LEMMA FreshHarvest ==
    ASSUME TypeOK, AloneInv, OneHarvesterOnly, NEW h \in Harvesters, NEW j \in Jobs,
           HarvestStep(h, j), Fresh(j)
    PROVE  Fresh(j)'
<1> USE Roles, SpareSteps DEF At, Finish
<1>1. pc'[h][j] \notin PageSteps /\ status' = status
  BY DEF HarvestStep, HarvestStart, HarvestForget, HarvestRetry, HarvestFail, RecordDone,
     HarvestError, Goto, TypeOK, PageSteps
<1> QED
  BY <1>1, HarvestElsewhere, FreshMove

LEMMA FreshShared ==
    ASSUME TypeOK, AloneInv, OneHarvesterOnly, NEW t \in Tasks, NEW j \in Jobs,
           SharedStep(t, j) \/ Abort(t, j), Fresh(j)
    PROVE  Fresh(j)'
<1> USE SpareSteps DEF At, Finish
<1>1. CASE SetFailedRead(t, j) \/ SetDoneRead(t, j)
  <2>1. status' = status /\ loc'[t][j].st \in {"absent", status[j]}
    BY <1>1, ReadNotes DEF SetFailedRead, SetDoneRead, Seen
  <2> QED
    BY <1>1, <2>1, SharedElsewhere, FreshMove
<1>2. CASE ~SetFailedRead(t, j) /\ ~SetDoneRead(t, j)
  <2>1. pc'[t][j] \notin PageSteps
    BY <1>2 DEF SharedStep, SetFailedPage, SetFailedWrite, SetFailedRemove, SetFailedCount,
       FailRow, MarkFailedCheck, SetDonePage, SetDoneWrite, SetDoneCount, ReportDone, SetDoneEnd,
       Abort, Goto, TypeOK, PageSteps
  <2>2. status' = status \/ Busy(t, j)
    BY <1>2 DEF SharedStep, SetFailedPage, SetFailedWrite, SetFailedRemove, SetFailedCount,
       FailRow, MarkFailedCheck, SetDonePage, SetDoneWrite, SetDoneCount, ReportDone, SetDoneEnd,
       Abort, Busy, Spare
  <2> QED
    BY <2>1, <2>2, SharedElsewhere, FreshMove
<1> QED
  BY <1>1, <1>2

LEMMA FreshStep ==
    ASSUME TypeOK, AloneInv, OneHarvesterOnly, FreshInv, [PipelineNext]_vars
    PROVE  FreshInv'
<1>1. CASE UNCHANGED vars
  BY <1>1 DEF vars, FreshInv, Fresh
<1>2. CASE \E j \in Jobs : ApiStep(j)
  <2>1. PICK i \in Jobs : ApiStep(i)
    BY <1>2
  <2>2. \A t \in Tasks : ~Busy(t, i)
    BY <2>1 DEF ApiStep, SubmitRow, Enqueue, ApiDies, AloneInv, Alone
  <2>3. \A t \in Tasks : pc'[t][i] \notin PageSteps
    BY <2>1, <2>2, ApiElsewhere DEF Busy, Spare, PageSteps
  <2>4. Fresh(i)'
    BY <2>3 DEF Fresh, PageSteps
  <2> QED
    BY <2>1, <2>4, ApiElsewhere, FreshFrame DEF FreshInv
<1>3. CASE \E w \in Submitters, i \in Jobs : SubmitStep(w, i)
  BY <1>3, FreshSubmit, SubmitElsewhere, FreshFrame DEF FreshInv
<1>4. CASE \E p \in Pollers, i \in Jobs : PollStep(p, i)
  BY <1>4, FreshPoll, PollElsewhere, FreshFrame DEF FreshInv
<1>5. CASE \E h \in Harvesters, i \in Jobs : HarvestStep(h, i)
  BY <1>5, FreshHarvest, HarvestElsewhere, FreshFrame DEF FreshInv
<1>6. CASE \E t \in Tasks, i \in Jobs : SharedStep(t, i) \/ Abort(t, i)
  BY <1>6, FreshShared, SharedElsewhere, FreshFrame DEF FreshInv
<1> QED
  BY <1>1, <1>2, <1>3, <1>4, <1>5, <1>6 DEF PipelineNext

\* Only a page that is still active is counted.
LEMMA PageStep ==
    ASSUME TypeOK, FreshInv, [PipelineNext]_vars, NEW j \in Jobs, status[j] \in Terminal
    PROVE  pages'[j] = pages[j]
<1>1. CASE pages' = pages
  BY <1>1
<1>2. CASE pages' # pages
  <2>1. PICK t \in Tasks, i \in Jobs : SetFailedPage(t, i) \/ SetDonePage(t, i)
    <3>1. ~(UNCHANGED vars)
      BY <1>2 DEF vars
    <3>2. \A i \in Jobs : ~ApiStep(i)
      BY <1>2 DEF ApiStep, SubmitRow, Enqueue, ApiDies
    <3>3. \A w \in Submitters, i \in Jobs : ~SubmitStep(w, i)
      <4> TAKE w \in Submitters, i \in Jobs
      <4>1. PromoteTake(w, i) \/ PromoteAdd(w, i) \/ Peek(w, i) \/ DropPending(w, i) => pages' = pages
        BY DEF PromoteTake, PromoteAdd, Peek, DropPending
      <4>2. Claim(w, i) \/ DispatchBack(w, i) \/ DispatchRetry(w, i) \/ ScheduleRetry(w, i)
              \/ DispatchFail(w, i) \/ EngineAccepts(w, i) => pages' = pages
        BY DEF Claim, DispatchBack, DispatchRetry, ScheduleRetry, DispatchFail, EngineAccepts
      <4>3. SetRunningHash(w, i) \/ SetRunningAdd(w, i) \/ SetRunningCount(w, i)
              \/ RecordRunning(w, i) \/ SubmitError(w, i) => pages' = pages
        BY DEF SetRunningHash, SetRunningAdd, SetRunningCount, RecordRunning, SubmitError
      <4> QED
        BY <1>2, <4>1, <4>2, <4>3 DEF SubmitStep
    <3>4. \A p \in Pollers, i \in Jobs : ~PollStep(p, i)
      BY <1>2 DEF PollStep, PollList, PollRead, PollRunning, ReleaseDone, StoringRow, PollRequeue,
         PollFail, RequeueRead, RequeueRemove, RequeueCount, RequeueReset, RequeueDelay, RequeueBump,
         RequeueRow
    <3>5. \A h \in Harvesters, i \in Jobs : ~HarvestStep(h, i)
      BY <1>2 DEF HarvestStep, HarvestStart, HarvestForget, HarvestRetry, HarvestFail, RecordDone,
         HarvestError
    <3>6. PICK t \in Tasks, i \in Jobs : SharedStep(t, i) \/ Abort(t, i)
      BY <3>1, <3>2, <3>3, <3>4, <3>5 DEF PipelineNext
    <3>7. SetFailedPage(t, i) \/ SetDonePage(t, i)
      BY <1>2, <3>6 DEF SharedStep, SetFailedRead, SetFailedWrite, SetFailedRemove, SetFailedCount,
         FailRow, MarkFailedCheck, SetDoneRead, SetDoneWrite, SetDoneCount, ReportDone, SetDoneEnd,
         Abort
    <3> QED
      BY <3>7
  <2>2. i # j => pages'[j] = pages[j]
    BY <2>1, SharedElsewhere DEF SharedStep, Elsewhere
  <2>3. i = j => loc[t][i].st \notin Active
    BY <2>1 DEF SetFailedPage, SetDonePage, At, FreshInv, Fresh, Active, Terminal
  <2>4. i = j => pages'[j] = pages[j]
    BY <2>1, <2>3 DEF SetFailedPage, SetDonePage, CountPage, TypeOK
  <2> QED
    BY <2>2, <2>4
<1> QED
  BY <1>1, <1>2

\* What is final stays: no worker takes a done row back, and once Redis says a page is
\* done or failed its batch never counts it again, whoever dies and however often the
\* harvest is run again (_count_batch_page, set_done, set_failed, mark_failed).
THEOREM FinalStays ==
    ASSUME Prompt, OneHarvesterOnly
    PROVE  PipelineSpec => NothingUndone
<1>1. Init => FreshInv
  BY FreshInit
<1>2. TypeOK /\ AloneInv /\ FreshInv /\ [PipelineNext]_vars => FreshInv'
  BY FreshStep
<1>3. PipelineSpec => [](TypeOK /\ FreshInv)
  BY <1>1, <1>2, SafetyInvariants, PTL DEF PipelineSpec
<1>4. TypeOK /\ FreshInv /\ [PipelineNext]_vars
        => [\A j \in Jobs : status[j] \in Terminal => pages'[j] = pages[j]]_vars
  BY PageStep
<1>5. PipelineSpec => PagesFrozen
  BY <1>3, <1>4, PTL DEF PipelineSpec, PagesFrozen
<1>6. PipelineSpec => DoneStaysDone
  BY DoneStays
<1> QED
  BY <1>5, <1>6, PTL DEF NothingUndone

-----------------------------------------------------------------------------
\* What the tasks know while none has died.

LEMMA CalmInit == Init => CalmInv
BY SpareSteps DEF Init, CalmInv, Calm, Sorted, Busy

LEMMA CalmFrame ==
    ASSUME TypeOK, NEW t, NEW i \in Jobs, NEW j \in Jobs, Elsewhere(t, i), i # j, Calm(j)
    PROVE  Calm(j)'
<1>1. Sorted(j)'
  BY DEF Elsewhere, Calm, Sorted
<1>2. ASSUME NEW u \in Tasks, Busy(u, j)'
      PROVE  Knows(u, j)'
  <2>1. Busy(u, j) /\ Knows(u, j)
    BY <1>2 DEF Elsewhere, Calm, Busy
  <2> QED
    BY <2>1 DEF Elsewhere, Knows, KnowsSubmit, KnowsPoll, KnowsHarvest
<1> QED
  BY <1>1, <1>2 DEF Calm

\* A busy task is alone with the job, so what the others know is not at stake.
LEMMA CalmMove ==
    ASSUME TypeOK, AloneInv, AloneInv', OneHarvesterOnly, NEW t \in Tasks, NEW j \in Jobs,
           Elsewhere(t, j), Calm(j), Sorted(j)',
           Busy(t, j)' => Knows(t, j)',
           \/ Busy(t, j) \/ Busy(t, j)'
           \/ status'[j] = status[j] /\ backend'[j] = backend[j] /\ (j \in inflight' <=> j \in inflight)
    PROVE  Calm(j)'
<1>1. ASSUME NEW u \in Tasks, Busy(u, j)', u # t
      PROVE  Knows(u, j)'
  <2>1. Busy(u, j) /\ pc'[u][j] = pc[u][j] /\ loc'[u][j] = loc[u][j]
    BY <1>1 DEF Elsewhere, Busy
  <2>2. ~Busy(t, j)
    BY <1>1, <2>1, Solo
  <2>3. ~Busy(t, j)'
    BY <1>1 DEF AloneInv, Alone, OneHarvesterOnly
  <2>4. status'[j] = status[j] /\ backend'[j] = backend[j] /\ (j \in inflight' <=> j \in inflight)
    BY <2>2, <2>3
  <2> QED
    BY <2>1, <2>4 DEF Calm, Knows, KnowsSubmit, KnowsPoll, KnowsHarvest
<1> QED
  BY <1>1 DEF Calm

\* A step that gives the job no new queue, status or count.
LEMMA SortedSame ==
    ASSUME TypeOK, NEW t \in Tasks, NEW j \in Jobs, Elsewhere(t, j), Sorted(j),
           status'[j] = status[j], pages'[j] = pages[j], api'[j] = api[j],
           pc[t][j] \notin {"sf_write", "sd_write", "sf_srem"},
           j \in pending' \cup delayed' => status[j] = "queued",
           j \in harvest' => status[j] # "queued",
           j \in inflight' => j \in inflight \/ status[j] \in Active
    PROVE  Sorted(j)'
<1>1. \A u \in Tasks : pc[u][j] \in {"sf_write", "sd_write", "sf_srem"} => pc'[u][j] = pc[u][j]
  BY DEF Elsewhere
<1> QED
  BY <1>1 DEF Sorted

\* A step that gives the job of a busy task a new status or count.
LEMMA SortedMove ==
    ASSUME TypeOK, AloneInv, AloneInv', OneHarvesterOnly, NEW t \in Tasks, NEW j \in Jobs,
           Elsewhere(t, j), Busy(t, j), api'[j] = api[j],
           j \in pending' \cup delayed' => status'[j] = "queued",
           j \in harvest' => status'[j] # "queued",
           j \in inflight' => status'[j] \in Active \/ pc'[t][j] = "sf_srem",
           pages'[j] \in {0, 1},
           pages'[j] = 1 => status'[j] \in Terminal \/ pc'[t][j] \in {"sf_write", "sd_write"}
    PROVE  Sorted(j)'
BY DEF AloneInv, Alone, Sorted

\* The page of an active job that nobody is ending is not counted yet.
LEMMA Uncounted0 ==
    ASSUME TypeOK, AloneInv, OneHarvesterOnly, NEW t \in Tasks, NEW j \in Jobs, Calm(j), Busy(t, j),
           status[j] \in Active, pc[t][j] \notin {"sf_write", "sd_write"}
    PROVE  pages[j] = 0
<1>1. \A u \in Tasks : pc[u][j] \in {"sf_write", "sd_write"} => Busy(u, j)
  BY DEF Busy, Spare
<1>2. \A u \in Tasks : pc[u][j] \notin {"sf_write", "sd_write"}
  BY <1>1, Solo
<1> QED
  BY <1>2 DEF Calm, Sorted, Active, Terminal

LEMMA CalmSubmit ==
    ASSUME TypeOK, AloneInv, AloneInv', OneHarvesterOnly, WholeInv, NEW w \in Submitters,
           NEW j \in Jobs, SubmitStep(w, j), Calm(j), faults' = faults
    PROVE  Calm(j)'
<1> USE Roles, SpareSteps DEF At, Finish
<1>0. /\ Elsewhere(w, j) /\ Alone(j) /\ Whole(j) /\ Sorted(j)
      /\ Busy(w, j) => Knows(w, j)
  BY SubmitElsewhere DEF AloneInv, WholeInv, Calm
<1>a. \A x : Goto(w, j, x) => pc'[w][j] = x
  BY PcAfter
<1>b. pc[w][j] \notin {"sf_write", "sd_write", "sf_srem"}
  BY DEF SubmitStep, PromoteTake, PromoteAdd, Peek, DropPending, Claim, DispatchBack,
     DispatchRetry, ScheduleRetry, DispatchFail, EngineAccepts, SetRunningHash, SetRunningAdd,
     SetRunningCount, RecordRunning, SubmitError
<1>1. CASE PromoteTake(w, j)
  <2>1. Sorted(j)'
    BY <1>0, <1>1, <1>b, SortedSame DEF PromoteTake, Sorted
  <2>2. Knows(w, j)' /\ Busy(w, j)'
    BY <1>0, <1>1, <1>a DEF PromoteTake, Sorted, Knows, KnowsSubmit, Busy
  <2> QED
    BY <1>0, <2>1, <2>2, CalmMove
<1>2. CASE PromoteAdd(w, j) \/ DispatchBack(w, j) \/ ScheduleRetry(w, j)
  <2>1. status[j] = "queued" /\ Busy(w, j)
    BY <1>0, <1>2 DEF PromoteAdd, DispatchBack, ScheduleRetry, Knows, KnowsSubmit, Busy
  <2>2. Sorted(j)'
    BY <1>0, <1>2, <1>b, <2>1, SortedSame DEF PromoteAdd, DispatchBack, ScheduleRetry, Sorted
  <2>3. ~Busy(w, j)'
    BY <1>2, <1>a DEF PromoteAdd, DispatchBack, ScheduleRetry, Busy
  <2> QED
    BY <1>0, <2>1, <2>2, <2>3, CalmMove
<1>3. CASE Peek(w, j)
  <2>1. Sorted(j)'
    BY <1>0, <1>3, <1>b, SortedSame DEF Peek, Sorted
  <2>2. ~Busy(w, j)'
    BY <1>3, <1>a DEF Peek, Busy
  <2> QED
    BY <1>0, <1>3, <2>1, <2>2, CalmMove DEF Peek
<1>4. CASE DropPending(w, j)
  BY <1>0, <1>4 DEF DropPending, Whole
<1>5. CASE Claim(w, j)
  <2>1. Sorted(j)'
    BY <1>0, <1>5, <1>b, SortedSame DEF Claim, Sorted
  <2>2. Busy(w, j)' => j \in pending /\ pc'[w][j] = "claimed" /\ status' = status
    BY <1>5, <1>a DEF Claim, Busy
  <2>3. Busy(w, j)' => Knows(w, j)'
    BY <1>0, <2>2 DEF Sorted, Knows, KnowsSubmit
  <2> QED
    BY <1>0, <1>5, <2>1, <2>3, CalmMove DEF Claim
<1>6. CASE DispatchRetry(w, j) \/ DispatchFail(w, j) \/ EngineAccepts(w, j)
  <2>1. Sorted(j)'
    BY <1>0, <1>6, <1>b, SortedSame DEF DispatchRetry, DispatchFail, EngineAccepts, Sorted
  <2>2. Busy(w, j) /\ status[j] = "queued" /\ j \notin inflight
    BY <1>0, <1>6 DEF DispatchRetry, DispatchFail, EngineAccepts, Busy, Knows, KnowsSubmit,
       Alone, SubmitHeld, SubmitSteps
  <2>3. pc'[w][j] \in {"retrying", "accepted", "sf_read"} /\ status' = status /\ inflight' = inflight
    BY <1>6, <1>a DEF DispatchRetry, DispatchFail, EngineAccepts
  <2>4. Knows(w, j)'
    BY <2>2, <2>3 DEF Knows, KnowsSubmit
  <2> QED
    BY <1>0, <2>1, <2>2, <2>4, CalmMove
<1>7. CASE SetRunningHash(w, j)
  <2>1. Busy(w, j) /\ status[j] = "queued" /\ SubmitHeld(w, j)
    BY <1>0, <1>7 DEF SetRunningHash, Busy, Knows, KnowsSubmit, SubmitHeld, SubmitSteps
  <2>2. pages[j] = 0
    BY <1>b, <2>1, Uncounted0 DEF Active
  <2>3. /\ status'[j] = "running" /\ backend'[j] = loc[w][j].bk /\ pc'[w][j] = "hset" /\ loc' = loc
        /\ pages' = pages /\ queueVars' = queueVars /\ api' = api
    BY <1>7, <1>a DEF SetRunningHash, TypeOK
  <2>4. Sorted(j)'
    BY <1>0, <2>1, <2>2, <2>3, SortedMove DEF Active, Alone
  <2>5. Knows(w, j)'
    BY <2>3 DEF Knows, KnowsSubmit
  <2> QED
    BY <1>0, <2>1, <2>4, <2>5, CalmMove
<1>8. CASE SetRunningAdd(w, j)
  <2>1. Busy(w, j) /\ status[j] = "running"
    BY <1>0, <1>8 DEF SetRunningAdd, Busy, Knows, KnowsSubmit
  <2>2. Sorted(j)'
    BY <1>0, <1>8, <1>b, <2>1, SortedSame DEF SetRunningAdd, Sorted, Active
  <2>3. Goto(w, j, "record") \/ Goto(w, j, "sadd")
    BY <1>8 DEF SetRunningAdd
  <2>4. Knows(w, j)'
    BY <1>a, <2>3 DEF Knows, KnowsSubmit
  <2> QED
    BY <1>0, <2>1, <2>2, <2>4, CalmMove
<1>9. CASE SetRunningCount(w, j) \/ RecordRunning(w, j)
  <2>1. Sorted(j)'
    BY <1>0, <1>9, <1>b, SortedSame DEF SetRunningCount, RecordRunning, Sorted
  <2>2. Busy(w, j) /\ Knows(w, j)'
    BY <1>9, <1>a DEF SetRunningCount, RecordRunning, Busy, Knows, KnowsSubmit
  <2> QED
    BY <1>0, <2>1, <2>2, CalmMove
<1>10. CASE SubmitError(w, j)
  BY <1>10 DEF SubmitError, Fault, TypeOK
<1> QED
  BY <1>1, <1>2, <1>3, <1>4, <1>5, <1>6, <1>7, <1>8, <1>9, <1>10 DEF SubmitStep

LEMMA CalmPoll ==
    ASSUME TypeOK, AloneInv, AloneInv', Prompt, OneHarvesterOnly, WholeInv, NEW p \in Pollers,
           NEW j \in Jobs, PollStep(p, j), Calm(j)
    PROVE  Calm(j)'
<1> USE Roles, SpareSteps DEF At, Finish
<1>0. /\ Elsewhere(p, j) /\ Alone(j) /\ Whole(j) /\ Sorted(j)
      /\ Busy(p, j) => KnowsPoll(p, j) /\ Knows(p, j)
  BY PollElsewhere DEF AloneInv, WholeInv, Calm, Knows
<1>a. \A x : Goto(p, j, x) => pc'[p][j] = x
  BY PcAfter
<1>b. pc[p][j] \notin {"sf_write", "sd_write", "sf_srem"}
  BY DEF PollStep, PollList, PollRead, PollRunning, ReleaseDone, StoringRow, PollRequeue,
     PollFail, RequeueRead, RequeueRemove, RequeueCount, RequeueReset, RequeueDelay, RequeueBump,
     RequeueRow
<1>1. CASE PollList(p, j)
  <2>1. Sorted(j)'
    BY <1>0, <1>1, <1>b, SortedSame DEF PollList, Sorted
  <2>2. j \in inflight /\ \A w \in Submitters : ~Busy(w, j)
    BY <1>1 DEF PollList, Prompt, Busy
  <2>3. \A u \in Tasks : ~Busy(u, j)
    BY <1>0, <1>1, <2>2 DEF PollList, Alone, Busy, Prompt, OnePollerOnly
  <2>4. \A u \in Tasks : pc[u][j] # "sf_srem"
    BY <2>3 DEF Busy, Spare
  <2>5. status[j] \in Active
    BY <1>0, <2>2, <2>4 DEF Sorted
  <2>6. Knows(p, j)' /\ Busy(p, j)'
    BY <1>1, <1>a, <2>2, <2>5 DEF PollList, Knows, KnowsPoll, Busy
  <2> QED
    BY <1>0, <2>1, <2>6, CalmMove
<1>2. CASE PollRead(p, j)
  <2> DEFINE m == [NoLocals EXCEPT !.bk = backend[j], !.st = status[j], !.rq = requeues[j]]
  <2>1. Keep(p, j, m) /\ Goto(p, j, "checking")
    BY <1>0, <1>2 DEF PollRead, Whole
  <2>2. m.bk = backend[j]
    BY DEF NoLocals
  <2> HIDE DEF m
  <2>3. Sorted(j)'
    BY <1>0, <1>2, <1>b, SortedSame DEF PollRead, Sorted
  <2>4. /\ status' = status /\ inflight' = inflight /\ backend' = backend /\ pc'[p][j] = "checking"
        /\ loc'[p][j].bk = backend[j]
    BY <1>2, <1>a, <2>1, <2>2, LocAfter DEF PollRead
  <2>5. Busy(p, j) /\ Knows(p, j)'
    BY <1>0, <1>2, <2>4 DEF PollRead, Busy, Knows, KnowsPoll
  <2> QED
    BY <1>0, <2>3, <2>5, CalmMove
<1>3. CASE PollRunning(p, j) \/ StoringRow(p, j) \/ RequeueRow(p, j) \/ RequeueBump(p, j)
  <2>1. Sorted(j)'
    BY <1>0, <1>3, <1>b, SortedSame DEF PollRunning, StoringRow, RequeueRow, RequeueBump, Sorted
  <2>2. ~Busy(p, j)'
    BY <1>3, <1>a DEF PollRunning, StoringRow, RequeueRow, RequeueBump, Busy
  <2> QED
    BY <1>0, <1>3, <2>1, <2>2, CalmMove DEF PollRunning, StoringRow, RequeueRow, RequeueBump
<1>4. CASE ReleaseDone(p, j)
  <2>1. Busy(p, j) /\ status[j] \in Active /\ j \in inflight
    BY <1>0, <1>4 DEF ReleaseDone, Busy, KnowsPoll
  <2>2. pages[j] = 0
    BY <1>b, <2>1, Uncounted0
  <2>3. hash[j] = "whole"
    BY <1>0, <2>1 DEF Whole
  <2>4. /\ status'[j] = "storing" /\ pages' = pages /\ api' = api /\ Goto(p, j, "storing_row")
        /\ pending' = pending /\ delayed' = delayed /\ inflight' = inflight \ {j}
    BY <1>4, <2>1, <2>3 DEF ReleaseDone, TypeOK
  <2>5. Sorted(j)'
    BY <1>0, <2>1, <2>2, <2>4, SortedMove DEF Alone
  <2>6. ~Busy(p, j)'
    BY <1>a, <2>4 DEF Busy
  <2> QED
    BY <1>0, <2>1, <2>5, <2>6, CalmMove
<1>5. CASE PollRequeue(p, j) \/ PollFail(p, j)
  <2>1. Sorted(j)'
    BY <1>0, <1>5, <1>b, SortedSame DEF PollRequeue, PollFail, Sorted
  <2>2. Busy(p, j) /\ status[j] \in Active /\ j \in inflight
    BY <1>0, <1>5 DEF PollRequeue, PollFail, Busy, KnowsPoll
  <2>3. pc'[p][j] \in {"rq_read", "mf_check"} /\ status' = status /\ inflight' = inflight
    BY <1>5, <1>a DEF PollRequeue, PollFail
  <2>4. Knows(p, j)'
    BY <2>2, <2>3 DEF Knows, KnowsPoll
  <2> QED
    BY <1>0, <2>1, <2>2, <2>4, CalmMove
<1>6. CASE RequeueRead(p, j)
  <2>1. Sorted(j)'
    BY <1>0, <1>6, <1>b, SortedSame DEF RequeueRead, Sorted
  <2>2. Busy(p, j) /\ status[j] \in Active /\ j \in inflight
    BY <1>0, <1>6 DEF RequeueRead, Busy, KnowsPoll
  <2>3. hash[j] = "whole"
    BY <1>0, <2>2 DEF Whole
  <2>4. pc'[p][j] = "rq_srem" /\ status' = status /\ inflight' = inflight /\ backend' = backend
    BY <1>6, <1>a DEF RequeueRead
  <2>6. loc'[p][j].st = Seen(j) /\ loc'[p][j].bk = SeenBackend(j)
    BY <1>6, ReadNotes DEF RequeueRead
  <2>7. loc'[p][j].st = status[j] /\ loc'[p][j].bk = backend[j]
    BY <2>3, <2>6 DEF Seen, SeenBackend
  <2>5. Knows(p, j)'
    BY <2>2, <2>4, <2>7 DEF Knows, KnowsPoll, Active
  <2> QED
    BY <1>0, <2>1, <2>2, <2>5, CalmMove
<1>7. CASE RequeueRemove(p, j)
  <2>1. Sorted(j)'
    BY <1>0, <1>7, <1>b, SortedSame DEF RequeueRemove, Sorted
  <2>2. Busy(p, j) /\ status[j] \in Active /\ j \in inflight /\ loc[p][j].st # "absent"
    BY <1>0, <1>7 DEF RequeueRemove, Busy, KnowsPoll
  <2>3. pc'[p][j] = "rq_count" /\ status' = status
    BY <1>7, <1>a DEF RequeueRemove
  <2>5. loc'[p][j].st = loc[p][j].st /\ loc'[p][j].rem = (j \in inflight)
    BY <1>7, RemovedNotes DEF RequeueRemove
  <2>4. Knows(p, j)'
    BY <2>2, <2>3, <2>5 DEF Knows, KnowsPoll
  <2> QED
    BY <1>0, <2>1, <2>2, <2>4, CalmMove
<1>8. CASE RequeueCount(p, j)
  <2>1. Sorted(j)'
    BY <1>0, <1>8, <1>b, SortedSame DEF RequeueCount, Sorted
  <2>2. Busy(p, j) /\ status[j] \in Active
    BY <1>0, <1>8 DEF RequeueCount, Busy, KnowsPoll
  <2>3. pc'[p][j] = "rq_reset" /\ status' = status
    BY <1>8, <1>a DEF RequeueCount
  <2>4. Knows(p, j)'
    BY <2>2, <2>3 DEF Knows, KnowsPoll
  <2> QED
    BY <1>0, <2>1, <2>2, <2>4, CalmMove
<1>9. CASE RequeueReset(p, j)
  <2>1. Busy(p, j) /\ status[j] \in Active /\ PollHeld(p, j)
    BY <1>0, <1>9 DEF RequeueReset, Busy, KnowsPoll, PollHeld, RequeueSteps
  <2>2. pages[j] = 0
    BY <1>b, <2>1, Uncounted0
  <2>3. /\ status'[j] = "queued" /\ pc'[p][j] = "rq_delay" /\ pages' = pages /\ api' = api
        /\ inflight' = inflight /\ j \notin harvest'
    BY <1>9, <1>a DEF RequeueReset, TypeOK
  <2>4. Sorted(j)'
    BY <1>0, <2>1, <2>2, <2>3, SortedMove DEF Alone
  <2>5. Knows(p, j)'
    BY <2>3 DEF Knows, KnowsPoll
  <2> QED
    BY <1>0, <2>1, <2>4, <2>5, CalmMove
<1>10. CASE RequeueDelay(p, j)
  <2>1. Busy(p, j) /\ status[j] = "queued"
    BY <1>0, <1>10 DEF RequeueDelay, Busy, KnowsPoll
  <2>2. Sorted(j)'
    BY <1>0, <1>10, <1>b, <2>1, SortedSame DEF RequeueDelay, Sorted
  <2>3. ~Busy(p, j)'
    BY <1>10, <1>a DEF RequeueDelay, Busy
  <2> QED
    BY <1>0, <2>1, <2>2, <2>3, CalmMove
<1> QED
  BY <1>1, <1>2, <1>3, <1>4, <1>5, <1>6, <1>7, <1>8, <1>9, <1>10 DEF PollStep

LEMMA CalmHarvest ==
    ASSUME TypeOK, AloneInv, AloneInv', OneHarvesterOnly, WholeInv, NEW h \in Harvesters,
           NEW j \in Jobs, HarvestStep(h, j), Calm(j), faults' = faults
    PROVE  Calm(j)'
<1> USE Roles, SpareSteps DEF At, Finish
<1>0. /\ Elsewhere(h, j) /\ Alone(j) /\ Whole(j) /\ Sorted(j)
      /\ Busy(h, j) => KnowsHarvest(h, j) /\ Knows(h, j)
  BY HarvestElsewhere DEF AloneInv, WholeInv, Calm, Knows
<1>a. \A x : Goto(h, j, x) => pc'[h][j] = x
  BY PcAfter
<1>1. CASE HarvestForget(h, j)
  BY <1>0, <1>1 DEF HarvestForget, Whole
<1>2. CASE HarvestStart(h, j) \/ HarvestRetry(h, j) \/ HarvestFail(h, j) \/ RecordDone(h, j)
  <2>1. status[j] # "queued"
    BY <1>0, <1>2 DEF HarvestStart, HarvestRetry, HarvestFail, RecordDone, Sorted, Busy, KnowsHarvest
  <2>2. Sorted(j)'
    BY <1>0, <1>2, <2>1, SortedSame DEF HarvestStart, HarvestRetry, HarvestFail, RecordDone, Sorted
  <2>3. pc'[h][j] \in {"harvesting", "idle", "mf_check", "sd_read"} /\ status' = status
    BY <1>2, <1>a DEF HarvestStart, HarvestRetry, HarvestFail, RecordDone
  <2>4. Knows(h, j)'
    BY <2>1, <2>3 DEF Knows, KnowsHarvest
  <2>5. Busy(h, j) \/ Busy(h, j)'
    BY <1>2, <1>a DEF HarvestStart, HarvestRetry, HarvestFail, RecordDone, Busy
  <2> QED
    BY <1>0, <2>2, <2>4, <2>5, CalmMove
<1>3. CASE HarvestError(h, j)
  BY <1>3 DEF HarvestError, Fault, TypeOK
<1> QED
  BY <1>1, <1>2, <1>3 DEF HarvestStep

LEMMA CalmShared ==
    ASSUME TypeOK, AloneInv, AloneInv', DoneInv, OneHarvesterOnly, WholeInv, NEW t \in Tasks,
           NEW j \in Jobs, SharedStep(t, j) \/ Abort(t, j), Calm(j), faults' = faults
    PROVE  Calm(j)'
<1> USE Roles, SpareSteps DEF At, Finish
<1>0. /\ Elsewhere(t, j) /\ Alone(j) /\ Whole(j) /\ Sorted(j) /\ Done(j)
      /\ Busy(t, j) => Knows(t, j)
  BY SharedElsewhere DEF AloneInv, WholeInv, DoneInv, Calm
<1>a. \A x : Goto(t, j, x) => pc'[t][j] = x
  BY PcAfter
<1>1. CASE SetFailedRead(t, j) \/ SetDoneRead(t, j)
  <2>1. Sorted(j)'
    BY <1>0, <1>1, SortedSame DEF SetFailedRead, SetDoneRead, Sorted
  <2>2. Busy(t, j) /\ hash[j] = "whole" /\ status[j] # "absent"
    BY <1>0, <1>1 DEF SetFailedRead, SetDoneRead, Whole, Busy, Spare
  <2>3. loc'[t][j].st = Seen(j) /\ loc'[t][j].bk = SeenBackend(j)
    BY <1>1, ReadNotes DEF SetFailedRead, SetDoneRead
  <2>4. loc'[t][j].st = status[j] /\ loc'[t][j].bk = backend[j]
    BY <2>2, <2>3 DEF Seen, SeenBackend
  <2>5. /\ status' = status /\ inflight' = inflight /\ backend' = backend
        /\ \/ pc[t][j] = "sf_read" /\ pc'[t][j] = "sf_page"
           \/ pc[t][j] = "sd_read" /\ pc'[t][j] = "sd_page"
    BY <1>1, <1>a DEF SetFailedRead, SetDoneRead
  <2>6. Knows(t, j)'
    BY <1>0, <2>2, <2>4, <2>5 DEF Knows, KnowsSubmit, KnowsPoll, KnowsHarvest
  <2> QED
    BY <1>0, <2>1, <2>2, <2>6, CalmMove
<1>2. CASE SetFailedPage(t, j) \/ SetDonePage(t, j)
  <2>1. Busy(t, j) /\ loc[t][j].st = status[j]
    BY <1>0, <1>2 DEF SetFailedPage, SetDonePage, Knows, Busy, Spare
  <2>2. /\ status' = status /\ inflight' = inflight /\ backend' = backend /\ loc' = loc /\ api' = api
        /\ pending' = pending /\ delayed' = delayed /\ harvest' = harvest
        /\ \/ pc[t][j] = "sf_page" /\ pc'[t][j] = "sf_write"
           \/ pc[t][j] = "sd_page" /\ pc'[t][j] = "sd_write"
    BY <1>2, <1>a DEF SetFailedPage, SetDonePage
  <2>3. pages'[j] = IF status[j] \in Active THEN pages[j] + 1 ELSE pages[j]
    BY <1>2, <2>1 DEF SetFailedPage, SetDonePage, CountPage, TypeOK
  <2>4. status[j] \in Active => pages[j] = 0
    BY <2>1, <2>2, Uncounted0
  <2>5. pages'[j] \in {0, 1}
    BY <1>0, <2>3, <2>4 DEF Sorted
  <2>6. j \in inflight => status[j] \in Active
    <3>1. \A u \in Tasks : pc[u][j] = "sf_srem" => Busy(u, j)
      BY DEF Busy, Spare
    <3>2. \A u \in Tasks : pc[u][j] # "sf_srem"
      BY <2>1, <2>2, <3>1, Solo
    <3> QED
      BY <1>0, <3>2 DEF Sorted
  <2>7. Sorted(j)'
    BY <1>0, <2>1, <2>2, <2>5, <2>6, SortedMove DEF Alone, Sorted
  <2>8. Knows(t, j)'
    BY <1>0, <2>1, <2>2 DEF Knows, KnowsSubmit, KnowsPoll, KnowsHarvest
  <2> QED
    BY <1>0, <2>1, <2>7, <2>8, CalmMove
<1>3. CASE SetFailedWrite(t, j)
  <2>1. Busy(t, j)
    BY <1>3 DEF SetFailedWrite, Busy, Spare
  <2>2. /\ status'[j] = "failed" /\ inflight' = inflight /\ backend' = backend /\ loc' = loc
        /\ api' = api /\ pending' = pending /\ delayed' = delayed /\ j \notin harvest'
        /\ pages' = pages /\ pc[t][j] = "sf_write" /\ pc'[t][j] = "sf_srem"
    BY <1>3, <1>a DEF SetFailedWrite, TypeOK
  <2>3. Sorted(j)'
    BY <1>0, <2>1, <2>2, SortedMove DEF Alone, Sorted, Terminal
  <2>4. Knows(t, j)'
    BY <1>0, <2>1, <2>2 DEF Knows, KnowsSubmit, KnowsPoll, KnowsHarvest
  <2> QED
    BY <1>0, <2>1, <2>3, <2>4, CalmMove
<1>4. CASE SetFailedRemove(t, j)
  <2>1. Busy(t, j)
    BY <1>4 DEF SetFailedRemove, Busy, Spare
  <2>2. /\ status' = status /\ backend' = backend /\ j \notin inflight'
        /\ api' = api /\ pending' = pending /\ delayed' = delayed /\ harvest' = harvest
        /\ pages' = pages /\ pc[t][j] = "sf_srem" /\ pc'[t][j] = "sf_count"
    BY <1>4, <1>a DEF SetFailedRemove
  <2>3. loc'[t][j].st = loc[t][j].st /\ loc'[t][j].rem = (j \in inflight)
    BY <1>4, RemovedNotes DEF SetFailedRemove
  <2>4. pages[j] = 1 => status[j] \in Terminal
    <3>1. \A u \in Tasks : pc[u][j] \in {"sf_write", "sd_write"} => Busy(u, j)
      BY DEF Busy, Spare
    <3>2. \A u \in Tasks : pc[u][j] \notin {"sf_write", "sd_write"}
      BY <2>1, <2>2, <3>1, Solo
    <3> QED
      BY <1>0, <3>2 DEF Sorted
  <2>5. Sorted(j)'
    BY <1>0, <2>1, <2>2, <2>4, SortedMove DEF Alone, Sorted
  <2>6. t \in Harvesters => j \notin inflight
    BY <1>0, <2>1 DEF Alone
  <2>7. Knows(t, j)'
    BY <1>0, <2>1, <2>2, <2>3, <2>6 DEF Knows, KnowsSubmit, KnowsPoll, KnowsHarvest
  <2> QED
    BY <1>0, <2>1, <2>5, <2>7, CalmMove
<1>5. CASE SetFailedCount(t, j) \/ FailRow(t, j) \/ ReportDone(t, j) \/ SetDoneEnd(t, j)
  <2>1. Busy(t, j)
    BY <1>5 DEF SetFailedCount, FailRow, ReportDone, SetDoneEnd, Busy, Spare
  <2>2. Sorted(j)'
    BY <1>0, <1>5, SortedSame DEF SetFailedCount, FailRow, ReportDone, SetDoneEnd, Sorted
  <2>3. pc'[t][j] \in {"sf_row", "idle", "reported"} /\ status' = status
    BY <1>5, <1>a DEF SetFailedCount, FailRow, ReportDone, SetDoneEnd
  <2>4. Knows(t, j)'
    BY <1>0, <2>1, <2>3 DEF Knows, KnowsSubmit, KnowsPoll, KnowsHarvest
  <2> QED
    BY <1>0, <2>1, <2>2, <2>4, CalmMove
<1>6. CASE MarkFailedCheck(t, j)
  <2>1. Busy(t, j)
    BY <1>6 DEF MarkFailedCheck, Busy, Spare
  <2>2. Sorted(j)'
    BY <1>0, <1>6, SortedSame DEF MarkFailedCheck, Sorted
  <2>3. /\ pc[t][j] = "mf_check" /\ pc'[t][j] \in {"sd_read", "sf_read"} /\ status' = status
        /\ inflight' = inflight
    BY <1>6, <1>a DEF MarkFailedCheck
  <2>4. Knows(t, j)'
    BY <1>0, <2>1, <2>3 DEF Knows, KnowsSubmit, KnowsPoll, KnowsHarvest
  <2> QED
    BY <1>0, <2>1, <2>2, <2>4, CalmMove
<1>7. CASE SetDoneWrite(t, j)
  <2>1. Busy(t, j) /\ Quiet(j)
    BY <1>0, <1>7 DEF SetDoneWrite, Busy, Spare, Done
  <2>2. j \notin inflight /\ t \in Harvesters
    BY <1>0, <2>1 DEF Quiet, Alone
  <2>3. /\ status'[j] = "done" /\ inflight' = inflight \ {j} /\ api' = api /\ pending' = pending
        /\ delayed' = delayed /\ j \notin harvest' /\ pages' = pages /\ pc'[t][j] = "sd_end"
    BY <1>7, <1>a, <2>2 DEF SetDoneWrite, TypeOK
  <2>4. Sorted(j)'
    BY <1>0, <2>1, <2>2, <2>3, SortedMove DEF Quiet, Sorted, Terminal
  <2>5. Knows(t, j)'
    BY <2>2, <2>3 DEF Knows, KnowsHarvest
  <2> QED
    BY <1>0, <2>1, <2>4, <2>5, CalmMove
<1>8. CASE SetDoneCount(t, j)
  BY <1>0, <1>8 DEF SetDoneCount, Busy, Spare, Knows
<1>9. CASE Abort(t, j)
  BY <1>9 DEF Abort, Fault, TypeOK
<1> QED
  BY <1>1, <1>2, <1>3, <1>4, <1>5, <1>6, <1>7, <1>8, <1>9 DEF SharedStep

\* A step is with a fault or without.
LEMMA FaultsCount ==
    ASSUME [PipelineNext]_vars
    PROVE  faults' = faults \/ faults' = faults + 1
<1> USE DEF Fault, NoFault
<1>1. CASE UNCHANGED vars
  BY <1>1 DEF vars
<1>2. CASE \E j \in Jobs : ApiStep(j)
  BY <1>2 DEF ApiStep, SubmitRow, Enqueue, ApiDies
<1>3. ASSUME NEW w \in Submitters, NEW j \in Jobs, SubmitStep(w, j)
      PROVE  faults' = faults \/ faults' = faults + 1
  <2>1. PromoteTake(w, j) \/ PromoteAdd(w, j) \/ Peek(w, j) \/ DropPending(w, j) => faults' = faults
    BY DEF PromoteTake, PromoteAdd, Peek, DropPending
  <2>2. Claim(w, j) \/ DispatchBack(w, j) \/ DispatchRetry(w, j) \/ ScheduleRetry(w, j)
          \/ DispatchFail(w, j) \/ EngineAccepts(w, j) => faults' = faults
    BY DEF Claim, DispatchBack, DispatchRetry, ScheduleRetry, DispatchFail, EngineAccepts
  <2>3. SetRunningHash(w, j) \/ SetRunningAdd(w, j) \/ SetRunningCount(w, j)
          \/ RecordRunning(w, j) => faults' = faults
    BY DEF SetRunningHash, SetRunningAdd, SetRunningCount, RecordRunning
  <2> QED
    BY <1>3, <2>1, <2>2, <2>3 DEF SubmitStep, SubmitError
<1>4. CASE \E p \in Pollers, i \in Jobs : PollStep(p, i)
  BY <1>4 DEF PollStep, PollList, PollRead, PollRunning, ReleaseDone, StoringRow, PollRequeue,
     PollFail, RequeueRead, RequeueRemove, RequeueCount, RequeueReset, RequeueDelay, RequeueBump,
     RequeueRow
<1>5. CASE \E h \in Harvesters, i \in Jobs : HarvestStep(h, i)
  BY <1>5 DEF HarvestStep, HarvestStart, HarvestForget, HarvestRetry, HarvestFail, RecordDone,
     HarvestError
<1>6. CASE \E t \in Tasks, i \in Jobs : SharedStep(t, i) \/ Abort(t, i)
  BY <1>6 DEF SharedStep, SetFailedRead, SetFailedPage, SetFailedWrite, SetFailedRemove,
     SetFailedCount, FailRow, MarkFailedCheck, SetDoneRead, SetDonePage, SetDoneWrite, SetDoneCount,
     ReportDone, SetDoneEnd, Abort
<1> QED
  BY <1>1, <1>2, <1>3, <1>4, <1>5, <1>6 DEF PipelineNext

LEMMA CalmStep ==
    ASSUME TypeOK, TypeOK', AloneInv, AloneInv', DoneInv, WholeInv, CalmInv, Prompt,
           OneHarvesterOnly, [PipelineNext]_vars
    PROVE  CalmInv'
<1> SUFFICES ASSUME faults' = 0 PROVE (\A j \in Jobs : Calm(j))'
  BY DEF CalmInv
<1>0. faults' = faults
  BY FaultsCount DEF TypeOK
<1> \A j \in Jobs : Calm(j)
  BY <1>0 DEF CalmInv
<1>1. CASE UNCHANGED vars
  BY <1>1 DEF vars, Calm, Sorted, Busy, Knows, KnowsSubmit, KnowsPoll, KnowsHarvest
<1>2. CASE \E j \in Jobs : ApiStep(j)
  <2>1. PICK i \in Jobs : ApiStep(i)
    BY <1>2
  <2>2. \A t \in Tasks : ~Busy(t, i)
    BY <2>1 DEF ApiStep, SubmitRow, Enqueue, ApiDies, AloneInv, Alone
  <2>3. Elsewhere(0, i) /\ pc' = pc
    BY <2>1, ApiElsewhere
  <2>4. Sorted(i) /\ api[i] # "answered" /\ pages' = pages
    BY <2>1 DEF Calm, ApiStep, SubmitRow, Enqueue, ApiDies
  <2>5. /\ i \notin delayed' \cup inflight' \cup harvest'
        /\ i \in pending' => status'[i] = "queued"
    BY <2>1 DEF ApiStep, SubmitRow, Enqueue, ApiDies, AloneInv, Alone, TypeOK
  <2>6. Sorted(i)'
    BY <2>4, <2>5 DEF Sorted
  <2>7. Calm(i)'
    BY <2>2, <2>3, <2>6 DEF Calm, Busy
  <2> QED
    BY <2>3, <2>7, CalmFrame
<1>3. CASE \E w \in Submitters, i \in Jobs : SubmitStep(w, i)
  BY <1>0, <1>3, CalmSubmit, SubmitElsewhere, CalmFrame
<1>4. CASE \E p \in Pollers, i \in Jobs : PollStep(p, i)
  BY <1>4, CalmPoll, PollElsewhere, CalmFrame
<1>5. CASE \E h \in Harvesters, i \in Jobs : HarvestStep(h, i)
  BY <1>0, <1>5, CalmHarvest, HarvestElsewhere, CalmFrame
<1>6. CASE \E t \in Tasks, i \in Jobs : SharedStep(t, i) \/ Abort(t, i)
  BY <1>0, <1>6, CalmShared, SharedElsewhere, CalmFrame
<1> QED
  BY <1>1, <1>2, <1>3, <1>4, <1>5, <1>6 DEF PipelineNext

-----------------------------------------------------------------------------
\* How a step of one task on one job moves the sums.

One(P) == IF P THEN 1 ELSE 0

LEMMA CardDelta ==
    ASSUME NEW S, NEW T, NEW x, IsFiniteSet(S), T \ {x} = S \ {x}
    PROVE  /\ IsFiniteSet(T) /\ Cardinality(S) \in Int /\ Cardinality(T) \in Int
           /\ Cardinality(T) = Cardinality(S) + One(x \in T) - One(x \in S)
<1> DEFINE R == S \ {x}
<1>1. IsFiniteSet(R) /\ x \notin R
  BY FS_Subset
<1>2. IsFiniteSet(R \cup {x}) /\ Cardinality(R \cup {x}) = Cardinality(R) + 1 /\ Cardinality(R) \in Nat
  BY <1>1, FS_AddElement, FS_CardinalityType
<1>3. \A U : U \ {x} = R => /\ IsFiniteSet(U) /\ Cardinality(U) \in Int
                             /\ Cardinality(U) = Cardinality(R) + One(x \in U)
  <2> SUFFICES ASSUME NEW U, U \ {x} = R
               PROVE  /\ IsFiniteSet(U) /\ Cardinality(U) \in Int
                      /\ Cardinality(U) = Cardinality(R) + One(x \in U)
    OBVIOUS
  <2>1. CASE x \in U
    <3>1. U = R \cup {x}
      BY <2>1
    <3> QED
      BY <1>2, <2>1, <3>1 DEF One
  <2>2. CASE x \notin U
    <3>1. U = R
      BY <2>2
    <3> QED
      BY <1>1, <1>2, <2>2, <3>1 DEF One
  <2> QED
    BY <2>1, <2>2
<1>4. S \ {x} = R /\ T \ {x} = R
  OBVIOUS
<1> HIDE DEF R
<1>5. One(x \in S) \in Int /\ One(x \in T) \in Int
  BY DEF One
<1> QED
  BY <1>2, <1>3, <1>4, <1>5

LEMMA DisjointCard ==
    ASSUME NEW S, NEW T, IsFiniteSet(S), IsFiniteSet(T), S \cap T = {}
    PROVE  /\ Cardinality(S) \in Nat /\ Cardinality(T) \in Nat
           /\ Cardinality(S \cup T) = Cardinality(S) + Cardinality(T)
<1>1. Cardinality(S \cup T) = Cardinality(S) + Cardinality(T) - Cardinality(S \cap T)
  BY FS_Union
<1>2. Cardinality(S \cap T) = 0
  BY FS_EmptySet
<1>3. Cardinality(S) \in Nat /\ Cardinality(T) \in Nat
  BY FS_CardinalityType
<1> QED
  BY <1>1, <1>2, <1>3

LEMMA FiniteSums ==
    ASSUME TypeOK
    PROVE  /\ IsFiniteSet(pending) /\ IsFiniteSet(delayed) /\ IsFiniteSet(inflight)
           /\ \A b : IsFiniteSet(InflightOn(b)) /\ IsFiniteSet(Uncounted(b)) /\ IsFiniteSet(Unreleased(b))
           /\ \A s : IsFiniteSet(Running(s)) /\ IsFiniteSet(Removing(s))
           /\ IsFiniteSet(SubmitFailing)
<1>1. IsFiniteSet(Jobs) /\ IsFiniteSet(Tasks \X Jobs)
  BY PipelineAssumption, FS_Product
<1>2. pending \subseteq Jobs /\ delayed \subseteq Jobs /\ inflight \subseteq Jobs
  BY DEF TypeOK
<1>3. \A b : /\ InflightOn(b) \subseteq Jobs /\ Uncounted(b) \subseteq Tasks \X Jobs
             /\ Unreleased(b) \subseteq Tasks \X Jobs
  BY <1>2, Roles DEF InflightOn, Uncounted, Unreleased
<1>4. \A s : Running(s) \subseteq Tasks \X Jobs /\ Removing(s) \subseteq Tasks \X Jobs
  BY DEF Running, Removing
<1>5. SubmitFailing \subseteq Tasks \X Jobs
  BY Roles DEF SubmitFailing
<1> QED
  BY <1>1, <1>2, <1>3, <1>4, <1>5, FS_Subset

\* What one task and one job add to the sum that a slot counter should be.
SlotWeight(t, j, b) ==
    One(j \in InflightOn(b)) - One(<<t, j>> \in Uncounted(b)) + One(<<t, j>> \in Unreleased(b))
SlotSum(b) ==
    Cardinality(InflightOn(b)) - Cardinality(Uncounted(b)) + Cardinality(Unreleased(b))

LEMMA SlotDelta ==
    ASSUME TypeOK, TypeOK', NEW t, NEW j \in Jobs, Elsewhere(t, j), NEW b
    PROVE  /\ SlotSum(b)' - SlotSum(b) = SlotWeight(t, j, b)' - SlotWeight(t, j, b)
           /\ SlotSum(b) \in Int /\ SlotSum(b)' \in Int
<1>1. InflightOn(b)' \ {j} = InflightOn(b) \ {j}
  <2>1. inflight \subseteq Jobs /\ inflight' \subseteq Jobs
    BY DEF TypeOK
  <2> QED
    BY <2>1 DEF Elsewhere, InflightOn
<1>2. Uncounted(b)' \ {<<t, j>>} = Uncounted(b) \ {<<t, j>>}
  BY Roles DEF Elsewhere, Uncounted, At
<1>3. Unreleased(b)' \ {<<t, j>>} = Unreleased(b) \ {<<t, j>>}
  BY DEF Elsewhere, Unreleased
<1>4. IsFiniteSet(InflightOn(b)) /\ IsFiniteSet(Uncounted(b)) /\ IsFiniteSet(Unreleased(b))
  BY FiniteSums
<1>5. /\ Cardinality(InflightOn(b)) \in Int /\ Cardinality(InflightOn(b)') \in Int
      /\ Cardinality(InflightOn(b)') = Cardinality(InflightOn(b)) + One(j \in InflightOn(b)') - One(j \in InflightOn(b))
  BY <1>1, <1>4, CardDelta
<1>6. /\ Cardinality(Uncounted(b)) \in Int /\ Cardinality(Uncounted(b)') \in Int
      /\ Cardinality(Uncounted(b)') = Cardinality(Uncounted(b)) + One(<<t, j>> \in Uncounted(b)') - One(<<t, j>> \in Uncounted(b))
  BY <1>2, <1>4, CardDelta
<1>7. /\ Cardinality(Unreleased(b)) \in Int /\ Cardinality(Unreleased(b)') \in Int
      /\ Cardinality(Unreleased(b)') = Cardinality(Unreleased(b)) + One(<<t, j>> \in Unreleased(b)') - One(<<t, j>> \in Unreleased(b))
  BY <1>3, <1>4, CardDelta
<1>8. /\ One(j \in InflightOn(b)) \in Int /\ One(j \in InflightOn(b)') \in Int
      /\ One(<<t, j>> \in Uncounted(b)) \in Int /\ One(<<t, j>> \in Uncounted(b)') \in Int
      /\ One(<<t, j>> \in Unreleased(b)) \in Int /\ One(<<t, j>> \in Unreleased(b)') \in Int
  BY DEF One
<1>9. SlotSum(b)' - SlotSum(b) = SlotWeight(t, j, b)' - SlotWeight(t, j, b)
  BY <1>5, <1>6, <1>7, <1>8 DEF SlotSum, SlotWeight
<1>10. SlotSum(b) \in Int /\ SlotSum(b)' \in Int
  BY <1>5, <1>6, <1>7 DEF SlotSum
<1> QED
  BY <1>9, <1>10

\* The same for the two counters of /load.
QueuedSteps == {"promoting", "claimed", "retrying", "accepted", "hset", "sadd", "rq_reset", "rq_delay"}
RemovedSteps == {"sf_count", "rq_count", "sd_count"}
FailingSteps == {"sf_read", "sf_page", "sf_write", "sf_srem", "sf_count"}

QueuedWeight(t, j) == One(j \in pending) + One(j \in delayed) + One(<<t, j>> \in Running(QueuedSteps))
                        + One(<<t, j>> \in SubmitFailing)
QueuedSum == Cardinality(pending) + Cardinality(delayed) + Cardinality(Running(QueuedSteps))
               + Cardinality(SubmitFailing)
FlightWeight(t, j) == One(j \in inflight) - One(<<t, j>> \in Running({"sadd"}))
                        + One(<<t, j>> \in Removing(RemovedSteps))
FlightSum == Cardinality(inflight) - Cardinality(Running({"sadd"})) + Cardinality(Removing(RemovedSteps))

LEMMA LoadDelta ==
    ASSUME TypeOK, TypeOK', NEW t, NEW j \in Jobs, Elsewhere(t, j)
    PROVE  /\ QueuedSum' - QueuedSum = QueuedWeight(t, j)' - QueuedWeight(t, j)
           /\ FlightSum' - FlightSum = FlightWeight(t, j)' - FlightWeight(t, j)
           /\ QueuedSum \in Int /\ QueuedSum' \in Int /\ FlightSum \in Int /\ FlightSum' \in Int
<1>1. /\ pending' \ {j} = pending \ {j} /\ delayed' \ {j} = delayed \ {j}
      /\ inflight' \ {j} = inflight \ {j}
  <2>1. /\ pending \subseteq Jobs /\ pending' \subseteq Jobs /\ delayed \subseteq Jobs
        /\ delayed' \subseteq Jobs /\ inflight \subseteq Jobs /\ inflight' \subseteq Jobs
    BY DEF TypeOK
  <2> QED
    BY <2>1 DEF Elsewhere
<1>2. /\ \A s : Running(s)' \ {<<t, j>>} = Running(s) \ {<<t, j>>}
      /\ \A s : Removing(s)' \ {<<t, j>>} = Removing(s) \ {<<t, j>>}
      /\ SubmitFailing' \ {<<t, j>>} = SubmitFailing \ {<<t, j>>}
  BY Roles DEF Elsewhere, Running, Removing, SubmitFailing
<1>3. /\ IsFiniteSet(pending) /\ IsFiniteSet(delayed) /\ IsFiniteSet(inflight)
      /\ IsFiniteSet(Running(QueuedSteps)) /\ IsFiniteSet(SubmitFailing)
      /\ IsFiniteSet(Running({"sadd"})) /\ IsFiniteSet(Removing(RemovedSteps))
  BY FiniteSums
<1>4. /\ Cardinality(pending) \in Int /\ Cardinality(pending') \in Int
      /\ Cardinality(pending') = Cardinality(pending) + One(j \in pending') - One(j \in pending)
      /\ Cardinality(delayed) \in Int /\ Cardinality(delayed') \in Int
      /\ Cardinality(delayed') = Cardinality(delayed) + One(j \in delayed') - One(j \in delayed)
      /\ Cardinality(inflight) \in Int /\ Cardinality(inflight') \in Int
      /\ Cardinality(inflight') = Cardinality(inflight) + One(j \in inflight') - One(j \in inflight)
  BY <1>1, <1>3, CardDelta
<1>5. /\ Cardinality(Running(QueuedSteps)) \in Int /\ Cardinality(Running(QueuedSteps)') \in Int
      /\ Cardinality(Running(QueuedSteps)') = Cardinality(Running(QueuedSteps))
            + One(<<t, j>> \in Running(QueuedSteps)') - One(<<t, j>> \in Running(QueuedSteps))
  BY <1>2, <1>3, CardDelta
<1>6. /\ Cardinality(SubmitFailing) \in Int /\ Cardinality(SubmitFailing') \in Int
      /\ Cardinality(SubmitFailing') = Cardinality(SubmitFailing)
            + One(<<t, j>> \in SubmitFailing') - One(<<t, j>> \in SubmitFailing)
  BY <1>2, <1>3, CardDelta
<1>7. /\ Cardinality(Running({"sadd"})) \in Int /\ Cardinality(Running({"sadd"})') \in Int
      /\ Cardinality(Running({"sadd"})') = Cardinality(Running({"sadd"}))
            + One(<<t, j>> \in Running({"sadd"})') - One(<<t, j>> \in Running({"sadd"}))
  BY <1>2, <1>3, CardDelta
<1>8. /\ Cardinality(Removing(RemovedSteps)) \in Int /\ Cardinality(Removing(RemovedSteps)') \in Int
      /\ Cardinality(Removing(RemovedSteps)') = Cardinality(Removing(RemovedSteps))
            + One(<<t, j>> \in Removing(RemovedSteps)') - One(<<t, j>> \in Removing(RemovedSteps))
  BY <1>2, <1>3, CardDelta
<1>9. /\ One(j \in pending) \in Int /\ One(j \in pending') \in Int
      /\ One(j \in delayed) \in Int /\ One(j \in delayed') \in Int
      /\ One(j \in inflight) \in Int /\ One(j \in inflight') \in Int
      /\ One(<<t, j>> \in Running(QueuedSteps)) \in Int /\ One(<<t, j>> \in Running(QueuedSteps)') \in Int
      /\ One(<<t, j>> \in SubmitFailing) \in Int /\ One(<<t, j>> \in SubmitFailing') \in Int
      /\ One(<<t, j>> \in Running({"sadd"})) \in Int /\ One(<<t, j>> \in Running({"sadd"})') \in Int
      /\ One(<<t, j>> \in Removing(RemovedSteps)) \in Int /\ One(<<t, j>> \in Removing(RemovedSteps)') \in Int
  BY DEF One
<1>10. /\ QueuedSum' - QueuedSum = QueuedWeight(t, j)' - QueuedWeight(t, j)
       /\ QueuedSum \in Int /\ QueuedSum' \in Int
  <2>1. QueuedSum' - QueuedSum = QueuedWeight(t, j)' - QueuedWeight(t, j)
    BY <1>4, <1>5, <1>6, <1>9 DEF QueuedSum, QueuedWeight
  <2>2. QueuedSum \in Int /\ QueuedSum' \in Int
    BY <1>4, <1>5, <1>6 DEF QueuedSum
  <2> QED
    BY <2>1, <2>2
<1>11. /\ FlightSum' - FlightSum = FlightWeight(t, j)' - FlightWeight(t, j)
       /\ FlightSum \in Int /\ FlightSum' \in Int
  BY <1>4, <1>7, <1>8, <1>9 DEF FlightSum, FlightWeight
<1> QED
  BY <1>10, <1>11

LEMMA Weights ==
    ASSUME NEW t \in Tasks, NEW j \in Jobs
    PROVE  /\ \A b : SlotWeight(t, j, b) =
                One(j \in inflight /\ backend[j] = b)
                  - One(t \in Submitters /\ pc[t][j] = "sadd" /\ loc[t][j].bk = b)
                  + One(pc[t][j] \in RemovedSteps /\ loc[t][j].rem /\ loc[t][j].bk = b)
           /\ QueuedWeight(t, j) =
                One(j \in pending) + One(j \in delayed) + One(pc[t][j] \in QueuedSteps)
                  + One(t \in Submitters /\ pc[t][j] \in FailingSteps)
           /\ FlightWeight(t, j) =
                One(j \in inflight) - One(pc[t][j] = "sadd")
                  + One(pc[t][j] \in RemovedSteps /\ loc[t][j].rem)
BY DEF SlotWeight, QueuedWeight, FlightWeight, InflightOn, Uncounted, Unreleased, Running, Removing,
   SubmitFailing, One, At, RemovedSteps, FailingSteps

LEMMA WeightsAfter ==
    ASSUME NEW t \in Tasks, NEW j \in Jobs
    PROVE  /\ \A b : SlotWeight(t, j, b)' =
                One(j \in inflight' /\ backend'[j] = b)
                  - One(t \in Submitters /\ pc'[t][j] = "sadd" /\ loc'[t][j].bk = b)
                  + One(pc'[t][j] \in RemovedSteps /\ loc'[t][j].rem /\ loc'[t][j].bk = b)
           /\ QueuedWeight(t, j)' =
                One(j \in pending') + One(j \in delayed') + One(pc'[t][j] \in QueuedSteps)
                  + One(t \in Submitters /\ pc'[t][j] \in FailingSteps)
           /\ FlightWeight(t, j)' =
                One(j \in inflight') - One(pc'[t][j] = "sadd")
                  + One(pc'[t][j] \in RemovedSteps /\ loc'[t][j].rem)
BY DEF SlotWeight, QueuedWeight, FlightWeight, InflightOn, Uncounted, Unreleased, Running, Removing,
   SubmitFailing, One, At, RemovedSteps, FailingSteps

\* A step moves each counter by what its sum moves.
Balanced(t, j) ==
    /\ \A b \in Backends : slots'[b] - slots[b] = SlotWeight(t, j, b)' - SlotWeight(t, j, b)
    /\ loadQueued' - loadQueued = QueuedWeight(t, j)' - QueuedWeight(t, j)
    /\ loadInflight' - loadInflight = FlightWeight(t, j)' - FlightWeight(t, j)

LEMMA StillBalanced ==
    ASSUME TypeOK, NEW t \in Tasks, NEW j \in Jobs,
           slots' = slots, loadQueued' = loadQueued, loadInflight' = loadInflight,
           j \in pending' <=> j \in pending, j \in delayed' <=> j \in delayed,
           j \in inflight' <=> j \in inflight, backend'[j] = backend[j] \/ j \notin inflight,
           pc[t][j] \in QueuedSteps <=> pc'[t][j] \in QueuedSteps,
           t \in Submitters => (pc[t][j] \in FailingSteps <=> pc'[t][j] \in FailingSteps),
           pc[t][j] \notin RemovedSteps \cup {"sadd"}, pc'[t][j] \notin RemovedSteps \cup {"sadd"}
    PROVE  Balanced(t, j)
<1>1. QueuedWeight(t, j)' = QueuedWeight(t, j)
  <2>1. One(j \in pending') = One(j \in pending) /\ One(j \in delayed') = One(j \in delayed)
    BY DEF One
  <2>2. /\ One(pc'[t][j] \in QueuedSteps) = One(pc[t][j] \in QueuedSteps)
        /\ One(t \in Submitters /\ pc'[t][j] \in FailingSteps) =
             One(t \in Submitters /\ pc[t][j] \in FailingSteps)
    BY DEF One
  <2> QED
    BY <2>1, <2>2, Weights, WeightsAfter
<1>2. FlightWeight(t, j)' = FlightWeight(t, j)
  <2>1. /\ One(j \in inflight') = One(j \in inflight)
        /\ One(pc'[t][j] = "sadd") = One(pc[t][j] = "sadd")
        /\ One(pc'[t][j] \in RemovedSteps /\ loc'[t][j].rem) = One(pc[t][j] \in RemovedSteps /\ loc[t][j].rem)
    BY DEF One
  <2> QED
    BY <2>1, Weights, WeightsAfter
<1>3. ASSUME NEW b \in Backends
      PROVE  SlotWeight(t, j, b)' = SlotWeight(t, j, b)
  <2>1. /\ One(j \in inflight' /\ backend'[j] = b) = One(j \in inflight /\ backend[j] = b)
        /\ One(t \in Submitters /\ pc'[t][j] = "sadd" /\ loc'[t][j].bk = b) =
             One(t \in Submitters /\ pc[t][j] = "sadd" /\ loc[t][j].bk = b)
        /\ One(pc'[t][j] \in RemovedSteps /\ loc'[t][j].rem /\ loc'[t][j].bk = b) =
             One(pc[t][j] \in RemovedSteps /\ loc[t][j].rem /\ loc[t][j].bk = b)
    BY DEF One
  <2> QED
    BY <2>1, Weights, WeightsAfter
<1>4. \A b : SlotWeight(t, j, b) \in Int
  <2>1. \A P : One(P) \in Int
    BY DEF One
  <2> QED
    BY <2>1, Weights
<1>5. QueuedWeight(t, j) \in Int /\ FlightWeight(t, j) \in Int
  <2>1. \A P : One(P) \in Int
    BY DEF One
  <2> QED
    BY <2>1, Weights
<1>6. slots \in [Backends -> Int] /\ loadQueued \in Int /\ loadInflight \in Int
  BY DEF TypeOK
<1> QED
  BY <1>1, <1>2, <1>3, <1>4, <1>5, <1>6 DEF Balanced

LEMMA BalancedSubmit ==
    ASSUME TypeOK, AloneInv, WholeInv, NEW w \in Submitters, NEW j \in Jobs, SubmitStep(w, j),
           Calm(j), faults' = faults
    PROVE  Balanced(w, j)
<1> USE Roles, SpareSteps DEF At, Finish
<1>0. /\ Alone(j) /\ Whole(j) /\ Sorted(j)
      /\ Busy(w, j) => KnowsSubmit(w, j)
  BY DEF AloneInv, WholeInv, Calm, Knows
<1>a. \A x : Goto(w, j, x) => pc'[w][j] = x
  BY PcAfter
<1>b. loadQueued \in Int /\ loadInflight \in Int /\ slots \in [Backends -> Int]
  BY DEF TypeOK
<1>1. CASE PromoteTake(w, j)
  <2>1. /\ pc[w][j] = "idle" /\ pc'[w][j] = "promoting" /\ j \in delayed /\ j \notin delayed'
        /\ pending' = pending /\ inflight' = inflight /\ counterVars' = counterVars /\ backend' = backend
    BY <1>1, <1>a DEF PromoteTake
  <2> QED
    BY <1>b, <2>1, Weights, WeightsAfter DEF Balanced, One, QueuedSteps, RemovedSteps, FailingSteps
<1>2. CASE PromoteAdd(w, j) \/ DispatchBack(w, j)
  <2>1. Busy(w, j) /\ hash[j] = "whole"
    BY <1>0, <1>2 DEF PromoteAdd, DispatchBack, Busy, Whole
  <2>2. /\ pc[w][j] \in {"promoting", "claimed"} /\ pc'[w][j] = "idle" /\ j \notin pending
        /\ j \in pending' /\ delayed' = delayed /\ inflight' = inflight /\ backend' = backend
        /\ counterVars' = counterVars
    BY <1>0, <1>2, <1>a, <2>1 DEF PromoteAdd, DispatchBack, Alone
  <2> QED
    BY <1>b, <2>2, Weights, WeightsAfter DEF Balanced, One, QueuedSteps, RemovedSteps, FailingSteps
<1>3. CASE Peek(w, j)
  <2>1. pc[w][j] = "idle" /\ pc'[w][j] = "peeked"
    BY <1>3, <1>a DEF Peek
  <2> QED
    BY <1>3, <2>1, StillBalanced DEF Peek, QueuedSteps, RemovedSteps, FailingSteps
<1>4. CASE DropPending(w, j)
  BY <1>0, <1>4 DEF DropPending, Whole
<1>5. CASE Claim(w, j)
  <2>1. CASE j \in pending
    <3>1. hash[j] = "whole"
      BY <1>0, <2>1 DEF Whole
    <3>2. /\ pc[w][j] = "peeked" /\ pc'[w][j] = "claimed" /\ j \notin pending' /\ delayed' = delayed
          /\ inflight' = inflight /\ backend' = backend /\ counterVars' = counterVars
      BY <1>5, <1>a, <2>1, <3>1 DEF Claim
    <3> QED
      BY <1>b, <2>1, <3>2, Weights, WeightsAfter DEF Balanced, One, QueuedSteps, RemovedSteps,
         FailingSteps
  <2>2. CASE j \notin pending
    <3>1. pc[w][j] = "peeked" /\ pc'[w][j] = "idle" /\ pending' = pending
      BY <1>5, <1>a, <2>2 DEF Claim
    <3> QED
      BY <1>5, <3>1, StillBalanced DEF Claim, QueuedSteps, RemovedSteps, FailingSteps
  <2> QED
    BY <2>1, <2>2
<1>6. CASE DispatchRetry(w, j) \/ EngineAccepts(w, j)
  <2>1. pc[w][j] = "claimed" /\ pc'[w][j] \in {"retrying", "accepted"}
    BY <1>6, <1>a DEF DispatchRetry, EngineAccepts
  <2> QED
    BY <1>6, <2>1, StillBalanced DEF DispatchRetry, EngineAccepts, QueuedSteps, RemovedSteps,
       FailingSteps
<1>7. CASE ScheduleRetry(w, j)
  <2>1. /\ pc[w][j] = "retrying" /\ pc'[w][j] = "idle" /\ j \notin delayed /\ j \in delayed'
        /\ pending' = pending /\ inflight' = inflight /\ backend' = backend /\ counterVars' = counterVars
    BY <1>0, <1>7, <1>a DEF ScheduleRetry, Alone, Busy
  <2> QED
    BY <1>b, <2>1, Weights, WeightsAfter DEF Balanced, One, QueuedSteps, RemovedSteps, FailingSteps
<1>8. CASE DispatchFail(w, j)
  <2>1. /\ pc[w][j] = "claimed" /\ pc'[w][j] = "sf_read"
        /\ UNCHANGED <<pending, delayed, inflight, backend, counterVars>>
    BY <1>8, <1>a DEF DispatchFail
  <2> QED
    BY <1>b, <2>1, Weights, WeightsAfter DEF Balanced, One, QueuedSteps, RemovedSteps, FailingSteps
<1>9. CASE SetRunningHash(w, j)
  <2>1. pc[w][j] = "accepted" /\ pc'[w][j] = "hset" /\ j \notin inflight
    BY <1>0, <1>9, <1>a DEF SetRunningHash, Alone, SubmitHeld, SubmitSteps
  <2> QED
    BY <1>9, <2>1, StillBalanced DEF SetRunningHash, QueuedSteps, RemovedSteps, FailingSteps
<1>10. CASE SetRunningAdd(w, j)
  <2>1. pc[w][j] = "hset" /\ j \notin inflight /\ loc[w][j].bk = backend[j]
    BY <1>0, <1>10 DEF SetRunningAdd, Alone, SubmitHeld, SubmitSteps, Busy, KnowsSubmit
  <2>2. /\ pc'[w][j] = "sadd" /\ j \in inflight' /\ loc' = loc
        /\ UNCHANGED <<pending, delayed, backend, counterVars>>
    BY <1>10, <1>a, <2>1 DEF SetRunningAdd
  <2> QED
    BY <1>b, <2>1, <2>2, Weights, WeightsAfter DEF Balanced, One, QueuedSteps, RemovedSteps,
       FailingSteps
<1>11. CASE SetRunningCount(w, j)
  <2>1. hash[j] = "whole"
    BY <1>0, <1>11 DEF SetRunningCount, Whole
  <2>2. /\ pc[w][j] = "sadd" /\ pc'[w][j] = "record" /\ loadQueued' = loadQueued - 1
        /\ loadInflight' = loadInflight + 1 /\ UNCHANGED <<pending, delayed, inflight, backend, loc>>
    BY <1>11, <1>a, <2>1 DEF SetRunningCount
  <2>3. \A b \in Backends : slots'[b] - slots[b] = One(loc[w][j].bk = b)
    BY <1>11, <1>b DEF SetRunningCount, One
  <2> QED
    BY <1>b, <2>2, <2>3, Weights, WeightsAfter DEF Balanced, One, QueuedSteps, RemovedSteps,
       FailingSteps
<1>12. CASE RecordRunning(w, j)
  <2>1. pc[w][j] = "record" /\ pc'[w][j] = "idle"
    BY <1>12, <1>a DEF RecordRunning
  <2> QED
    BY <1>12, <2>1, StillBalanced DEF RecordRunning, QueuedSteps, RemovedSteps, FailingSteps
<1>13. CASE SubmitError(w, j)
  BY <1>13 DEF SubmitError, Fault, TypeOK
<1> QED
  BY <1>1, <1>2, <1>3, <1>4, <1>5, <1>6, <1>7, <1>8, <1>9, <1>10, <1>11, <1>12, <1>13 DEF SubmitStep

LEMMA BalancedPoll ==
    ASSUME TypeOK, AloneInv, Prompt, WholeInv, NEW p \in Pollers, NEW j \in Jobs, PollStep(p, j),
           Calm(j)
    PROVE  Balanced(p, j)
<1> USE Roles, SpareSteps DEF At, Finish
<1>0. /\ Alone(j) /\ Whole(j) /\ Sorted(j)
      /\ Busy(p, j) => KnowsPoll(p, j)
  BY DEF AloneInv, WholeInv, Calm, Knows
<1>a. \A x : Goto(p, j, x) => pc'[p][j] = x
  BY PcAfter
<1>b. loadQueued \in Int /\ loadInflight \in Int /\ slots \in [Backends -> Int]
  BY DEF TypeOK
<1>1. CASE PollList(p, j) \/ PollRead(p, j) \/ PollRunning(p, j) \/ StoringRow(p, j)
             \/ PollRequeue(p, j) \/ PollFail(p, j) \/ RequeueRead(p, j) \/ RequeueBump(p, j)
             \/ RequeueRow(p, j)
  <2>1. /\ pc[p][j] \in {"idle", "listed", "checking", "storing_row", "rq_read", "rq_bump", "rq_row"}
        /\ pc'[p][j] \in {"idle", "listed", "checking", "rq_read", "mf_check", "rq_srem", "rq_row"}
    BY <1>1, <1>a DEF PollList, PollRead, PollRunning, StoringRow, PollRequeue, PollFail,
       RequeueRead, RequeueBump, RequeueRow
  <2>2. UNCHANGED <<pending, delayed, inflight, backend, slots, loadQueued, loadInflight>>
    BY <1>1 DEF PollList, PollRead, PollRunning, StoringRow, PollRequeue, PollFail,
       RequeueRead, RequeueBump, RequeueRow
  <2>3. pc[p][j] \notin RemovedSteps \cup QueuedSteps \cup {"sadd"}
    BY <2>1 DEF QueuedSteps, RemovedSteps
  <2>4. pc'[p][j] \notin RemovedSteps \cup QueuedSteps \cup {"sadd"}
    BY <2>1 DEF QueuedSteps, RemovedSteps
  <2> QED
    BY <2>2, <2>3, <2>4, StillBalanced
<1>2. CASE ReleaseDone(p, j)
  <2>1. Busy(p, j) /\ pc[p][j] = "checking" /\ j \in inflight /\ loc[p][j].bk = backend[j]
    BY <1>0, <1>2 DEF ReleaseDone, Busy, KnowsPoll
  <2>2. /\ pc'[p][j] = "storing_row" /\ j \notin inflight' /\ loadInflight' = loadInflight - 1
        /\ UNCHANGED <<pending, delayed, backend, loadQueued>>
        /\ slots' = [slots EXCEPT ![backend[j]] = @ - 1]
    BY <1>2, <1>a, <2>1 DEF ReleaseDone
  <2>3. \A b \in Backends : slots'[b] - slots[b] = - One(backend[j] = b)
    BY <1>b, <2>2 DEF One
  <2> QED
    BY <1>b, <2>1, <2>2, <2>3, Weights, WeightsAfter DEF Balanced, One, QueuedSteps, RemovedSteps,
       FailingSteps
<1>3. CASE RequeueRemove(p, j)
  <2>1. Busy(p, j) /\ pc[p][j] = "rq_srem" /\ j \in inflight /\ loc[p][j].bk = backend[j]
    BY <1>0, <1>3 DEF RequeueRemove, Busy, KnowsPoll
  <2>2. /\ pc'[p][j] = "rq_count" /\ j \notin inflight'
        /\ UNCHANGED <<pending, delayed, backend, slots, loadQueued, loadInflight>>
    BY <1>3, <1>a DEF RequeueRemove
  <2>4. loc'[p][j].bk = loc[p][j].bk /\ loc'[p][j].rem = (j \in inflight)
    BY <1>3, RemovedNotes DEF RequeueRemove
  <2>3. loc'[p][j].bk = backend[j] /\ loc'[p][j].rem
    BY <2>1, <2>4
  <2> QED
    BY <1>b, <2>1, <2>2, <2>3, Weights, WeightsAfter DEF Balanced, One, QueuedSteps, RemovedSteps,
       FailingSteps
<1>4. CASE RequeueCount(p, j)
  <2>1. Busy(p, j) /\ pc[p][j] = "rq_count" /\ loc[p][j].rem /\ loc[p][j].st # "absent"
    BY <1>0, <1>4 DEF RequeueCount, Busy, KnowsPoll
  <2>2. /\ pc'[p][j] = "rq_reset" /\ loadQueued' = loadQueued + 1 /\ loadInflight' = loadInflight - 1
        /\ UNCHANGED <<pending, delayed, inflight, backend, loc>>
    BY <1>4, <1>a, <2>1 DEF RequeueCount
  <2>3. \A b \in Backends : slots'[b] - slots[b] = - One(loc[p][j].bk = b)
    BY <1>4, <1>b, <2>1, PipelineAssumption DEF RequeueCount, Released, One
  <2> QED
    BY <1>b, <2>1, <2>2, <2>3, Weights, WeightsAfter DEF Balanced, One, QueuedSteps, RemovedSteps,
       FailingSteps
<1>5. CASE RequeueReset(p, j)
  <2>1. /\ pc[p][j] = "rq_reset" /\ pc'[p][j] = "rq_delay" /\ j \notin inflight
        /\ UNCHANGED <<pending, delayed, inflight, slots, loadQueued, loadInflight>>
    BY <1>0, <1>5, <1>a DEF RequeueReset, Alone, PollHeld, RequeueSteps
  <2> QED
    BY <2>1, StillBalanced DEF QueuedSteps, RemovedSteps
<1>6. CASE RequeueDelay(p, j)
  <2>1. /\ pc[p][j] = "rq_delay" /\ pc'[p][j] = "rq_bump" /\ j \notin delayed /\ j \in delayed'
        /\ UNCHANGED <<pending, inflight, backend, slots, loadQueued, loadInflight>>
    BY <1>0, <1>6, <1>a DEF RequeueDelay, Alone, Busy
  <2> QED
    BY <1>b, <2>1, Weights, WeightsAfter DEF Balanced, One, QueuedSteps, RemovedSteps, FailingSteps
<1> QED
  BY <1>1, <1>2, <1>3, <1>4, <1>5, <1>6 DEF PollStep

LEMMA BalancedHarvest ==
    ASSUME TypeOK, WholeInv, NEW h \in Harvesters, NEW j \in Jobs, HarvestStep(h, j),
           faults' = faults
    PROVE  Balanced(h, j)
<1> USE Roles DEF At, Finish
<1>a. \A x : Goto(h, j, x) => pc'[h][j] = x
  BY PcAfter
<1>1. CASE HarvestForget(h, j)
  BY <1>1 DEF HarvestForget, WholeInv, Whole
<1>2. CASE HarvestError(h, j)
  BY <1>2 DEF HarvestError, Fault, TypeOK
<1>3. CASE HarvestStart(h, j) \/ HarvestRetry(h, j) \/ HarvestFail(h, j) \/ RecordDone(h, j)
  <2>1. /\ pc[h][j] \in {"idle", "harvesting"}
        /\ pc'[h][j] \in {"harvesting", "idle", "mf_check", "sd_read"}
    BY <1>3, <1>a DEF HarvestStart, HarvestRetry, HarvestFail, RecordDone
  <2>2. UNCHANGED <<pending, delayed, inflight, backend, slots, loadQueued, loadInflight>>
    BY <1>3 DEF HarvestStart, HarvestRetry, HarvestFail, RecordDone
  <2> QED
    BY <2>1, <2>2, StillBalanced DEF QueuedSteps, RemovedSteps
<1> QED
  BY <1>1, <1>2, <1>3 DEF HarvestStep

LEMMA BalancedShared ==
    ASSUME TypeOK, AloneInv, DoneInv, WholeInv, NEW t \in Tasks, NEW j \in Jobs,
           SharedStep(t, j) \/ Abort(t, j), Calm(j), faults' = faults
    PROVE  Balanced(t, j)
<1> USE Roles, SpareSteps DEF At, Finish
<1>0. /\ Alone(j) /\ Done(j)
      /\ Busy(t, j) => Knows(t, j) /\ t \in Submitters \cup Pollers \cup Harvesters
  BY DEF AloneInv, Alone, DoneInv, Calm
<1>a. \A x : Goto(t, j, x) => pc'[t][j] = x
  BY PcAfter
<1>b. loadQueued \in Int /\ loadInflight \in Int /\ slots \in [Backends -> Int]
  BY DEF TypeOK
<1>1. CASE SetFailedRead(t, j) \/ SetFailedPage(t, j) \/ SetFailedWrite(t, j)
  <2>1. pc[t][j] \in FailingSteps \ RemovedSteps /\ pc'[t][j] \in FailingSteps \ RemovedSteps
    BY <1>1, <1>a DEF SetFailedRead, SetFailedPage, SetFailedWrite, FailingSteps, RemovedSteps
  <2>2. UNCHANGED <<pending, delayed, inflight, backend, slots, loadQueued, loadInflight>>
    BY <1>1 DEF SetFailedRead, SetFailedPage, SetFailedWrite
  <2>3. \A x \in FailingSteps : x \notin QueuedSteps \cup {"sadd"}
    BY DEF FailingSteps, QueuedSteps
  <2> QED
    BY <2>1, <2>2, <2>3, StillBalanced
<1>2. CASE SetFailedRemove(t, j)
  <2>1. Busy(t, j) /\ pc[t][j] = "sf_srem" /\ loc[t][j].bk = backend[j]
    BY <1>0, <1>2 DEF SetFailedRemove, Busy, Spare, Knows
  <2>2. /\ pc'[t][j] = "sf_count" /\ j \notin inflight'
        /\ UNCHANGED <<pending, delayed, backend, slots, loadQueued, loadInflight>>
    BY <1>2, <1>a DEF SetFailedRemove
  <2>3. loc'[t][j].bk = backend[j] /\ loc'[t][j].rem = (j \in inflight)
    BY <1>2, <2>1, RemovedNotes DEF SetFailedRemove
  <2>4. CASE j \in inflight
    <3>1. loc'[t][j].bk = backend[j] /\ loc'[t][j].rem
      BY <2>3, <2>4
    <3> QED
      BY <1>b, <2>1, <2>2, <2>4, <3>1, Weights, WeightsAfter DEF Balanced, One, QueuedSteps,
         RemovedSteps, FailingSteps
  <2>5. CASE j \notin inflight
    <3>1. loc'[t][j].bk = backend[j] /\ ~loc'[t][j].rem
      BY <2>3, <2>5
    <3> QED
      BY <1>b, <2>1, <2>2, <2>5, <3>1, Weights, WeightsAfter DEF Balanced, One, QueuedSteps,
         RemovedSteps, FailingSteps
  <2> QED
    BY <2>4, <2>5
<1>3. CASE SetFailedCount(t, j)
  <2>1. Busy(t, j) /\ pc[t][j] = "sf_count"
    BY <1>3 DEF SetFailedCount, Busy, Spare
  <2>2. /\ t \in Submitters => loc[t][j].st = "queued" /\ ~loc[t][j].rem
        /\ t \in Pollers => loc[t][j].st # "absent" /\ loc[t][j].rem
        /\ t \in Harvesters => loc[t][j].st # "queued" /\ ~loc[t][j].rem
    BY <1>0, <2>1 DEF Knows, KnowsSubmit, KnowsPoll, KnowsHarvest
  <2>3. pc'[t][j] = "sf_row" /\ UNCHANGED <<pending, delayed, inflight, backend, loc>>
    BY <1>3, <1>a DEF SetFailedCount
  <2>4. \A b \in Backends : slots'[b] - slots[b] = - One(loc[t][j].rem /\ loc[t][j].bk = b)
    BY <1>3, <1>b, PipelineAssumption DEF SetFailedCount, Released, One
  <2>5. loadInflight' - loadInflight = - One(loc[t][j].rem)
    BY <1>0, <1>3, <1>b, <2>1, <2>2 DEF SetFailedCount, One
  <2>6. loadQueued' - loadQueued = - One(t \in Submitters)
    BY <1>0, <1>3, <1>b, <2>1, <2>2 DEF SetFailedCount, One
  <2> QED
    BY <1>b, <2>1, <2>3, <2>4, <2>5, <2>6, Weights, WeightsAfter DEF Balanced, One, QueuedSteps,
       RemovedSteps, FailingSteps
<1>4. CASE FailRow(t, j) \/ SetDoneRead(t, j) \/ SetDonePage(t, j) \/ ReportDone(t, j)
             \/ SetDoneEnd(t, j)
  <2>1. /\ pc[t][j] \in {"sf_row", "sd_read", "sd_page", "sd_end", "reported"}
        /\ pc'[t][j] \in {"idle", "sd_page", "sd_write", "reported"}
    BY <1>4, <1>a DEF FailRow, SetDoneRead, SetDonePage, ReportDone, SetDoneEnd
  <2>2. UNCHANGED <<pending, delayed, inflight, backend, slots, loadQueued, loadInflight>>
    BY <1>4 DEF FailRow, SetDoneRead, SetDonePage, ReportDone, SetDoneEnd
  <2> QED
    BY <2>1, <2>2, StillBalanced DEF QueuedSteps, RemovedSteps, FailingSteps
<1>5. CASE MarkFailedCheck(t, j)
  <2>1. Busy(t, j) /\ t \notin Submitters
    BY <1>0, <1>5 DEF MarkFailedCheck, Busy, Spare, Knows, KnowsSubmit
  <2>2. /\ pc[t][j] = "mf_check" /\ pc'[t][j] \in {"sd_read", "sf_read"}
        /\ UNCHANGED <<pending, delayed, inflight, backend, slots, loadQueued, loadInflight>>
    BY <1>5, <1>a DEF MarkFailedCheck
  <2> QED
    BY <2>1, <2>2, StillBalanced DEF QueuedSteps, RemovedSteps
<1>6. CASE SetDoneWrite(t, j)
  <2>1. j \notin inflight
    BY <1>0, <1>6 DEF SetDoneWrite, Done, Quiet
  <2>2. /\ pc[t][j] = "sd_write" /\ pc'[t][j] = "sd_end" /\ j \notin inflight'
        /\ UNCHANGED <<pending, delayed, backend, slots, loadQueued, loadInflight>>
    BY <1>6, <1>a, <2>1 DEF SetDoneWrite
  <2> QED
    BY <2>1, <2>2, StillBalanced DEF QueuedSteps, RemovedSteps, FailingSteps
<1>7. CASE SetDoneCount(t, j)
  BY <1>0, <1>7 DEF SetDoneCount, Busy, Spare, Knows
<1>8. CASE Abort(t, j)
  BY <1>8 DEF Abort, Fault, TypeOK
<1> QED
  BY <1>1, <1>2, <1>3, <1>4, <1>5, <1>6, <1>7, <1>8 DEF SharedStep

LEMMA BalancedApi ==
    ASSUME TypeOK, AloneInv, NEW t, NEW j \in Jobs, ApiStep(j), faults' = faults
    PROVE  Balanced(t, j)
<1>b. loadQueued \in Int /\ loadInflight \in Int /\ slots \in [Backends -> Int]
  BY DEF TypeOK
<1>0. pc' = pc /\ loc' = loc
  BY ApiElsewhere
<1>1. /\ Running(QueuedSteps)' = Running(QueuedSteps) /\ Running({"sadd"})' = Running({"sadd"})
      /\ Removing(RemovedSteps)' = Removing(RemovedSteps) /\ SubmitFailing' = SubmitFailing
      /\ \A b : Uncounted(b)' = Uncounted(b) /\ Unreleased(b)' = Unreleased(b)
  BY <1>0 DEF Running, Removing, SubmitFailing, Uncounted, Unreleased, At
<1>2. /\ UNCHANGED <<delayed, inflight, backend, slots, loadInflight>>
      /\ loadQueued' - loadQueued = One(j \in pending') - One(j \in pending)
  <2>1. CASE SubmitRow(j)
    BY <1>b, <2>1 DEF SubmitRow, One
  <2>2. CASE Enqueue(j)
    <3>1. j \notin pending
      BY <2>2 DEF Enqueue, AloneInv, Alone
    <3> QED
      BY <1>b, <2>2, <3>1 DEF Enqueue, One
  <2>3. CASE ApiDies(j)
    BY <2>3 DEF ApiDies, Fault, TypeOK
  <2> QED
    BY <2>1, <2>2, <2>3 DEF ApiStep
<1>3. \A b : InflightOn(b)' = InflightOn(b)
  BY <1>2 DEF InflightOn
<1>4. \A b \in Backends : slots'[b] - slots[b] = SlotWeight(t, j, b)' - SlotWeight(t, j, b)
  <2> SUFFICES ASSUME NEW b \in Backends
               PROVE  slots'[b] - slots[b] = SlotWeight(t, j, b)' - SlotWeight(t, j, b)
    OBVIOUS
  <2>1. SlotWeight(t, j, b)' = SlotWeight(t, j, b)
    BY <1>1, <1>3 DEF SlotWeight
  <2>2. SlotWeight(t, j, b) \in Int
    BY DEF SlotWeight, One
  <2> QED
    BY <1>2, <1>b, <2>1, <2>2
<1>5. loadQueued' - loadQueued = QueuedWeight(t, j)' - QueuedWeight(t, j)
  <2>1. /\ One(j \in pending) \in Int /\ One(j \in pending') \in Int /\ One(j \in delayed) \in Int
        /\ One(<<t, j>> \in Running(QueuedSteps)) \in Int /\ One(<<t, j>> \in SubmitFailing) \in Int
    BY DEF One
  <2> QED
    BY <1>1, <1>2, <2>1 DEF QueuedWeight
<1>6. loadInflight' - loadInflight = FlightWeight(t, j)' - FlightWeight(t, j)
  <2>1. FlightWeight(t, j)' = FlightWeight(t, j)
    BY <1>1, <1>2 DEF FlightWeight
  <2>2. FlightWeight(t, j) \in Int
    BY DEF FlightWeight, One
  <2> QED
    BY <1>2, <1>b, <2>1, <2>2
<1> QED
  BY <1>4, <1>5, <1>6 DEF Balanced

-----------------------------------------------------------------------------
\* The counters are the sums.

Summed ==
    /\ \A b \in Backends : slots[b] = SlotSum(b)
    /\ loadQueued = QueuedSum /\ loadInflight = FlightSum
SumsInv == faults = 0 => Summed

LEMMA SumsInit == Init => SumsInv
<1> SUFFICES ASSUME Init PROVE Summed
  BY DEF SumsInv
<1>1. /\ pending = {} /\ delayed = {} /\ inflight = {} /\ SubmitFailing = {}
      /\ Running(QueuedSteps) = {} /\ Running({"sadd"}) = {} /\ Removing(RemovedSteps) = {}
  BY DEF Init, SubmitFailing, Running, Removing, QueuedSteps, RemovedSteps, Tasks
<1>2. \A b : InflightOn(b) = {} /\ Uncounted(b) = {} /\ Unreleased(b) = {}
  BY Roles DEF Init, InflightOn, Uncounted, Unreleased, At
<1>0. Cardinality({}) = 0
  BY FS_EmptySet
<1>3. loadQueued = QueuedSum /\ loadInflight = FlightSum
  <2>1. QueuedSum = 0 + 0 + 0 + 0 /\ FlightSum = 0 - 0 + 0
    BY <1>0, <1>1 DEF QueuedSum, FlightSum
  <2> QED
    BY <2>1 DEF Init
<1>4. \A b \in Backends : slots[b] = SlotSum(b)
  <2>1. \A b : SlotSum(b) = 0 - 0 + 0
    BY <1>0, <1>2 DEF SlotSum
  <2> QED
    BY <2>1 DEF Init
<1> QED
  BY <1>3, <1>4 DEF Summed

\* A step that moves each counter by what its sum moves keeps them equal.
LEMMA SumsMove ==
    ASSUME TypeOK, TypeOK', Summed, NEW t, NEW j \in Jobs, Elsewhere(t, j), Balanced(t, j)
    PROVE  Summed'
<1>1. slots' \in [Backends -> Int] /\ loadQueued' \in Int /\ loadInflight' \in Int
  BY DEF TypeOK
<1>2. \A b \in Backends : slots'[b] = SlotSum(b)'
  BY <1>1, SlotDelta DEF Summed, Balanced
<1>3. loadQueued' = QueuedSum' /\ loadInflight' = FlightSum'
  BY <1>1, LoadDelta DEF Summed, Balanced
<1> QED
  BY <1>2, <1>3 DEF Summed

LEMMA SumsStep ==
    ASSUME TypeOK, TypeOK', AloneInv, DoneInv, WholeInv, CalmInv, SumsInv, Prompt,
           [PipelineNext]_vars
    PROVE  SumsInv'
<1> SUFFICES ASSUME faults' = 0 PROVE Summed'
  BY DEF SumsInv
<1>0. faults' = faults
  BY FaultsCount DEF TypeOK
<1>s. Summed /\ \A j \in Jobs : Calm(j)
  BY <1>0 DEF SumsInv, CalmInv
<1>1. CASE UNCHANGED vars
  BY <1>1, <1>s DEF vars, Summed, SlotSum, QueuedSum, FlightSum, InflightOn, Uncounted, Unreleased,
     Running, Removing, SubmitFailing, At
<1>2. CASE \E j \in Jobs : ApiStep(j)
  BY <1>0, <1>2, <1>s, BalancedApi, ApiElsewhere, SumsMove
<1>3. CASE \E w \in Submitters, j \in Jobs : SubmitStep(w, j)
  BY <1>0, <1>3, <1>s, BalancedSubmit, SubmitElsewhere, SumsMove
<1>4. CASE \E p \in Pollers, j \in Jobs : PollStep(p, j)
  BY <1>4, <1>s, BalancedPoll, PollElsewhere, SumsMove
<1>5. CASE \E h \in Harvesters, j \in Jobs : HarvestStep(h, j)
  BY <1>0, <1>5, <1>s, BalancedHarvest, HarvestElsewhere, SumsMove
<1>6. CASE \E t \in Tasks, j \in Jobs : SharedStep(t, j) \/ Abort(t, j)
  BY <1>0, <1>6, <1>s, BalancedShared, SharedElsewhere, SumsMove
<1> QED
  BY <1>1, <1>2, <1>3, <1>4, <1>5, <1>6 DEF PipelineNext

LEMMA CountersStep ==
    ASSUME TypeOK, TypeOK', AloneInv, AloneInv', DoneInv, WholeInv, CalmInv, SumsInv, Prompt,
           OneHarvesterOnly, [PipelineNext]_vars
    PROVE  WholeInv' /\ CalmInv' /\ SumsInv'
<1>1. WholeInv'
  BY WholeStep
<1>2. CalmInv'
  BY CalmStep
<1>3. SumsInv'
  BY SumsStep
<1> QED
  BY <1>1, <1>2, <1>3

LEMMA SumsExact ==
    ASSUME CalmInv, SumsInv
    PROVE  CountersExact
<1>1. SlotsExact
  BY DEF SumsInv, Summed, SlotsExact, SlotSum
<1>2. LoadsExact
  BY DEF SumsInv, Summed, LoadsExact, QueuedSum, FlightSum, QueuedSteps, RemovedSteps
<1>3. PageCountedOnce
  BY DEF CalmInv, Calm, Sorted, PageCountedOnce
<1> QED
  BY <1>1, <1>2, <1>3 DEF CountersExact

\* While no worker has died, the counters kept beside the sets are exact whatever path
\* a job takes: each backend's slots, the two /load counters, and the pages a batch has
\* counted (set_running, release_done, release_and_requeue, set_done, set_failed).
THEOREM CountersKept ==
    ASSUME Prompt, OneHarvesterOnly
    PROVE  PipelineSpec => []CountersExact
<1>1. Init => WholeInv /\ CalmInv /\ SumsInv
  BY WholeInit, CalmInit, SumsInit
<1>2. (TypeOK /\ TypeOK' /\ AloneInv /\ AloneInv' /\ DoneInv /\ WholeInv /\ CalmInv /\ SumsInv
         /\ [PipelineNext]_vars) => WholeInv' /\ CalmInv' /\ SumsInv'
  BY CountersStep
<1>3. CalmInv /\ SumsInv => CountersExact
  BY SumsExact
<1> QED
  BY <1>1, <1>2, <1>3, SafetyInvariants, PTL DEF PipelineSpec

-----------------------------------------------------------------------------
\* The retry budget.

\* The tasks that may still count a retry of the job, by what they have read.
Armed(j) == {t \in Submitters \cup Pollers :
    \/ pc[t][j] \in {"peeked", "claimed", "checking"} /\ loc[t][j].rq < MaxRequeues
    \/ pc[t][j] \in {"rq_read", "rq_srem", "rq_count", "rq_reset", "rq_delay", "rq_bump"}}

\* A task arms itself below the limit and disarms when it counts.
BudgetInv == \A j \in Jobs :
    requeues[j] + Cardinality(Armed(j))
        <= MaxRequeues + Cardinality(Pollers) + Cardinality(Submitters) - 1

LEMMA ArmedBound ==
    ASSUME NEW S, S \subseteq Submitters \cup Pollers
    PROVE  /\ IsFiniteSet(S) /\ Cardinality(S) \in Nat
           /\ Cardinality(Pollers) \in Nat /\ Cardinality(Submitters) \in Nat
           /\ Cardinality(S) <= Cardinality(Pollers) + Cardinality(Submitters)
<1>1. IsFiniteSet(Submitters) /\ IsFiniteSet(Pollers) /\ Submitters \cap Pollers = {}
  BY PipelineAssumption, Roles, FS_Subset
<1>2. IsFiniteSet(Submitters \cup Pollers)
  BY <1>1, FS_Union
<1>3. Cardinality(Submitters \cup Pollers) = Cardinality(Submitters) + Cardinality(Pollers)
  BY <1>1, DisjointCard
<1>4. IsFiniteSet(S) /\ Cardinality(S) <= Cardinality(Submitters \cup Pollers)
  BY <1>2, FS_Subset
<1> QED
  BY <1>1, <1>3, <1>4, FS_CardinalityType

LEMMA BudgetInit ==
    ASSUME Submitters \cup Pollers # {}, Init
    PROVE  BudgetInv
<1>1. \A j \in Jobs : Armed(j) = {} /\ requeues[j] = 0
  BY Roles DEF Init, Armed
<1>2. Cardinality({}) = 0
  BY FS_EmptySet
<1>3. PICK t : t \in Submitters \cup Pollers
  OBVIOUS
<1>4. Cardinality({t}) = 1
  BY FS_Singleton
<1>5. Cardinality({t}) <= Cardinality(Pollers) + Cardinality(Submitters)
  BY <1>3, ArmedBound
<1>6. Cardinality(Pollers) \in Nat /\ Cardinality(Submitters) \in Nat /\ MaxRequeues \in Nat
  BY <1>3, ArmedBound, PipelineAssumption
<1>7. 0 + 0 <= MaxRequeues + Cardinality(Pollers) + Cardinality(Submitters) - 1
  BY <1>4, <1>5, <1>6
<1> QED
  BY <1>1, <1>2, <1>7 DEF BudgetInv

\* What a step does to the budget of its job: nothing, disarm, count or arm.
Spends(t, j) ==
    \/ requeues'[j] = requeues[j] /\ (t \in Armed(j)' => t \in Armed(j))
    \/ requeues'[j] = requeues[j] + 1 /\ t \in Armed(j) /\ t \notin Armed(j)'
    \/ requeues'[j] = requeues[j] /\ requeues[j] < MaxRequeues

LEMMA SpendsSubmit ==
    ASSUME TypeOK, NEW w \in Submitters, NEW j \in Jobs, SubmitStep(w, j)
    PROVE  Spends(w, j)
<1> USE Roles DEF At, Finish
<1>a. \A x : Goto(w, j, x) => pc'[w][j] = x
  BY PcAfter
<1>1. CASE Peek(w, j)
  <2>1. PICK b \in Backends : Keep(w, j, [NoLocals EXCEPT !.bk = b, !.rq = requeues[j]])
    BY <1>1 DEF Peek
  <2> DEFINE m == [NoLocals EXCEPT !.bk = b, !.rq = requeues[j]]
  <2>2. m.rq = requeues[j]
    BY DEF NoLocals
  <2>3. loc'[w][j] = m
    BY <2>1, LocAfter
  <2> HIDE DEF m
  <2>4. requeues' = requeues /\ pc'[w][j] = "peeked" /\ requeues[j] \in Int /\ MaxRequeues \in Int
    BY <1>1, <1>a, PipelineAssumption DEF Peek, TypeOK
  <2> QED
    BY <2>2, <2>3, <2>4 DEF Spends, Armed
<1>2. CASE DispatchRetry(w, j)
  <2>1. /\ requeues'[j] = requeues[j] + 1 /\ pc[w][j] = "claimed" /\ loc[w][j].rq < MaxRequeues
        /\ pc'[w][j] = "retrying"
    BY <1>2, <1>a DEF DispatchRetry, TypeOK
  <2> QED
    BY <2>1 DEF Spends, Armed
<1>3. CASE Claim(w, j)
  <2>1. requeues' = requeues /\ pc[w][j] = "peeked"
    BY <1>3 DEF Claim
  <2>2. pc'[w][j] = "idle" \/ (pc'[w][j] = "claimed" /\ loc' = loc)
    BY <1>3, <1>a DEF Claim
  <2> QED
    BY <2>1, <2>2 DEF Spends, Armed
<1>4. CASE DropPending(w, j)
  BY <1>4 DEF DropPending, Spends, Armed
<1>5. CASE ~Peek(w, j) /\ ~DispatchRetry(w, j) /\ ~Claim(w, j) /\ ~DropPending(w, j)
  <2>1. requeues' = requeues
    BY <1>5 DEF SubmitStep, PromoteTake, PromoteAdd, DispatchBack, ScheduleRetry, DispatchFail,
       EngineAccepts, SetRunningHash, SetRunningAdd, SetRunningCount, RecordRunning, SubmitError
  <2>2. CASE PromoteTake(w, j) \/ PromoteAdd(w, j) \/ DispatchBack(w, j) \/ ScheduleRetry(w, j)
               \/ DispatchFail(w, j) \/ EngineAccepts(w, j)
    <3>1. pc'[w][j] \in {"promoting", "idle", "sf_read", "accepted"}
      BY <1>a, <2>2 DEF PromoteTake, PromoteAdd, DispatchBack, ScheduleRetry, DispatchFail,
         EngineAccepts
    <3> QED
      BY <2>1, <3>1 DEF Spends, Armed
  <2>3. CASE SetRunningHash(w, j) \/ SetRunningAdd(w, j) \/ SetRunningCount(w, j)
               \/ RecordRunning(w, j) \/ SubmitError(w, j)
    <3>1. pc'[w][j] \in {"hset", "sadd", "record", "idle", "sf_read"}
      BY <1>a, <2>3 DEF SetRunningHash, SetRunningAdd, SetRunningCount, RecordRunning, SubmitError
    <3> QED
      BY <2>1, <3>1 DEF Spends, Armed
  <2> QED
    BY <1>5, <2>2, <2>3 DEF SubmitStep
<1> QED
  BY <1>1, <1>2, <1>3, <1>4, <1>5

LEMMA SpendsPoll ==
    ASSUME TypeOK, NEW p \in Pollers, NEW j \in Jobs, PollStep(p, j)
    PROVE  Spends(p, j)
<1> USE Roles DEF At, Finish
<1>a. \A x : Goto(p, j, x) => pc'[p][j] = x
  BY PcAfter
<1>1. CASE PollRead(p, j)
  <2> DEFINE m == [NoLocals EXCEPT !.bk = backend[j], !.st = status[j], !.rq = requeues[j]]
  <2>1. m.rq = requeues[j]
    BY DEF NoLocals
  <2>2. requeues' = requeues /\ requeues[j] \in Int /\ MaxRequeues \in Int
    BY <1>1, PipelineAssumption DEF PollRead, TypeOK
  <2>3. pc'[p][j] = "idle" \/ (pc'[p][j] = "checking" /\ loc'[p][j] = m)
    BY <1>1, <1>a, LocAfter DEF PollRead
  <2> HIDE DEF m
  <2> QED
    BY <2>1, <2>2, <2>3 DEF Spends, Armed
<1>2. CASE RequeueBump(p, j)
  <2>1. requeues'[j] = requeues[j] + 1 /\ pc[p][j] = "rq_bump" /\ pc'[p][j] = "rq_row"
    BY <1>2, <1>a DEF RequeueBump, TypeOK
  <2> QED
    BY <2>1 DEF Spends, Armed
<1>3. CASE PollRequeue(p, j)
  <2>1. requeues' = requeues /\ pc[p][j] = "checking" /\ loc[p][j].rq < MaxRequeues
    BY <1>3 DEF PollRequeue
  <2> QED
    BY <2>1 DEF Spends, Armed
<1>4. CASE RequeueRead(p, j) \/ RequeueRemove(p, j) \/ RequeueCount(p, j) \/ RequeueReset(p, j)
             \/ RequeueDelay(p, j)
  <2>1. /\ requeues' = requeues
        /\ pc[p][j] \in {"rq_read", "rq_srem", "rq_count", "rq_reset", "rq_delay", "rq_bump"}
    BY <1>4 DEF RequeueRead, RequeueRemove, RequeueCount, RequeueReset, RequeueDelay
  <2> QED
    BY <2>1 DEF Spends, Armed
<1>5. CASE PollList(p, j) \/ PollRunning(p, j) \/ ReleaseDone(p, j) \/ StoringRow(p, j)
             \/ PollFail(p, j) \/ RequeueRow(p, j)
  <2>1. requeues' = requeues /\ pc'[p][j] \in {"listed", "idle", "storing_row", "mf_check"}
    BY <1>5, <1>a DEF PollList, PollRunning, ReleaseDone, StoringRow, PollFail, RequeueRow
  <2> QED
    BY <2>1 DEF Spends, Armed
<1> QED
  BY <1>1, <1>2, <1>3, <1>4, <1>5 DEF PollStep

LEMMA SpendsHarvest ==
    ASSUME TypeOK, NEW h \in Harvesters, NEW j \in Jobs, HarvestStep(h, j)
    PROVE  Spends(h, j)
<1>1. requeues' = requeues
  BY DEF HarvestStep, HarvestStart, HarvestForget, HarvestRetry, HarvestFail, RecordDone, HarvestError
<1>2. h \notin Submitters \cup Pollers
  BY Roles
<1> QED
  BY <1>1, <1>2 DEF Spends, Armed

\* Where the shared functions leave a task.
LEMMA SharedMoves ==
    ASSUME TypeOK, NEW t \in Tasks, NEW j \in Jobs, SharedStep(t, j) \/ Abort(t, j)
    PROVE  pc'[t][j] \in {"sf_page", "sf_write", "sf_srem", "sf_count", "sf_row", "idle", "sd_read",
                          "sf_read", "sd_page", "sd_write", "sd_count", "sd_end", "reported"}
<1> USE DEF At, Finish
<1>1. \A x : Goto(t, j, x) => pc'[t][j] = x
  BY PcAfter
<1> QED
  BY <1>1 DEF SharedStep, SetFailedRead, SetFailedPage, SetFailedWrite, SetFailedRemove,
     SetFailedCount, FailRow, MarkFailedCheck, SetDoneRead, SetDonePage, SetDoneWrite, SetDoneCount,
     ReportDone, SetDoneEnd, Abort

LEMMA SpendsShared ==
    ASSUME TypeOK, NEW t \in Tasks, NEW j \in Jobs, SharedStep(t, j) \/ Abort(t, j)
    PROVE  Spends(t, j)
<1>1. requeues' = requeues
  BY DEF SharedStep, SetFailedRead, SetFailedPage, SetFailedWrite, SetFailedRemove,
     SetFailedCount, FailRow, MarkFailedCheck, SetDoneRead, SetDonePage, SetDoneWrite, SetDoneCount,
     ReportDone, SetDoneEnd, Abort
<1> QED
  BY <1>1, SharedMoves DEF Spends, Armed

LEMMA BudgetMove ==
    ASSUME TypeOK, BudgetInv, NEW t, NEW i \in Jobs, Elsewhere(t, i), Spends(t, i),
           requeues' \in [Jobs -> Nat]
    PROVE  BudgetInv'
<1> SUFFICES ASSUME NEW j \in Jobs
             PROVE  requeues'[j] + Cardinality(Armed(j)')
                      <= MaxRequeues + Cardinality(Pollers) + Cardinality(Submitters) - 1
  BY DEF BudgetInv
<1>0. /\ requeues[j] + Cardinality(Armed(j))
           <= MaxRequeues + Cardinality(Pollers) + Cardinality(Submitters) - 1
      /\ requeues[j] \in Nat /\ requeues'[j] \in Nat
      /\ MaxRequeues \in Nat
  BY PipelineAssumption DEF BudgetInv, TypeOK
<1>1. CASE i # j
  <2>1. Armed(j)' = Armed(j) /\ requeues'[j] = requeues[j]
    BY <1>1, Roles DEF Elsewhere, Armed
  <2> QED
    BY <1>0, <2>1
<1>2. CASE i = j
  <2>1. Armed(j)' \ {t} = Armed(j) \ {t}
    BY <1>2, Roles DEF Elsewhere, Armed
  <2>2. /\ IsFiniteSet(Armed(j)) /\ Cardinality(Armed(j)) \in Nat /\ Cardinality(Armed(j)') \in Nat
        /\ Cardinality(Armed(j)') <= Cardinality(Pollers) + Cardinality(Submitters)
        /\ Cardinality(Pollers) \in Nat /\ Cardinality(Submitters) \in Nat
    <3>1. Armed(j) \subseteq Submitters \cup Pollers /\ Armed(j)' \subseteq Submitters \cup Pollers
      BY DEF Armed
    <3> QED
      BY <3>1, ArmedBound
  <2>3. Cardinality(Armed(j)') = Cardinality(Armed(j)) + One(t \in Armed(j)') - One(t \in Armed(j))
    BY <2>1, <2>2, CardDelta
  <2>4. CASE requeues'[j] = requeues[j] /\ (t \in Armed(j)' => t \in Armed(j))
    BY <1>0, <2>2, <2>3, <2>4 DEF One
  <2>5. CASE requeues'[j] = requeues[j] + 1 /\ t \in Armed(j) /\ t \notin Armed(j)'
    BY <1>0, <2>2, <2>3, <2>5 DEF One
  <2>6. CASE requeues'[j] = requeues[j] /\ requeues[j] < MaxRequeues
    BY <1>0, <2>2, <2>6
  <2> QED
    BY <1>2, <2>4, <2>5, <2>6 DEF Spends
<1> QED
  BY <1>1, <1>2

LEMMA BudgetStep ==
    ASSUME TypeOK, TypeOK', BudgetInv, [PipelineNext]_vars
    PROVE  BudgetInv'
<1>0. requeues' \in [Jobs -> Nat]
  BY DEF TypeOK
<1>1. CASE UNCHANGED vars
  BY <1>1 DEF vars, BudgetInv, Armed
<1>2. CASE \E j \in Jobs : ApiStep(j)
  <2>1. requeues' = requeues /\ pc' = pc /\ loc' = loc
    BY <1>2 DEF ApiStep, SubmitRow, Enqueue, ApiDies
  <2> QED
    BY <2>1 DEF BudgetInv, Armed
<1>3. CASE \E w \in Submitters, j \in Jobs : SubmitStep(w, j)
  BY <1>0, <1>3, SpendsSubmit, SubmitElsewhere, BudgetMove
<1>4. CASE \E p \in Pollers, j \in Jobs : PollStep(p, j)
  BY <1>0, <1>4, SpendsPoll, PollElsewhere, BudgetMove
<1>5. CASE \E h \in Harvesters, j \in Jobs : HarvestStep(h, j)
  BY <1>0, <1>5, SpendsHarvest, HarvestElsewhere, BudgetMove
<1>6. CASE \E t \in Tasks, j \in Jobs : SharedStep(t, j) \/ Abort(t, j)
  BY <1>0, <1>6, SpendsShared, SharedElsewhere, BudgetMove
<1> QED
  BY <1>1, <1>2, <1>3, <1>4, <1>5, <1>6 DEF PipelineNext

LEMMA BudgetOverrun ==
    ASSUME TypeOK, BudgetInv
    PROVE  RetryOverrun
<1> SUFFICES ASSUME NEW j \in Jobs
             PROVE  requeues[j] <= MaxRequeues + Cardinality(Pollers) + Cardinality(Submitters) - 1
  BY DEF RetryOverrun
<1>1. Armed(j) \subseteq Submitters \cup Pollers
  BY DEF Armed
<1>2. /\ Cardinality(Armed(j)) \in Nat /\ Cardinality(Pollers) \in Nat
      /\ Cardinality(Submitters) \in Nat /\ MaxRequeues \in Nat /\ requeues[j] \in Nat
  BY <1>1, ArmedBound, PipelineAssumption DEF TypeOK
<1> QED
  BY <1>2 DEF BudgetInv

\* Whatever fails and however many workers run, a job is requeued at most max_requeues
\* times and once more for each poller and each further submit worker: what a stale
\* snapshot costs the retry budget (_retry_later, count_requeue).
THEOREM RetriesBounded ==
    ASSUME Submitters \cup Pollers # {}
    PROVE  PipelineSpec => []RetryOverrun
<1>1. Init => BudgetInv
  BY BudgetInit
<1>2. TypeOK /\ TypeOK' /\ BudgetInv /\ [PipelineNext]_vars => BudgetInv'
  BY BudgetStep
<1>3. TypeOK /\ BudgetInv => RetryOverrun
  BY BudgetOverrun
<1>4. PipelineSpec => []TypeOK
  BY TypeCorrect
<1> QED
  BY <1>1, <1>2, <1>3, <1>4, PTL DEF PipelineSpec

-----------------------------------------------------------------------------
\* The limits of a dispatch tick, with one submit worker.

OneSubmitterOnly == \E w : Submitters = {w}

LoadSteps == {"peeked", "claimed", "accepted", "hset", "sadd"}
UnstoredSteps == {"peeked", "claimed", "accepted", "hset"}
HeldOn(w, b) == {j \in Holding(w, LoadSteps) : loc[w][j].bk = b}

\* What a tick checks before it allocates holds at every later moment: a slot taken is
\* held until it is counted, and room for a result until the result is stored.
LimitsInv ==
    /\ \A w \in Submitters, b \in Backends : Load(w, b) <= MaxInflight
    /\ faults = 0 => \A w \in Submitters : Unstored(w) <= UnstoredMax
    /\ faults = 0 => \A h \in Harvesters, j \in Jobs : pc[h][j] = "harvesting" => j \in harvest

LEMMA LoadIs ==
    /\ \A w, b : Load(w, b) = slots[b] + Cardinality(HeldOn(w, b))
    /\ \A w : Unstored(w) = Cardinality(inflight) + Cardinality(harvest)
                              + Cardinality(Holding(w, UnstoredSteps))
BY DEF Load, HeldOn, LoadSteps, Unstored, UnstoredSteps

LEMMA LoadIsAfter ==
    /\ \A w, b : Load(w, b)' = slots'[b] + Cardinality(HeldOn(w, b)')
    /\ \A w : Unstored(w)' = Cardinality(inflight') + Cardinality(harvest')
                              + Cardinality(Holding(w, UnstoredSteps)')
BY DEF Load, HeldOn, LoadSteps, Unstored, UnstoredSteps

LEMMA LimitsInit == Init => LimitsInv
<1> SUFFICES ASSUME Init PROVE LimitsInv
  OBVIOUS
<1>1. \A w \in Submitters, b \in Backends : HeldOn(w, b) = {} /\ slots[b] = 0
  BY Roles DEF Init, HeldOn, Holding, LoadSteps
<1>2. \A w \in Submitters : Holding(w, UnstoredSteps) = {} /\ inflight = {} /\ harvest = {}
  BY Roles DEF Init, Holding, UnstoredSteps
<1>3. Cardinality({}) = 0
  BY FS_EmptySet
<1>4. \A w \in Submitters, b \in Backends : Load(w, b) = 0 + 0
  BY <1>1, <1>3, LoadIs
<1>5. \A w \in Submitters : Unstored(w) = 0 + 0 + 0
  BY <1>2, <1>3, LoadIs
<1>6. \A h \in Harvesters, j \in Jobs : pc[h][j] # "harvesting"
  BY Roles DEF Init
<1> QED
  BY <1>4, <1>5, <1>6, PipelineAssumption DEF LimitsInv

\* A step that lets go of a slot before it takes one, or takes one there is room for.
Gentle(w, j, b) ==
    \/ slots'[b] + One(j \in HeldOn(w, b)') <= slots[b] + One(j \in HeldOn(w, b))
    \/ slots'[b] = slots[b] /\ Load(w, b) < MaxInflight

LEMMA LoadMove ==
    ASSUME TypeOK, TypeOK', NEW t, NEW j \in Jobs, Elsewhere(t, j), NEW w \in Submitters,
           NEW b \in Backends, Load(w, b) <= MaxInflight, Gentle(w, j, b)
    PROVE  Load(w, b)' <= MaxInflight
<1>1. HeldOn(w, b)' \ {j} = HeldOn(w, b) \ {j}
  BY Roles DEF Elsewhere, HeldOn, Holding
<1>2. IsFiniteSet(HeldOn(w, b))
  BY PipelineAssumption, FS_Subset DEF HeldOn, Holding
<1>3. /\ Cardinality(HeldOn(w, b)) \in Int /\ Cardinality(HeldOn(w, b)') \in Int
      /\ Cardinality(HeldOn(w, b)') = Cardinality(HeldOn(w, b)) + One(j \in HeldOn(w, b)') - One(j \in HeldOn(w, b))
  BY <1>1, <1>2, CardDelta
<1>4. /\ One(j \in HeldOn(w, b)) \in {0, 1} /\ One(j \in HeldOn(w, b)') \in {0, 1}
      /\ slots[b] \in Int /\ slots'[b] \in Int /\ MaxInflight \in Int
  BY PipelineAssumption DEF One, TypeOK
<1>5. Load(w, b) = slots[b] + Cardinality(HeldOn(w, b))
  BY LoadIs
<1>6. Load(w, b)' = slots'[b] + Cardinality(HeldOn(w, b)')
  BY LoadIsAfter
<1> QED
  BY <1>3, <1>4, <1>5, <1>6 DEF Gentle

LEMMA GentleSubmit ==
    ASSUME TypeOK, NEW w \in Submitters, NEW j \in Jobs, SubmitStep(w, j), NEW b \in Backends
    PROVE  Gentle(w, j, b)
<1> USE Roles DEF At, Finish
<1>a. \A x : Goto(w, j, x) => pc'[w][j] = x
  BY PcAfter
<1>b. slots[b] \in Int
  BY DEF TypeOK
<1>1. CASE Peek(w, j)
  <2>1. PICK c \in Backends : HasRoom(w, c) /\ Keep(w, j, [NoLocals EXCEPT !.bk = c, !.rq = requeues[j]])
    BY <1>1 DEF Peek
  <2> DEFINE m == [NoLocals EXCEPT !.bk = c, !.rq = requeues[j]]
  <2>2. m.bk = c
    BY DEF NoLocals
  <2>3. loc'[w][j] = m /\ slots' = slots
    BY <1>1, <2>1, LocAfter DEF Peek
  <2> HIDE DEF m
  <2>4. CASE b = c
    BY <2>1, <2>3, <2>4 DEF Gentle, HasRoom
  <2>5. CASE b # c
    <3>1. j \notin HeldOn(w, b)'
      BY <2>2, <2>3, <2>5 DEF HeldOn
    <3> QED
      BY <1>b, <2>3, <3>1 DEF Gentle, One
  <2> QED
    BY <2>4, <2>5
<1>2. CASE SetRunningCount(w, j)
  <2>1. /\ slots'[b] = slots[b] + One(loc[w][j].bk = b)
        /\ pc[w][j] = "sadd" /\ pc'[w][j] = "record"
    BY <1>2, <1>a, <1>b DEF SetRunningCount, One, TypeOK
  <2>2. j \notin HeldOn(w, b)' /\ (loc[w][j].bk = b => j \in HeldOn(w, b))
    BY <2>1 DEF HeldOn, Holding, LoadSteps
  <2> QED
    BY <1>b, <2>1, <2>2 DEF Gentle, One
<1>3. CASE ~Peek(w, j) /\ ~SetRunningCount(w, j)
  <2>1. slots' = slots
    BY <1>3 DEF SubmitStep, PromoteTake, PromoteAdd, DropPending, Claim, DispatchBack, DispatchRetry,
       ScheduleRetry, DispatchFail, EngineAccepts, SetRunningHash, SetRunningAdd, RecordRunning,
       SubmitError
  <2>2. CASE PromoteTake(w, j) \/ PromoteAdd(w, j) \/ DispatchBack(w, j) \/ ScheduleRetry(w, j)
               \/ DispatchFail(w, j) \/ RecordRunning(w, j) \/ SubmitError(w, j) \/ DispatchRetry(w, j)
    <3>1. pc'[w][j] \in {"promoting", "idle", "sf_read", "retrying"}
      BY <1>a, <2>2 DEF PromoteTake, PromoteAdd, DispatchBack, ScheduleRetry, DispatchFail,
         RecordRunning, SubmitError, DispatchRetry
    <3>2. j \notin HeldOn(w, b)'
      BY <3>1 DEF HeldOn, Holding, LoadSteps
    <3> QED
      BY <1>b, <2>1, <3>2 DEF Gentle, One
  <2>3. CASE EngineAccepts(w, j) \/ SetRunningHash(w, j) \/ SetRunningAdd(w, j)
    <3>1. pc[w][j] \in LoadSteps /\ loc' = loc
      BY <2>3 DEF EngineAccepts, SetRunningHash, SetRunningAdd, LoadSteps
    <3>2. j \in HeldOn(w, b)' => j \in HeldOn(w, b)
      BY <3>1 DEF HeldOn, Holding
    <3> QED
      BY <1>b, <2>1, <3>2 DEF Gentle, One
  <2>4. CASE Claim(w, j)
    <3>1. pc[w][j] = "peeked" /\ (pc'[w][j] = "idle" \/ loc' = loc)
      BY <1>a, <2>4 DEF Claim
    <3>2. j \in HeldOn(w, b)' => j \in HeldOn(w, b)
      BY <3>1 DEF HeldOn, Holding, LoadSteps
    <3> QED
      BY <1>b, <2>1, <3>2 DEF Gentle, One
  <2>5. CASE DropPending(w, j)
    <3>1. HeldOn(w, b)' = HeldOn(w, b)
      BY <2>5 DEF DropPending, HeldOn, Holding
    <3> QED
      BY <1>b, <2>1, <3>1 DEF Gentle, One
  <2> QED
    BY <1>3, <2>2, <2>3, <2>4, <2>5 DEF SubmitStep
<1> QED
  BY <1>1, <1>2, <1>3

\* Everyone else only gives slots back.
LEMMA GentleOther ==
    ASSUME TypeOK, NEW t \in Tasks, NEW j \in Jobs, NEW b \in Backends, NEW w \in Submitters,
           Elsewhere(t, j), slots'[b] \in {slots[b], slots[b] - 1},
           t # w \/ pc'[t][j] \notin LoadSteps
    PROVE  Gentle(w, j, b)
<1>1. j \in HeldOn(w, b)' => j \in HeldOn(w, b)
  BY Roles DEF HeldOn, Holding, Elsewhere
<1>2. slots[b] \in Int
  BY DEF TypeOK
<1> QED
  BY <1>1, <1>2 DEF Gentle, One

LEMMA SlotsPoll ==
    ASSUME TypeOK, NEW p \in Pollers, NEW j \in Jobs, PollStep(p, j), NEW b \in Backends
    PROVE  slots'[b] \in {slots[b], slots[b] - 1}
<1>1. CASE ReleaseDone(p, j)
  BY <1>1 DEF ReleaseDone, TypeOK
<1>2. CASE RequeueCount(p, j)
  BY <1>2 DEF RequeueCount, Released, TypeOK
<1>3. CASE ~ReleaseDone(p, j) /\ ~RequeueCount(p, j)
  <2>1. slots' = slots
    BY <1>3 DEF PollStep, PollList, PollRead, PollRunning, StoringRow, PollRequeue,
       PollFail, RequeueRead, RequeueRemove, RequeueReset, RequeueDelay, RequeueBump, RequeueRow
  <2> QED
    BY <2>1
<1> QED
  BY <1>1, <1>2, <1>3

LEMMA SlotsShared ==
    ASSUME TypeOK, NEW t \in Tasks, NEW j \in Jobs, SharedStep(t, j) \/ Abort(t, j),
           NEW b \in Backends
    PROVE  slots'[b] \in {slots[b], slots[b] - 1}
<1>1. CASE SetFailedCount(t, j) \/ SetDoneCount(t, j)
  BY <1>1 DEF SetFailedCount, SetDoneCount, Released, TypeOK
<1>2. CASE ~SetFailedCount(t, j) /\ ~SetDoneCount(t, j)
  <2>1. slots' = slots
    BY <1>2 DEF SharedStep, SetFailedRead, SetFailedPage, SetFailedWrite, SetFailedRemove,
       FailRow, MarkFailedCheck, SetDoneRead, SetDonePage, SetDoneWrite, ReportDone, SetDoneEnd, Abort
  <2> QED
    BY <2>1
<1> QED
  BY <1>1, <1>2

\* The same for the results that wait for storage.
UnstoredWeight(w, j) ==
    One(j \in inflight) + One(j \in harvest) + One(j \in Holding(w, UnstoredSteps))

Tidy(w, j) ==
    \/ UnstoredWeight(w, j)' <= UnstoredWeight(w, j)
    \/ UnstoredWeight(w, j)' <= UnstoredWeight(w, j) + 1 /\ Unstored(w) < UnstoredMax

LEMMA StoredMove ==
    ASSUME TypeOK, TypeOK', NEW t, NEW j \in Jobs, Elsewhere(t, j), NEW w \in Submitters,
           Unstored(w) <= UnstoredMax, Tidy(w, j)
    PROVE  Unstored(w)' <= UnstoredMax
<1>1. /\ Holding(w, UnstoredSteps)' \ {j} = Holding(w, UnstoredSteps) \ {j}
      /\ inflight' \ {j} = inflight \ {j} /\ harvest' \ {j} = harvest \ {j}
  <2>1. /\ inflight \subseteq Jobs /\ inflight' \subseteq Jobs
        /\ harvest \subseteq Jobs /\ harvest' \subseteq Jobs
    BY DEF TypeOK
  <2> QED
    BY <2>1, Roles DEF Elsewhere, Holding
<1>2. /\ IsFiniteSet(Holding(w, UnstoredSteps)) /\ IsFiniteSet(inflight) /\ IsFiniteSet(harvest)
  BY PipelineAssumption, FS_Subset DEF Holding, TypeOK
<1>3. /\ Cardinality(inflight) \in Int /\ Cardinality(inflight') \in Int
      /\ Cardinality(inflight') = Cardinality(inflight) + One(j \in inflight') - One(j \in inflight)
      /\ Cardinality(harvest) \in Int /\ Cardinality(harvest') \in Int
      /\ Cardinality(harvest') = Cardinality(harvest) + One(j \in harvest') - One(j \in harvest)
  BY <1>1, <1>2, CardDelta
<1>4. /\ Cardinality(Holding(w, UnstoredSteps)) \in Int /\ Cardinality(Holding(w, UnstoredSteps)') \in Int
      /\ Cardinality(Holding(w, UnstoredSteps)') = Cardinality(Holding(w, UnstoredSteps))
           + One(j \in Holding(w, UnstoredSteps)') - One(j \in Holding(w, UnstoredSteps))
  BY <1>1, <1>2, CardDelta
<1>5. /\ One(j \in inflight) \in Int /\ One(j \in inflight') \in Int
      /\ One(j \in harvest) \in Int /\ One(j \in harvest') \in Int
      /\ One(j \in Holding(w, UnstoredSteps)) \in Int /\ One(j \in Holding(w, UnstoredSteps)') \in Int
      /\ UnstoredMax \in Int
  BY PipelineAssumption DEF One
<1>6. /\ Unstored(w) = Cardinality(inflight) + Cardinality(harvest) + Cardinality(Holding(w, UnstoredSteps))
      /\ Unstored(w) \in Int
  BY <1>3, <1>4, LoadIs
<1>7. Unstored(w)' = Cardinality(inflight') + Cardinality(harvest') + Cardinality(Holding(w, UnstoredSteps)')
  BY LoadIsAfter
<1>8. Unstored(w)' - Unstored(w) = UnstoredWeight(w, j)' - UnstoredWeight(w, j)
  BY <1>3, <1>4, <1>5, <1>6, <1>7 DEF UnstoredWeight
<1>9. Unstored(w)' \in Int /\ UnstoredWeight(w, j)' \in Int /\ UnstoredWeight(w, j) \in Int
  <2>1. Unstored(w)' \in Int
    BY <1>3, <1>4, <1>7
  <2> QED
    BY <1>5, <2>1 DEF UnstoredWeight
<1> QED
  BY <1>5, <1>6, <1>8, <1>9 DEF Tidy

\* A step that adds the job to nothing is tidy.
LEMMA TidyShrink ==
    ASSUME NEW w, NEW j \in Jobs, j \in inflight' => j \in inflight, j \in harvest' => j \in harvest,
           j \in Holding(w, UnstoredSteps)' => j \in Holding(w, UnstoredSteps)
    PROVE  Tidy(w, j)
<1>1. /\ One(j \in inflight') <= One(j \in inflight) /\ One(j \in harvest') <= One(j \in harvest)
      /\ One(j \in Holding(w, UnstoredSteps)') <= One(j \in Holding(w, UnstoredSteps))
  BY DEF One
<1>2. \A P : One(P) \in Int
  BY DEF One
<1>3. UnstoredWeight(w, j)' <= UnstoredWeight(w, j)
  BY <1>1, <1>2 DEF UnstoredWeight
<1> QED
  BY <1>3 DEF Tidy

LEMMA TidySubmit ==
    ASSUME TypeOK, NEW w \in Submitters, NEW j \in Jobs, SubmitStep(w, j)
    PROVE  Tidy(w, j)
<1> USE Roles DEF At, Finish
<1>a. \A x : Goto(w, j, x) => pc'[w][j] = x
  BY PcAfter
<1>1. CASE Peek(w, j)
  <2>1. inflight' = inflight /\ harvest' = harvest /\ Unstored(w) < UnstoredMax
    BY <1>1 DEF Peek, HasRoom
  <2>2. One(j \in Holding(w, UnstoredSteps)') <= One(j \in Holding(w, UnstoredSteps)) + 1
    BY DEF One
  <2>3. \A P : One(P) \in Int
    BY DEF One
  <2>4. UnstoredWeight(w, j)' <= UnstoredWeight(w, j) + 1
    BY <2>1, <2>2, <2>3 DEF UnstoredWeight
  <2> QED
    BY <2>1, <2>4 DEF Tidy
<1>2. CASE SetRunningAdd(w, j)
  <2>1. /\ pc[w][j] = "hset" /\ pc'[w][j] \in {"sadd", "record"} /\ harvest' = harvest
    BY <1>2, <1>a DEF SetRunningAdd
  <2>2. j \in Holding(w, UnstoredSteps) /\ j \notin Holding(w, UnstoredSteps)'
    BY <2>1 DEF Holding, UnstoredSteps
  <2>3. UnstoredWeight(w, j)' <= UnstoredWeight(w, j)
    <3>1. One(j \in harvest) \in Int
      BY DEF One
    <3> QED
      BY <2>1, <2>2, <3>1 DEF UnstoredWeight, One
  <2> QED
    BY <2>3 DEF Tidy
<1>3. CASE ~Peek(w, j) /\ ~SetRunningAdd(w, j)
  <2>1. inflight' = inflight /\ harvest' = harvest
    BY <1>3 DEF SubmitStep, PromoteTake, PromoteAdd, DropPending, Claim, DispatchBack, DispatchRetry,
       ScheduleRetry, DispatchFail, EngineAccepts, SetRunningHash, SetRunningCount, RecordRunning,
       SubmitError
  <2>2. CASE PromoteTake(w, j) \/ PromoteAdd(w, j) \/ DispatchBack(w, j) \/ ScheduleRetry(w, j)
               \/ DispatchFail(w, j) \/ RecordRunning(w, j) \/ SubmitError(w, j) \/ DispatchRetry(w, j)
               \/ SetRunningCount(w, j)
    <3>1. pc'[w][j] \in {"promoting", "idle", "sf_read", "retrying", "record"}
      BY <1>a, <2>2 DEF PromoteTake, PromoteAdd, DispatchBack, ScheduleRetry, DispatchFail,
         RecordRunning, SubmitError, DispatchRetry, SetRunningCount
    <3>2. j \notin Holding(w, UnstoredSteps)'
      BY <3>1 DEF Holding, UnstoredSteps
    <3> QED
      BY <2>1, <3>2, TidyShrink
  <2>3. CASE EngineAccepts(w, j) \/ SetRunningHash(w, j) \/ Claim(w, j)
    <3>1. pc[w][j] \in UnstoredSteps
      BY <2>3 DEF EngineAccepts, SetRunningHash, Claim, UnstoredSteps
    <3>2. j \in Holding(w, UnstoredSteps)
      BY <3>1 DEF Holding
    <3> QED
      BY <2>1, <3>2, TidyShrink
  <2>4. CASE DropPending(w, j)
    <3>1. Holding(w, UnstoredSteps)' = Holding(w, UnstoredSteps)
      BY <2>4 DEF DropPending, Holding
    <3> QED
      BY <2>1, <3>1, TidyShrink
  <2> QED
    BY <1>3, <2>2, <2>3, <2>4 DEF SubmitStep
<1> QED
  BY <1>1, <1>2, <1>3

\* Nobody else takes a job for dispatch.
LEMMA HeldOther ==
    ASSUME TypeOK, NEW t \in Tasks, NEW j \in Jobs, Elsewhere(t, j), NEW w \in Submitters,
           t # w \/ pc'[t][j] \notin LoadSteps
    PROVE  j \in Holding(w, UnstoredSteps)' => j \in Holding(w, UnstoredSteps)
BY Roles DEF Elsewhere, Holding, UnstoredSteps, LoadSteps

LEMMA TidyPoll ==
    ASSUME TypeOK, NEW p \in Pollers, NEW j \in Jobs, PollStep(p, j), NEW w \in Submitters
    PROVE  Tidy(w, j)
<1>0. j \in Holding(w, UnstoredSteps)' => j \in Holding(w, UnstoredSteps)
  BY PollElsewhere, HeldOther, Roles
<1>1. CASE ReleaseDone(p, j) /\ j \in inflight
  <2>1. j \notin inflight' /\ j \in harvest'
    BY <1>1 DEF ReleaseDone
  <2>2. /\ One(j \in inflight) = 1 /\ One(j \in inflight') = 0 /\ One(j \in harvest') = 1
        /\ One(j \in harvest) \in {0, 1}
        /\ One(j \in Holding(w, UnstoredSteps)') <= One(j \in Holding(w, UnstoredSteps))
        /\ One(j \in Holding(w, UnstoredSteps)') \in Int /\ One(j \in Holding(w, UnstoredSteps)) \in Int
    BY <1>0, <1>1, <2>1 DEF One
  <2>3. UnstoredWeight(w, j)' <= UnstoredWeight(w, j)
    BY <2>2 DEF UnstoredWeight
  <2> QED
    BY <2>3 DEF Tidy
<1>2. CASE ~(ReleaseDone(p, j) /\ j \in inflight)
  <2>1. (j \in inflight' => j \in inflight) /\ (j \in harvest' => j \in harvest)
    BY <1>2 DEF PollStep, PollList, PollRead, PollRunning, ReleaseDone, StoringRow, PollRequeue,
       PollFail, RequeueRead, RequeueRemove, RequeueCount, RequeueReset, RequeueDelay, RequeueBump,
       RequeueRow
  <2> QED
    BY <1>0, <2>1, TidyShrink
<1> QED
  BY <1>1, <1>2

LEMMA TidyHarvest ==
    ASSUME TypeOK, NEW h \in Harvesters, NEW j \in Jobs, HarvestStep(h, j), NEW w \in Submitters,
           faults' = faults, pc[h][j] = "harvesting" => j \in harvest
    PROVE  Tidy(w, j)
<1>0. j \in Holding(w, UnstoredSteps)' => j \in Holding(w, UnstoredSteps)
  BY HarvestElsewhere, HeldOther, Roles
<1>1. ~HarvestError(h, j)
  BY DEF HarvestError, Fault, TypeOK
<1>2. (j \in inflight' => j \in inflight) /\ (j \in harvest' => j \in harvest)
  BY <1>1 DEF HarvestStep, HarvestStart, HarvestForget, HarvestRetry, HarvestFail, RecordDone, At
<1> QED
  BY <1>0, <1>2, TidyShrink

LEMMA TidyShared ==
    ASSUME TypeOK, NEW t \in Tasks, NEW j \in Jobs, SharedStep(t, j) \/ Abort(t, j),
           NEW w \in Submitters
    PROVE  Tidy(w, j)
<1>0. j \in Holding(w, UnstoredSteps)' => j \in Holding(w, UnstoredSteps)
  BY SharedElsewhere, HeldOther, SharedMoves DEF LoadSteps
<1>1. (j \in inflight' => j \in inflight) /\ (j \in harvest' => j \in harvest)
  BY DEF SharedStep, SetFailedRead, SetFailedPage, SetFailedWrite, SetFailedRemove,
     SetFailedCount, FailRow, MarkFailedCheck, SetDoneRead, SetDonePage, SetDoneWrite, SetDoneCount,
     ReportDone, SetDoneEnd, Abort
<1> QED
  BY <1>0, <1>1, TidyShrink

\* A job stays in the harvest queue while it is harvested.
LEMMA HarvestEntry ==
    ASSUME TypeOK, AloneInv, WholeInv, OneHarvesterOnly, NEW t \in Tasks, NEW i \in Jobs,
           \/ t \in Submitters /\ SubmitStep(t, i)
           \/ t \in Pollers /\ PollStep(t, i)
           \/ t \in Harvesters /\ HarvestStep(t, i)
           \/ SharedStep(t, i) \/ Abort(t, i),
           NEW h \in Harvesters, NEW j \in Jobs,
           pc[h][j] = "harvesting" => j \in harvest, pc'[h][j] = "harvesting"
    PROVE  j \in harvest'
<1> USE Roles, SpareSteps DEF At, Finish
<1>0. Elsewhere(t, i)
  BY SubmitElsewhere, PollElsewhere, HarvestElsewhere, SharedElsewhere
<1>a. \A x : Goto(t, i, x) => pc'[t][i] = x
  BY PcAfter
<1>1. CASE i # j
  BY <1>0, <1>1 DEF Elsewhere
<1>2. CASE i = j /\ t = h
  <2>1. HarvestStart(h, j) \/ HarvestForget(h, j)
    <3>1. ~(SharedStep(t, i) \/ Abort(t, i))
      BY <1>2, SharedMoves
    <3>2. HarvestRetry(h, j) \/ HarvestFail(h, j) \/ RecordDone(h, j) \/ HarvestError(h, j)
            => pc'[h][j] \in {"idle", "mf_check", "sd_read"}
      BY <1>2, <1>a DEF HarvestRetry, HarvestFail, RecordDone, HarvestError
    <3> QED
      BY <1>2, <3>1, <3>2 DEF HarvestStep
  <2> QED
    BY <2>1 DEF HarvestStart, HarvestForget
<1>3. CASE i = j /\ t # h
  <2>1. pc[h][j] = "harvesting" /\ j \in harvest
    BY <1>0, <1>3 DEF Elsewhere
  <2>2. ~Busy(t, j)
    BY <1>3, <2>1, Solo DEF Busy
  <2>3. hash[j] = "whole"
    BY <2>1 DEF WholeInv, Whole
  <2>4. ~(SharedStep(t, i) \/ Abort(t, i)) \/ harvest' = harvest
    BY <1>3, <2>2 DEF SharedStep, SetFailedRead, SetFailedPage, SetFailedWrite, SetFailedRemove,
       SetFailedCount, FailRow, MarkFailedCheck, SetDoneRead, SetDonePage, SetDoneWrite, SetDoneCount,
       ReportDone, SetDoneEnd, Abort, Busy, Spare
  <2>5. t \in Submitters /\ SubmitStep(t, i) => harvest' = harvest
    BY DEF SubmitStep, PromoteTake, PromoteAdd, Peek, DropPending, Claim, DispatchBack,
       DispatchRetry, ScheduleRetry, DispatchFail, EngineAccepts, SetRunningHash, SetRunningAdd,
       SetRunningCount, RecordRunning, SubmitError
  <2>6. t \in Pollers /\ PollStep(t, i) => j \in harvest'
    BY <1>3, <2>1, <2>2 DEF PollStep, PollList, PollRead, PollRunning, ReleaseDone, StoringRow,
       PollRequeue, PollFail, RequeueRead, RequeueRemove, RequeueCount, RequeueReset, RequeueDelay,
       RequeueBump, RequeueRow, Busy
  <2>7. t \in Harvesters => t = h
    BY DEF OneHarvesterOnly
  <2> QED
    BY <1>3, <2>1, <2>4, <2>5, <2>6, <2>7
<1> QED
  BY <1>1, <1>2, <1>3

LEMMA LimitsStep ==
    ASSUME TypeOK, TypeOK', AloneInv, WholeInv, LimitsInv, OneHarvesterOnly, OneSubmitterOnly,
           [PipelineNext]_vars
    PROVE  LimitsInv'
<1>f. faults' = 0 => faults' = faults /\ faults = 0
  BY FaultsCount DEF TypeOK
<1>1. CASE UNCHANGED vars
  BY <1>1 DEF vars, LimitsInv, Load, Unstored, Holding
<1>2. CASE \E j \in Jobs : ApiStep(j)
  <2>1. UNCHANGED <<slots, inflight, harvest, pc, loc>>
    BY <1>2 DEF ApiStep, SubmitRow, Enqueue, ApiDies
  <2> QED
    BY <1>f, <2>1 DEF LimitsInv, Load, Unstored, Holding
<1>3. ASSUME NEW t \in Tasks, NEW i \in Jobs,
             \/ t \in Submitters /\ SubmitStep(t, i)
             \/ t \in Pollers /\ PollStep(t, i)
             \/ t \in Harvesters /\ HarvestStep(t, i)
             \/ SharedStep(t, i) \/ Abort(t, i)
      PROVE  LimitsInv'
  <2>0. Elsewhere(t, i)
    BY <1>3, SubmitElsewhere, PollElsewhere, HarvestElsewhere, SharedElsewhere
  <2>1. ASSUME NEW w \in Submitters, NEW b \in Backends
        PROVE  Load(w, b)' <= MaxInflight
    <3>1. CASE t \in Submitters /\ SubmitStep(t, i)
      <4>1. t = w
        BY <3>1 DEF OneSubmitterOnly
      <4> QED
        BY <2>0, <3>1, <4>1, GentleSubmit, LoadMove DEF LimitsInv
    <3>2. CASE t \in Pollers /\ PollStep(t, i)
      BY <2>0, <3>2, SlotsPoll, GentleOther, LoadMove, Roles DEF LimitsInv
    <3>3. CASE t \in Harvesters /\ HarvestStep(t, i)
      <4>1. slots' = slots
        BY <3>3 DEF HarvestStep, HarvestStart, HarvestForget, HarvestRetry, HarvestFail, RecordDone,
           HarvestError
      <4> QED
        BY <2>0, <3>3, <4>1, GentleOther, LoadMove, Roles DEF LimitsInv
    <3>4. CASE SharedStep(t, i) \/ Abort(t, i)
      <4>1. pc'[t][i] \notin LoadSteps
        BY <3>4, SharedMoves DEF LoadSteps
      <4> QED
        BY <2>0, <3>4, <4>1, SlotsShared, GentleOther, LoadMove DEF LimitsInv
    <3> QED
      BY <1>3, <3>1, <3>2, <3>3, <3>4
  <2>2. ASSUME faults' = 0, NEW w \in Submitters
        PROVE  Unstored(w)' <= UnstoredMax
    <3>0. faults' = faults /\ Unstored(w) <= UnstoredMax
      BY <1>f, <2>2 DEF LimitsInv
    <3>1. CASE t \in Submitters /\ SubmitStep(t, i)
      <4>1. t = w
        BY <3>1 DEF OneSubmitterOnly
      <4> QED
        BY <2>0, <3>0, <3>1, <4>1, TidySubmit, StoredMove
    <3>2. CASE t \in Pollers /\ PollStep(t, i)
      BY <2>0, <3>0, <3>2, TidyPoll, StoredMove
    <3>3. CASE t \in Harvesters /\ HarvestStep(t, i)
      <4>1. pc[t][i] = "harvesting" => i \in harvest
        BY <1>f, <2>2, <3>3 DEF LimitsInv
      <4> QED
        BY <2>0, <3>0, <3>3, <4>1, TidyHarvest, StoredMove
    <3>4. CASE SharedStep(t, i) \/ Abort(t, i)
      BY <2>0, <3>0, <3>4, TidyShared, StoredMove
    <3> QED
      BY <1>3, <3>1, <3>2, <3>3, <3>4
  <2>3. ASSUME faults' = 0, NEW h \in Harvesters, NEW j \in Jobs, pc'[h][j] = "harvesting"
        PROVE  j \in harvest'
    <3>1. pc[h][j] = "harvesting" => j \in harvest
      BY <1>f, <2>3 DEF LimitsInv
    <3> QED
      BY <1>3, <2>3, <3>1, HarvestEntry
  <2> QED
    BY <2>1, <2>2, <2>3 DEF LimitsInv
<1> QED
  BY <1>1, <1>2, <1>3, Roles DEF PipelineNext

\* One worker's jobs, counted as pairs or alone.
LEMMA PairsOf ==
    ASSUME NEW w, NEW S, IsFiniteSet(S), NEW P, P \subseteq {w} \X S
    PROVE  /\ IsFiniteSet(P) /\ Cardinality(P) \in Nat /\ Cardinality(S) \in Nat
           /\ Cardinality(P) <= Cardinality(S)
<1>1. IsFiniteSet({w}) /\ Cardinality({w}) = 1 /\ Cardinality(S) \in Nat
  BY FS_Singleton, FS_CardinalityType
<1>2. /\ IsFiniteSet({w} \X S) /\ Cardinality({w} \X S) = Cardinality({w}) * Cardinality(S)
  BY <1>1, FS_Product
<1>3. Cardinality({w} \X S) = Cardinality(S)
  BY <1>1, <1>2
<1> QED
  BY <1>1, <1>2, <1>3, FS_Subset, FS_CardinalityType

LEMMA LimitsWithin ==
    ASSUME TypeOK, SumsInv, LimitsInv, OneSubmitterOnly
    PROVE  WithinLimits
<1>1. PICK w : Submitters = {w}
  BY DEF OneSubmitterOnly
<1>2. ASSUME faults = 0, NEW b \in Backends
      PROVE  Cardinality(InflightOn(b))
               + Cardinality({x \in Submitters \X Jobs :
                                 /\ pc[x[1]][x[2]] \in {"claimed", "accepted", "hset"}
                                 /\ loc[x[1]][x[2]].bk = b}) <= MaxInflight
  <2> DEFINE Handed == {x \in Submitters \X Jobs : /\ pc[x[1]][x[2]] \in {"claimed", "accepted", "hset"}
                                                   /\ loc[x[1]][x[2]].bk = b}
  <2>1. Handed \cap Uncounted(b) = {}
    BY DEF Uncounted, At
  <2>2. Handed \cup Uncounted(b) \subseteq {w} \X HeldOn(w, b)
    BY <1>1 DEF Uncounted, HeldOn, Holding, LoadSteps, At
  <2>3. IsFiniteSet(HeldOn(w, b))
    BY PipelineAssumption, FS_Subset DEF HeldOn, Holding
  <2>4. /\ IsFiniteSet(Handed) /\ IsFiniteSet(Uncounted(b))
        /\ Cardinality(Handed \cup Uncounted(b)) <= Cardinality(HeldOn(w, b))
    BY <2>2, <2>3, PairsOf
  <2>5. /\ Cardinality(Handed) \in Nat /\ Cardinality(Uncounted(b)) \in Nat
        /\ Cardinality(Handed \cup Uncounted(b)) = Cardinality(Handed) + Cardinality(Uncounted(b))
    BY <2>1, <2>4, DisjointCard
  <2>6. /\ Cardinality(InflightOn(b)) \in Nat /\ Cardinality(Unreleased(b)) \in Nat
        /\ Cardinality(HeldOn(w, b)) \in Nat
    BY <2>3, FiniteSums, FS_CardinalityType
  <2>7. /\ slots[b] = Cardinality(InflightOn(b)) - Cardinality(Uncounted(b)) + Cardinality(Unreleased(b))
        /\ slots[b] \in Int
    BY <1>2 DEF SumsInv, Summed, SlotSum, TypeOK
  <2>8. slots[b] + Cardinality(HeldOn(w, b)) <= MaxInflight
    BY <1>1, LoadIs DEF LimitsInv
  <2> HIDE DEF Handed
  <2>9. Cardinality(InflightOn(b)) + Cardinality(Handed) <= MaxInflight
    BY <2>4, <2>5, <2>6, <2>7, <2>8, PipelineAssumption
  <2> QED
    BY <2>9 DEF Handed
<1>3. ASSUME faults = 0
      PROVE  Cardinality(inflight) + Cardinality(harvest)
               + Cardinality({x \in Submitters \X Jobs :
                                 pc[x[1]][x[2]] \in {"claimed", "accepted", "hset"}}) <= UnstoredMax
  <2> DEFINE Handed == {x \in Submitters \X Jobs : pc[x[1]][x[2]] \in {"claimed", "accepted", "hset"}}
  <2>1. Handed \subseteq {w} \X Holding(w, UnstoredSteps)
    BY <1>1 DEF Holding, UnstoredSteps
  <2>2. IsFiniteSet(Holding(w, UnstoredSteps))
    BY PipelineAssumption, FS_Subset DEF Holding
  <2>3. /\ Cardinality(Handed) \in Nat /\ Cardinality(Holding(w, UnstoredSteps)) \in Nat
        /\ Cardinality(Handed) <= Cardinality(Holding(w, UnstoredSteps))
    BY <2>1, <2>2, PairsOf
  <2>4. Cardinality(inflight) \in Nat /\ Cardinality(harvest) \in Nat
    BY PipelineAssumption, FS_Subset, FS_CardinalityType DEF TypeOK
  <2>5. Cardinality(inflight) + Cardinality(harvest) + Cardinality(Holding(w, UnstoredSteps)) <= UnstoredMax
    BY <1>1, <1>3, LoadIs DEF LimitsInv
  <2> HIDE DEF Handed
  <2>6. Cardinality(inflight) + Cardinality(harvest) + Cardinality(Handed) <= UnstoredMax
    BY <2>3, <2>4, <2>5, PipelineAssumption
  <2> QED
    BY <2>6 DEF Handed
<1>4. BackendNotOverfilled
  BY <1>2 DEF BackendNotOverfilled
<1>5. StorageBudget
  BY <1>3 DEF StorageBudget
<1> QED
  BY <1>4, <1>5 DEF WithinLimits

\* One submit worker never puts more jobs on a backend than its max_inflight, and never
\* has more jobs on their way to the object store than unstored_job_max, though it reads
\* both once per tick while pollers and harvests move jobs (_eligible_slots,
\* _dispatch_budget).
THEOREM LimitsKept ==
    ASSUME Prompt, OneHarvesterOnly, OneSubmitterOnly
    PROVE  PipelineSpec => []WithinLimits
<1>1. Init => WholeInv /\ CalmInv /\ SumsInv /\ LimitsInv
  BY WholeInit, CalmInit, SumsInit, LimitsInit
<1>2. (TypeOK /\ TypeOK' /\ AloneInv /\ AloneInv' /\ DoneInv /\ WholeInv /\ CalmInv /\ SumsInv
         /\ [PipelineNext]_vars) => WholeInv' /\ CalmInv' /\ SumsInv'
  BY CountersStep
<1>3. (TypeOK /\ TypeOK' /\ AloneInv /\ WholeInv /\ LimitsInv /\ [PipelineNext]_vars) => LimitsInv'
  BY LimitsStep
<1>4. TypeOK /\ SumsInv /\ LimitsInv => WithinLimits
  BY LimitsWithin
<1> QED
  BY <1>1, <1>2, <1>3, <1>4, SafetyInvariants, PTL DEF PipelineSpec
=============================================================================
