------------------------- MODULE JobPipelineProofs -------------------------
(***************************************************************************)
(* Theorems about JobPipeline, for any jobs, backends, submit workers,     *)
(* harvest loops, limits and number of faults: types and owners, and that  *)
(* what the workers tell each other about a job is true.                   *)
(***************************************************************************)
EXTENDS JobPipeline, FiniteSetTheorems, TLAPS

\* What the step of a task leaves in pc and loc.
LEMMA GotoType ==
    ASSUME TypeOK, NEW t \in Tasks, NEW j \in Jobs, NEW p \in PCs, Goto(t, j, p)
    PROVE  pc' \in [Tasks -> [Jobs -> PCs]]
BY DEF TypeOK, Goto

LEMMA KeepType ==
    ASSUME TypeOK, NEW t \in Tasks, NEW j \in Jobs, NEW l \in Locals, Keep(t, j, l)
    PROVE  loc' \in [Tasks -> [Jobs -> Locals]]
BY DEF TypeOK, Keep

LEMMA NoLocalsType == NoLocals \in Locals
BY DEF NoLocals, Locals

LEMMA LocIn ==
    ASSUME TypeOK, NEW t \in Tasks, NEW j \in Jobs
    PROVE  loc[t][j] \in Locals
BY DEF TypeOK

\* A task's notes stay well formed when it peeks a job, reads the hash, gets an
\* SREM's reply or records a harvest.
LEMMA PeekedType ==
    ASSUME NEW q \in Nat, NEW s \in Statuses \cup {"absent"},
           NEW b \in Backends \cup {NoBackend}
    PROVE  /\ [NoLocals EXCEPT !.bk = b] \in Locals
           /\ [NoLocals EXCEPT !.bk = b, !.rq = q] \in Locals
           /\ [NoLocals EXCEPT !.bk = b, !.st = s, !.rq = q] \in Locals
BY DEF Locals, NoLocals

LEMMA RemType ==
    ASSUME NEW l \in Locals, NEW j, NEW S
    PROVE  [l EXCEPT !.rem = (j \in S)] \in Locals
<1>1. (j \in S) \in BOOLEAN
  OBVIOUS
<1> QED
  BY <1>1 DEF Locals

LEMMA RunType ==
    ASSUME NEW l \in Locals, NEW x \in {"none", "first", "again"}
    PROVE  [l EXCEPT !.run = x] \in Locals
BY DEF Locals

LEMMA ReadType ==
    ASSUME NEW l \in Locals, NEW s \in Statuses \cup {"absent"},
           NEW b \in Backends \cup {NoBackend}
    PROVE  [l EXCEPT !.st = s, !.bk = b] \in Locals
BY DEF Locals

LEMMA SeenType ==
    ASSUME TypeOK, NEW j \in Jobs
    PROVE  /\ Seen(j) \in Statuses \cup {"absent"}
           /\ SeenBackend(j) \in Backends \cup {NoBackend}
BY DEF TypeOK, Seen, SeenBackend

LEMMA TouchType ==
    ASSUME TypeOK, NEW j, Touch(j)
    PROVE  hash' \in [Jobs -> {"none", "partial", "whole"}]
BY DEF Touch, TypeOK

\* The slot counters stay integers, even for a backend that is not registered.
LEMMA SlotsType ==
    ASSUME TypeOK, NEW b
    PROVE  /\ [slots EXCEPT ![b] = @ + 1] \in [Backends -> Int]
           /\ [slots EXCEPT ![b] = @ - 1] \in [Backends -> Int]
<1>1. slots \in [Backends -> Int]
  BY DEF TypeOK
<1>2. CASE b \in Backends
  <2>1. slots[b] + 1 \in Int /\ slots[b] - 1 \in Int
    BY <1>1, <1>2
  <2> QED
    BY <1>1, <2>1, Zenon
<1>3. CASE b \notin Backends
  BY <1>1, <1>3, Zenon
<1> QED
  BY <1>2, <1>3

LEMMA ReleasedType ==
    ASSUME TypeOK, NEW t, NEW j, Released(t, j)
    PROVE  slots' \in [Backends -> Int]
BY SlotsType DEF Released, TypeOK

LEMMA FinishType ==
    ASSUME TypeOK, NEW t \in Tasks, NEW j \in Jobs, Finish(t, j)
    PROVE  /\ pc' \in [Tasks -> [Jobs -> PCs]]
           /\ loc' \in [Tasks -> [Jobs -> Locals]]
<1>1. "idle" \in PCs
  BY DEF PCs
<1> QED
  BY <1>1, GotoType, KeepType, NoLocalsType DEF Finish

\* The first state is well typed.
LEMMA InitType == Init => TypeOK
BY PipelineAssumption, NoLocalsType DEF Init, TypeOK, Statuses, Active, Terminal, PCs,
    Scans, NoScan

\* The API's steps keep the types.
LEMMA ApiType ==
    ASSUME TypeOK, NEW j \in Jobs, ApiStep(j)
    PROVE  TypeOK'
<1> USE DEF redisVars, hashVars, queueVars, counterVars, NoFault, Fault,
            Statuses, Active, Terminal
<1>1. CASE SubmitRow(j)
  BY <1>1 DEF SubmitRow, TypeOK
<1>2. CASE Enqueue(j)
  BY <1>2 DEF Enqueue, TypeOK
<1>3. CASE ApiDies(j)
  BY <1>3 DEF ApiDies, TypeOK
<1> QED
  BY <1>1, <1>2, <1>3 DEF ApiStep

\* The submit worker's steps keep the types.
LEMMA SubmitType ==
    ASSUME TypeOK, NEW w \in Submitters, NEW j \in Jobs, SubmitStep(w, j)
    PROVE  TypeOK'
<1> USE DEF redisVars, hashVars, queueVars, counterVars, NoFault, Fault, Statuses,
            Active, Terminal, PCs, Tasks
<1>1. CASE PromoteTake(w, j)
  BY <1>1, GotoType, FinishType DEF PromoteTake, TypeOK
<1>2. CASE PromoteAdd(w, j)
  BY <1>2, GotoType, FinishType DEF PromoteAdd, TypeOK
<1>3. CASE Peek(w, j)
  <2>1. PICK b \in Backends : Keep(w, j, [NoLocals EXCEPT !.bk = b, !.rq = requeues[j]])
    BY <1>3 DEF Peek
  <2>2. [NoLocals EXCEPT !.bk = b, !.rq = requeues[j]] \in Locals
    BY PeekedType DEF TypeOK
  <2>3. loc' \in [Tasks -> [Jobs -> Locals]]
    BY <2>1, <2>2, KeepType
  <2>4. pc' \in [Tasks -> [Jobs -> PCs]]
    BY <1>3, GotoType DEF Peek
  <2> QED
    BY <1>3, <2>3, <2>4 DEF Peek, TypeOK
<1>4. CASE DropPending(w, j)
  BY <1>4, GotoType, FinishType DEF DropPending, TypeOK
<1>5. CASE Claim(w, j)
  <2>1. /\ pc' \in [Tasks -> [Jobs -> PCs]]
        /\ loc' \in [Tasks -> [Jobs -> Locals]]
    BY <1>5, GotoType, FinishType DEF Claim, TypeOK
  <2>2. claimed' \in [Jobs -> BOOLEAN]
    BY <1>5 DEF Claim, TypeOK
  <2>3. pending' \in SUBSET Jobs
    BY <1>5 DEF Claim, TypeOK
  <2> QED
    BY <1>5, <2>1, <2>2, <2>3 DEF Claim, TypeOK
<1>6. CASE DispatchBack(w, j)
  BY <1>6, GotoType, FinishType DEF DispatchBack, TypeOK
<1>7. CASE DispatchRetry(w, j)
  BY <1>7, GotoType, FinishType DEF DispatchRetry, TypeOK, Touch
<1>8. CASE ScheduleRetry(w, j)
  BY <1>8, GotoType, FinishType DEF ScheduleRetry, TypeOK, Touch
<1>9. CASE DispatchFail(w, j)
  BY <1>9, GotoType, FinishType DEF DispatchFail, TypeOK
<1>10. CASE EngineAccepts(w, j)
  BY <1>10, GotoType, FinishType DEF EngineAccepts, TypeOK
<1>11. CASE SetRunningHash(w, j)
  <2>1. pc' \in [Tasks -> [Jobs -> PCs]]
    BY <1>11, GotoType DEF SetRunningHash
  <2>2. loc[w][j].bk \in Backends \cup {NoBackend}
    BY LocIn DEF Locals
  <2>3. /\ status' \in [Jobs -> Statuses \cup {"absent"}]
        /\ backend' \in [Jobs -> Backends \cup {NoBackend}]
    BY <1>11, <2>2 DEF SetRunningHash, TypeOK
  <2> QED
    BY <1>11, <2>1, <2>3, TouchType DEF SetRunningHash, TypeOK
<1>12. CASE SetRunningAdd(w, j)
  BY <1>12, GotoType, FinishType DEF SetRunningAdd, TypeOK
<1>13. CASE SetRunningCount(w, j)
  <2>1. pc' \in [Tasks -> [Jobs -> PCs]]
    BY <1>13, GotoType DEF SetRunningCount
  <2>2. slots' \in [Backends -> Int]
    BY <1>13, SlotsType DEF SetRunningCount
  <2>3. loadQueued' \in Int /\ loadInflight' \in Int
    BY <1>13 DEF SetRunningCount, TypeOK
  <2> QED
    BY <1>13, <2>1, <2>2, <2>3 DEF SetRunningCount, TypeOK
<1>14. CASE RecordRunning(w, j)
  BY <1>14, GotoType, FinishType DEF RecordRunning, TypeOK
<1>15. CASE SubmitError(w, j)
  BY <1>15, GotoType, FinishType DEF SubmitError, TypeOK
<1> QED
  BY <1>1, <1>2, <1>3, <1>4, <1>5, <1>6, <1>7, <1>8, <1>9, <1>10, <1>11, <1>12, <1>13, <1>14, <1>15 DEF SubmitStep

\* The poller's steps keep the types.
LEMMA PollType ==
    ASSUME TypeOK, NEW p \in Pollers, NEW j \in Jobs, PollStep(p, j)
    PROVE  TypeOK'
<1> USE DEF redisVars, hashVars, queueVars, counterVars, NoFault, Fault, Statuses,
            Active, Terminal, PCs, Tasks
<1>1. CASE PollList(p, j)
  BY <1>1, GotoType, FinishType DEF PollList, TypeOK
<1>2. CASE PollRead(p, j)
  <2>1. [NoLocals EXCEPT !.bk = backend[j], !.st = status[j], !.rq = requeues[j]] \in Locals
    BY PeekedType DEF TypeOK
  <2>2. /\ pc' \in [Tasks -> [Jobs -> PCs]]
        /\ loc' \in [Tasks -> [Jobs -> Locals]]
    BY <1>2, <2>1, GotoType, KeepType, FinishType DEF PollRead
  <2> QED
    BY <1>2, <2>2 DEF PollRead, TypeOK
<1>3. CASE PollRunning(p, j)
  BY <1>3, GotoType, FinishType DEF PollRunning, TypeOK, Touch
<1>4. CASE ReleaseDone(p, j)
  <2>1. /\ pc' \in [Tasks -> [Jobs -> PCs]]
        /\ loc' \in [Tasks -> [Jobs -> Locals]]
    BY <1>4, GotoType, FinishType DEF ReleaseDone, TypeOK
  <2>2. inflight' \in SUBSET Jobs /\ harvest' \in SUBSET Jobs
    BY <1>4 DEF ReleaseDone, TypeOK
  <2>3. status' \in [Jobs -> Statuses \cup {"absent"}]
    BY <1>4 DEF ReleaseDone, TypeOK
  <2>4. loadInflight' \in Int
    BY <1>4 DEF ReleaseDone, TypeOK
  <2>5. slots' \in [Backends -> Int]
    BY <1>4 DEF ReleaseDone, TypeOK
  <2> QED
    BY <1>4, <2>1, <2>2, <2>3, <2>4, <2>5 DEF ReleaseDone, TypeOK
<1>5. CASE StoringRow(p, j)
  BY <1>5, GotoType, FinishType DEF StoringRow, TypeOK
<1>6. CASE PollRequeue(p, j)
  BY <1>6, GotoType, FinishType DEF PollRequeue, TypeOK
<1>7. CASE PollFail(p, j)
  BY <1>7, GotoType, FinishType DEF PollFail, TypeOK
<1>8. CASE RequeueRead(p, j)
  <2>1. [loc[p][j] EXCEPT !.st = Seen(j), !.bk = SeenBackend(j)] \in Locals
    BY ReadType, LocIn, SeenType
  <2>2. /\ pc' \in [Tasks -> [Jobs -> PCs]]
        /\ loc' \in [Tasks -> [Jobs -> Locals]]
    BY <1>8, <2>1, GotoType, KeepType DEF RequeueRead
  <2> QED
    BY <1>8, <2>2 DEF RequeueRead, TypeOK
<1>9. CASE RequeueRemove(p, j)
  <2>1. [loc[p][j] EXCEPT !.rem = (j \in inflight)] \in Locals
    BY RemType, LocIn
  <2>2. /\ pc' \in [Tasks -> [Jobs -> PCs]]
        /\ loc' \in [Tasks -> [Jobs -> Locals]]
    BY <1>9, <2>1, GotoType, KeepType DEF RequeueRemove
  <2> QED
    BY <1>9, <2>2 DEF RequeueRemove, TypeOK
<1>10. CASE RequeueCount(p, j)
  <2>1. pc' \in [Tasks -> [Jobs -> PCs]]
    BY <1>10, GotoType DEF RequeueCount
  <2>2. slots' \in [Backends -> Int]
    BY <1>10, ReleasedType DEF RequeueCount
  <2>3. loadQueued' \in Int /\ loadInflight' \in Int
    BY <1>10 DEF RequeueCount, TypeOK
  <2> QED
    BY <1>10, <2>1, <2>2, <2>3 DEF RequeueCount, TypeOK
<1>11. CASE RequeueReset(p, j)
  BY <1>11, GotoType, FinishType DEF RequeueReset, TypeOK, Touch
<1>12. CASE RequeueDelay(p, j)
  BY <1>12, GotoType, FinishType DEF RequeueDelay, TypeOK
<1>13. CASE RequeueBump(p, j)
  BY <1>13, GotoType, FinishType DEF RequeueBump, TypeOK, Touch
<1>14. CASE RequeueRow(p, j)
  BY <1>14, GotoType, FinishType DEF RequeueRow, TypeOK
<1> QED
  BY <1>1, <1>2, <1>3, <1>4, <1>5, <1>6, <1>7, <1>8, <1>9, <1>10, <1>11, <1>12, <1>13, <1>14 DEF PollStep

\* The harvest loop's steps keep the types.
LEMMA HarvestType ==
    ASSUME TypeOK, NEW h \in Harvesters, NEW j \in Jobs, HarvestStep(h, j)
    PROVE  TypeOK'
<1> USE DEF redisVars, hashVars, queueVars, counterVars, NoFault, Fault, Statuses,
            Active, Terminal, PCs, Tasks
<1>1. CASE HarvestStart(h, j)
  <2>1. [NoLocals EXCEPT !.bk = backend[j]] \in Locals
    BY PeekedType DEF TypeOK
  <2>2. /\ pc' \in [Tasks -> [Jobs -> PCs]]
        /\ loc' \in [Tasks -> [Jobs -> Locals]]
    BY <1>1, <2>1, GotoType, KeepType DEF HarvestStart
  <2> QED
    BY <1>1, <2>2 DEF HarvestStart, TypeOK
<1>2. CASE HarvestForget(h, j)
  BY <1>2, GotoType, FinishType DEF HarvestForget, TypeOK
<1>3. CASE HarvestRetry(h, j)
  BY <1>3, GotoType, FinishType DEF HarvestRetry, TypeOK, Touch
<1>4. CASE HarvestFail(h, j)
  BY <1>4, GotoType, FinishType DEF HarvestFail, TypeOK
<1>5. CASE RecordDone(h, j)
  <2>1. [loc[h][j] EXCEPT !.run = IF row[j] = "done" THEN "again" ELSE "first"] \in Locals
    BY RunType, LocIn
  <2>2. /\ pc' \in [Tasks -> [Jobs -> PCs]]
        /\ loc' \in [Tasks -> [Jobs -> Locals]]
    BY <1>5, <2>1, GotoType, KeepType DEF RecordDone
  <2> QED
    BY <1>5, <2>2 DEF RecordDone, TypeOK
<1>6. CASE HarvestError(h, j)
  <2>1. [loc[h][j] EXCEPT !.run = "none"] \in Locals
    BY RunType, LocIn
  <2>2. /\ pc' \in [Tasks -> [Jobs -> PCs]]
        /\ loc' \in [Tasks -> [Jobs -> Locals]]
    BY <1>6, <2>1, GotoType, KeepType, FinishType DEF HarvestError
  <2> QED
    BY <1>6, <2>2 DEF HarvestError, TypeOK, Touch
<1> QED
  BY <1>1, <1>2, <1>3, <1>4, <1>5, <1>6 DEF HarvestStep

\* The shared state functions keep the types.
LEMMA SharedType ==
    ASSUME TypeOK, NEW t \in Tasks, NEW j \in Jobs, SharedStep(t, j)
    PROVE  TypeOK'
<1> USE DEF redisVars, hashVars, queueVars, counterVars, NoFault, Fault, Statuses,
            Active, Terminal, PCs, Tasks
<1>1. CASE SetFailedRead(t, j)
  <2>1. [loc[t][j] EXCEPT !.st = Seen(j), !.bk = SeenBackend(j)] \in Locals
    BY ReadType, LocIn, SeenType
  <2>2. /\ pc' \in [Tasks -> [Jobs -> PCs]]
        /\ loc' \in [Tasks -> [Jobs -> Locals]]
    BY <1>1, <2>1, GotoType, KeepType DEF SetFailedRead
  <2> QED
    BY <1>1, <2>2 DEF SetFailedRead, TypeOK
<1>2. CASE SetFailedPage(t, j)
  BY <1>2, GotoType, FinishType DEF SetFailedPage, TypeOK, CountPage
<1>3. CASE SetFailedWrite(t, j)
  BY <1>3, GotoType, FinishType DEF SetFailedWrite, TypeOK, Touch
<1>4. CASE SetFailedRemove(t, j)
  <2>1. [loc[t][j] EXCEPT !.rem = (j \in inflight)] \in Locals
    BY RemType, LocIn
  <2>2. /\ pc' \in [Tasks -> [Jobs -> PCs]]
        /\ loc' \in [Tasks -> [Jobs -> Locals]]
    BY <1>4, <2>1, GotoType, KeepType DEF SetFailedRemove
  <2> QED
    BY <1>4, <2>2 DEF SetFailedRemove, TypeOK
<1>5. CASE SetFailedCount(t, j)
  <2>1. pc' \in [Tasks -> [Jobs -> PCs]]
    BY <1>5, GotoType DEF SetFailedCount
  <2>2. slots' \in [Backends -> Int]
    BY <1>5, ReleasedType DEF SetFailedCount
  <2>3. loadQueued' \in Int /\ loadInflight' \in Int
    BY <1>5 DEF SetFailedCount, TypeOK
  <2> QED
    BY <1>5, <2>1, <2>2, <2>3 DEF SetFailedCount, TypeOK
<1>6. CASE FailRow(t, j)
  BY <1>6, GotoType, FinishType DEF FailRow, TypeOK
<1>7. CASE MarkFailedCheck(t, j)
  BY <1>7, GotoType, FinishType DEF MarkFailedCheck, TypeOK
<1>8. CASE SetDoneRead(t, j)
  <2>1. [loc[t][j] EXCEPT !.st = Seen(j), !.bk = SeenBackend(j)] \in Locals
    BY ReadType, LocIn, SeenType
  <2>2. /\ pc' \in [Tasks -> [Jobs -> PCs]]
        /\ loc' \in [Tasks -> [Jobs -> Locals]]
    BY <1>8, <2>1, GotoType, KeepType DEF SetDoneRead
  <2> QED
    BY <1>8, <2>2 DEF SetDoneRead, TypeOK
<1>9. CASE SetDonePage(t, j)
  BY <1>9, GotoType, FinishType DEF SetDonePage, TypeOK, CountPage
<1>10. CASE SetDoneWrite(t, j)
  <2>1. [loc[t][j] EXCEPT !.rem = (j \in inflight)] \in Locals
    BY RemType, LocIn
  <2>2. /\ pc' \in [Tasks -> [Jobs -> PCs]]
        /\ loc' \in [Tasks -> [Jobs -> Locals]]
    BY <1>10, <2>1, GotoType, KeepType DEF SetDoneWrite
  <2> QED
    BY <1>10, <2>2 DEF SetDoneWrite, TypeOK, Touch
<1>11. CASE SetDoneCount(t, j)
  <2>1. pc' \in [Tasks -> [Jobs -> PCs]]
    BY <1>11, GotoType DEF SetDoneCount
  <2>2. slots' \in [Backends -> Int]
    BY <1>11, ReleasedType DEF SetDoneCount
  <2>3. loadQueued' \in Int /\ loadInflight' \in Int
    BY <1>11 DEF SetDoneCount, TypeOK
  <2> QED
    BY <1>11, <2>1, <2>2, <2>3 DEF SetDoneCount, TypeOK
<1>12. CASE ReportDone(t, j)
  BY <1>12, GotoType, FinishType DEF ReportDone, TypeOK
<1>13. CASE SetDoneEnd(t, j)
  BY <1>13, GotoType, FinishType DEF SetDoneEnd, TypeOK
<1> QED
  BY <1>1, <1>2, <1>3, <1>4, <1>5, <1>6, <1>7, <1>8, <1>9, <1>10, <1>11, <1>12, <1>13 DEF SharedStep

\* A task that dies keeps the types.
LEMMA AbortType ==
    ASSUME TypeOK, NEW t \in Tasks, NEW j \in Jobs, Abort(t, j)
    PROVE  TypeOK'
BY FinishType DEF Abort, TypeOK, Fault, redisVars, hashVars, queueVars, counterVars

LEMMA StutterType == TypeOK /\ UNCHANGED vars => TypeOK'
BY DEF vars, TypeOK

\* Every variable of the pipeline keeps its type: no counter, status or local of
\* a worker leaves its range on any path through the workers, crashes included.
THEOREM TypeCorrect == PipelineSpec => []TypeOK
<1>1. TypeOK /\ [PipelineNext]_vars => TypeOK'
  BY ApiType, SubmitType, PollType, HarvestType, SharedType, AbortType, StutterType
     DEF PipelineNext
<1> QED
  BY <1>1, InitType, PTL DEF PipelineSpec

-----------------------------------------------------------------------------
\* One owner per job.

\* How the step of one task changes where the tasks stand.
LEMMA PcAfter ==
    ASSUME TypeOK, NEW t \in Tasks, NEW j \in Jobs, NEW x, Goto(t, j, x)
    PROVE  \A u \in Tasks, i \in Jobs :
              pc'[u][i] = IF u = t /\ i = j THEN x ELSE pc[u][i]
BY DEF TypeOK, Goto

\* A task has one role.
LEMMA RolesDisjoint ==
    /\ Submitters \cap Pollers = {} /\ Submitters \cap Harvesters = {}
    /\ Pollers \cap Harvesters = {}
    /\ Submitters \subseteq Tasks /\ Pollers \subseteq Tasks /\ Harvesters \subseteq Tasks
BY PipelineAssumption DEF Tasks

\* A step that gives a job no new owner keeps OneOwner.
LEMMA Shrink ==
    ASSUME NEW j \in Jobs, OneOwner(j),
           j \in pending' => j \in pending,
           j \in delayed' => j \in delayed,
           Flying(j)' => Flying(j),
           Storing(j)' => Storing(j),
           \A w \in Submitters : SubmitHeld(w, j)' => SubmitHeld(w, j),
           \A p \in Pollers : PollHeld(p, j)' => PollHeld(p, j),
           api'[j] # "answered" => api[j] # "answered"
    PROVE  OneOwner(j)'
BY DEF OneOwner

\* No task moves, and nothing is added to a queue.
LEMMA Still ==
    ASSUME OwnerInv, pc' = pc, pending' \subseteq pending, delayed' \subseteq delayed,
           inflight' \subseteq inflight, harvest' \subseteq harvest,
           \A i \in Jobs : api'[i] # "answered" => api[i] # "answered"
    PROVE  OwnerInv'
BY DEF OwnerInv, OneOwner, Flying, Storing, SubmitHeld, PollHeld

\* Task t moves to x without taking the job from an owner.
LEMMA Narrow ==
    ASSUME TypeOK, OwnerInv, NEW t \in Tasks, NEW j \in Jobs, NEW x, Goto(t, j, x),
           pending' \subseteq pending, delayed' \subseteq delayed,
           inflight' \subseteq inflight,
           \A i \in harvest' : i \in harvest \/ (i = j /\ Storing(j)),
           t \in Submitters /\ x \in SubmitSteps => SubmitHeld(t, j),
           t \in Pollers /\ x \in RequeueSteps => PollHeld(t, j),
           t \in Pollers /\ x \in CheckSteps => Flying(j),
           t \in Harvesters /\ x \in HarvestSteps => Storing(j),
           api' = api
    PROVE  OwnerInv'
<1> SUFFICES ASSUME NEW i \in Jobs PROVE OneOwner(i)'
  BY DEF OwnerInv
<1>1. \A u \in Tasks : pc'[u][i] = IF u = t /\ i = j THEN x ELSE pc[u][i]
  BY PcAfter
<1>2. Flying(i)' => Flying(i)
  BY <1>1, RolesDisjoint DEF Flying
<1>3. Storing(i)' => Storing(i)
  BY <1>1, RolesDisjoint DEF Storing
<1>4. \A w \in Submitters : SubmitHeld(w, i)' => SubmitHeld(w, i)
  BY <1>1, RolesDisjoint DEF SubmitHeld
<1>5. \A p \in Pollers : PollHeld(p, i)' => PollHeld(p, i)
  BY <1>1, RolesDisjoint DEF PollHeld
<1> QED
  BY <1>2, <1>3, <1>4, <1>5, Shrink DEF OwnerInv

\* What a task does to one job leaves the others' owners alone.
LEMMA Others ==
    ASSUME TypeOK, OwnerInv, NEW t \in Tasks, NEW j \in Jobs, NEW x, Goto(t, j, x),
           api' = api,
           \A i \in Jobs \ {j} : /\ i \in pending' <=> i \in pending
                                 /\ i \in delayed' <=> i \in delayed
                                 /\ i \in inflight' <=> i \in inflight
                                 /\ i \in harvest' <=> i \in harvest,
           OneOwner(j)'
    PROVE  OwnerInv'
<1> SUFFICES ASSUME NEW i \in Jobs \ {j} PROVE OneOwner(i)'
  BY DEF OwnerInv
<1>1. \A u \in Tasks : pc'[u][i] = pc[u][i]
  BY PcAfter
<1>2. Flying(i)' => Flying(i)
  BY <1>1, RolesDisjoint DEF Flying
<1>3. Storing(i)' => Storing(i)
  BY <1>1, RolesDisjoint DEF Storing
<1>4. \A w \in Submitters : SubmitHeld(w, i)' => SubmitHeld(w, i)
  BY <1>1, RolesDisjoint DEF SubmitHeld
<1>5. \A p \in Pollers : PollHeld(p, i)' => PollHeld(p, i)
  BY <1>1, RolesDisjoint DEF PollHeld
<1> QED
  BY <1>2, <1>3, <1>4, <1>5, Shrink DEF OwnerInv

\* OwnerInv is stronger than ExclusiveOwner, and holds before any job exists.
LEMMA OwnerImplies == OwnerInv => ExclusiveOwner
BY DEF OwnerInv, OneOwner, ExclusiveOwner, Unowned, Flying, Storing

LEMMA InitOwner == Init => OwnerInv
BY RolesDisjoint DEF Init, OwnerInv, OneOwner, Flying, Storing, SubmitHeld, PollHeld,
   SubmitSteps, RequeueSteps, CheckSteps, HarvestSteps
\* There is one poller.  Two may act on the same stale status check, and the
\* second takes the job from whoever has it.
OnePollerOnly == \A p, q \in Pollers : p = q

USE DEF redisVars, hashVars, queueVars, counterVars

\* The API puts a job in the pending queue only while nobody has it.
LEMMA ApiOwner ==
    ASSUME TypeOK, OwnerInv, NEW j \in Jobs, ApiStep(j)
    PROVE  OwnerInv'
<1>1. CASE SubmitRow(j)
  <2>1. \A i \in Jobs : api'[i] # "answered" => api[i] # "answered"
    BY <1>1 DEF SubmitRow, TypeOK
  <2> QED
    BY <1>1, <2>1, Still DEF SubmitRow
<1>2. CASE Enqueue(j)
  <2>1. \A i \in Jobs \ {j} : OneOwner(i)'
    BY <1>2 DEF Enqueue, TypeOK, OwnerInv, OneOwner, Flying, Storing, SubmitHeld, PollHeld
  <2>2. OneOwner(j)'
    BY <1>2 DEF Enqueue, TypeOK, OwnerInv, OneOwner, Flying, Storing, SubmitHeld, PollHeld
  <2> QED
    BY <2>1, <2>2 DEF OwnerInv
<1>3. CASE ApiDies(j)
  <2>1. \A i \in Jobs : api'[i] # "answered" => api[i] # "answered"
    BY <1>3 DEF ApiDies, TypeOK
  <2> QED
    BY <1>3, <2>1, Still DEF ApiDies
<1> QED
  BY <1>1, <1>2, <1>3 DEF ApiStep

\* A submit worker takes a job off a queue before it holds it, and lets it go when
\* it puts it in a queue or in flight.
LEMMA SubmitOwner ==
    ASSUME TypeOK, OwnerInv, NEW w \in Submitters, NEW j \in Jobs, SubmitStep(w, j)
    PROVE  OwnerInv'
<1> USE RolesDisjoint DEF Finish, At
<1> OneOwner(j)
  BY DEF OwnerInv
<1>1. CASE PromoteTake(w, j)
  <2>1. \A u \in Tasks : pc'[u][j] = IF u = w THEN "promoting" ELSE pc[u][j]
    BY <1>1, PcAfter DEF PromoteTake
  <2>2. OneOwner(j)'
    BY <1>1, <2>1 DEF PromoteTake, OneOwner, Flying, Storing, SubmitHeld, PollHeld,
       SubmitSteps
  <2> QED
    BY <1>1, <2>2, Others DEF PromoteTake
<1>2. CASE PromoteAdd(w, j)
  <2>1. \A u \in Tasks : pc'[u][j] = IF u = w THEN "idle" ELSE pc[u][j]
    BY <1>2, PcAfter DEF PromoteAdd
  <2>2. OneOwner(j)'
    BY <1>2, <2>1 DEF PromoteAdd, OneOwner, Flying, Storing, SubmitHeld, PollHeld,
       SubmitSteps
  <2> QED
    BY <1>2, <2>2, Others DEF PromoteAdd
<1>3. CASE Peek(w, j)
  BY <1>3, Narrow DEF Peek, SubmitSteps
<1>4. CASE DropPending(w, j)
  BY <1>4, Still DEF DropPending
<1>5. CASE Claim(w, j)
  <2>1. CASE Finish(w, j)
    BY <1>5, <2>1, Narrow DEF Claim, SubmitSteps
  <2>2. CASE j \in pending /\ Goto(w, j, "claimed")
    <3>1. \A u \in Tasks : pc'[u][j] = IF u = w THEN "claimed" ELSE pc[u][j]
      BY <2>2, PcAfter
    <3>2. OneOwner(j)'
      BY <1>5, <2>2, <3>1 DEF Claim, OneOwner, Flying, Storing, SubmitHeld, PollHeld,
         SubmitSteps
    <3> QED
      BY <1>5, <2>2, <3>2, Others DEF Claim
  <2> QED
    BY <1>5, <2>1, <2>2 DEF Claim
<1>6. CASE DispatchBack(w, j)
  <2>1. \A u \in Tasks : pc'[u][j] = IF u = w THEN "idle" ELSE pc[u][j]
    BY <1>6, PcAfter DEF DispatchBack
  <2>2. OneOwner(j)'
    BY <1>6, <2>1 DEF DispatchBack, OneOwner, Flying, Storing, SubmitHeld, PollHeld,
       SubmitSteps
  <2> QED
    BY <1>6, <2>2, Others DEF DispatchBack
<1>7. CASE DispatchRetry(w, j)
  BY <1>7, Narrow DEF DispatchRetry, SubmitHeld, SubmitSteps
<1>8. CASE ScheduleRetry(w, j)
  <2>1. \A u \in Tasks : pc'[u][j] = IF u = w THEN "idle" ELSE pc[u][j]
    BY <1>8, PcAfter DEF ScheduleRetry
  <2>2. OneOwner(j)'
    BY <1>8, <2>1 DEF ScheduleRetry, OneOwner, Flying, Storing, SubmitHeld, PollHeld,
       SubmitSteps
  <2> QED
    BY <1>8, <2>2, Others DEF ScheduleRetry
<1>9. CASE DispatchFail(w, j)
  BY <1>9, Narrow DEF DispatchFail, SubmitSteps
<1>10. CASE EngineAccepts(w, j)
  BY <1>10, Narrow DEF EngineAccepts, SubmitHeld, SubmitSteps
<1>11. CASE SetRunningHash(w, j)
  BY <1>11, Narrow DEF SetRunningHash, SubmitHeld, SubmitSteps
<1>12. CASE SetRunningAdd(w, j)
  <2> DEFINE x == IF j \in inflight THEN "record" ELSE "sadd"
  <2>0. Goto(w, j, x) /\ x \notin SubmitSteps
    BY <1>12 DEF SetRunningAdd, SubmitSteps
  <2> HIDE DEF x
  <2>1. \A u \in Tasks : pc'[u][j] = IF u = w THEN x ELSE pc[u][j]
    BY <2>0, PcAfter
  <2>2. OneOwner(j)'
    BY <1>12, <2>0, <2>1 DEF SetRunningAdd, OneOwner, Flying, Storing, SubmitHeld, PollHeld,
       SubmitSteps
  <2> QED
    BY <1>12, <2>0, <2>2, Others DEF SetRunningAdd
<1>13. CASE SetRunningCount(w, j)
  BY <1>13, Narrow DEF SetRunningCount, SubmitSteps
<1>14. CASE RecordRunning(w, j)
  BY <1>14, Narrow DEF RecordRunning, SubmitSteps
<1>15. CASE SubmitError(w, j)
  BY <1>15, Narrow DEF SubmitError, SubmitSteps
<1> QED
  BY <1>1, <1>2, <1>3, <1>4, <1>5, <1>6, <1>7, <1>8, <1>9, <1>10, <1>11, <1>12, <1>13,
     <1>14, <1>15 DEF SubmitStep

\* The one poller moves a job it has read from the in-flight set to the harvest
\* queue, or out of it and back to the delayed retries.
LEMMA PollOwner ==
    ASSUME TypeOK, OwnerInv, OnePollerOnly, NEW p \in Pollers, NEW j \in Jobs, PollStep(p, j)
    PROVE  OwnerInv'
<1> USE RolesDisjoint DEF Finish, At
<1> OneOwner(j)
  BY DEF OwnerInv
<1>0. "idle" \notin RequeueSteps \cup CheckSteps
  BY DEF RequeueSteps, CheckSteps
<1>1. CASE PollList(p, j)
  BY <1>1, Narrow DEF PollList, Flying, RequeueSteps
<1>2. CASE PollRead(p, j)
  <2>1. CASE Goto(p, j, "checking")
    BY <1>2, <2>1, Narrow DEF PollRead, Flying, RequeueSteps, CheckSteps
  <2>2. CASE Finish(p, j)
    BY <1>0, <1>2, <2>2, Narrow DEF PollRead
  <2> QED
    BY <1>2, <2>1, <2>2 DEF PollRead
<1>3. CASE PollRunning(p, j)
  BY <1>0, <1>3, Narrow DEF PollRunning
<1>4. CASE ReleaseDone(p, j)
  <2>1. CASE j \in inflight
    <3>1. \A u \in Tasks : pc'[u][j] = IF u = p THEN "storing_row" ELSE pc[u][j]
      BY <1>4, <2>1, PcAfter DEF ReleaseDone
    <3>2. ~Flying(j)'
      BY <1>4, <2>1, <3>1 DEF ReleaseDone, Flying, OnePollerOnly, CheckSteps
    <3>3. OneOwner(j)'
      BY <1>4, <2>1, <3>1, <3>2 DEF ReleaseDone, OneOwner, Flying, SubmitHeld, PollHeld,
         RequeueSteps
    <3> QED
      BY <1>4, <2>1, <3>3, Others DEF ReleaseDone
  <2>2. CASE j \notin inflight
    BY <1>0, <1>4, <2>2, Narrow DEF ReleaseDone
  <2> QED
    BY <2>1, <2>2
<1>5. CASE StoringRow(p, j)
  BY <1>0, <1>5, Narrow DEF StoringRow
<1>6. CASE PollRequeue(p, j)
  BY <1>6, Narrow DEF PollRequeue, Flying, RequeueSteps, CheckSteps
<1>7. CASE PollFail(p, j)
  BY <1>7, Narrow DEF PollFail, RequeueSteps, CheckSteps
<1>8. CASE RequeueRead(p, j)
  BY <1>8, Narrow DEF RequeueRead, Flying, RequeueSteps, CheckSteps
<1>9. CASE RequeueRemove(p, j)
  <2>1. \A u \in Tasks : pc'[u][j] = IF u = p THEN "rq_count" ELSE pc[u][j]
    BY <1>9, PcAfter DEF RequeueRemove
  <2>2. Flying(j) /\ ~Flying(j)'
    BY <1>9, <2>1 DEF RequeueRemove, Flying, OnePollerOnly, CheckSteps
  <2>3. OneOwner(j)'
    BY <1>9, <2>1, <2>2 DEF RequeueRemove, OneOwner, Storing, SubmitHeld, PollHeld,
       OnePollerOnly
  <2> QED
    BY <1>9, <2>3, Others DEF RequeueRemove
<1>10. CASE RequeueCount(p, j)
  BY <1>10, Narrow DEF RequeueCount, PollHeld, RequeueSteps, CheckSteps
<1>11. CASE RequeueReset(p, j)
  BY <1>11, Narrow DEF RequeueReset, PollHeld, RequeueSteps, CheckSteps
<1>12. CASE RequeueDelay(p, j)
  <2>1. \A u \in Tasks : pc'[u][j] = IF u = p THEN "rq_bump" ELSE pc[u][j]
    BY <1>12, PcAfter DEF RequeueDelay
  <2>2. PollHeld(p, j)
    BY <1>12 DEF RequeueDelay, PollHeld, RequeueSteps
  <2>3. ~Flying(j)' /\ ~Storing(j)'
    BY <1>12, <2>1, <2>2 DEF RequeueDelay, OneOwner, Flying, Storing, CheckSteps
  <2>4. \A q \in Pollers : ~PollHeld(q, j)'
    BY <2>1 DEF OnePollerOnly, PollHeld, RequeueSteps
  <2>5. \A w \in Submitters : ~SubmitHeld(w, j)'
    BY <2>1, <2>2 DEF OneOwner, SubmitHeld
  <2>6. OneOwner(j)'
    BY <1>12, <2>2, <2>3, <2>4, <2>5 DEF RequeueDelay, OneOwner
  <2> QED
    BY <1>12, <2>6, Others DEF RequeueDelay
<1>13. CASE RequeueBump(p, j)
  BY <1>13, Narrow DEF RequeueBump, RequeueSteps, CheckSteps
<1>14. CASE RequeueRow(p, j)
  BY <1>0, <1>14, Narrow DEF RequeueRow
<1> QED
  BY <1>1, <1>2, <1>3, <1>4, <1>5, <1>6, <1>7, <1>8, <1>9, <1>10, <1>11, <1>12, <1>13,
     <1>14 DEF PollStep

\* A harvest puts back only a job it took from the harvest queue.
LEMMA HarvestOwner ==
    ASSUME TypeOK, OwnerInv, NEW h \in Harvesters, NEW j \in Jobs, HarvestStep(h, j)
    PROVE  OwnerInv'
<1> USE RolesDisjoint DEF Finish, At
<1>0. "idle" \notin HarvestSteps
  BY DEF HarvestSteps
<1>1. CASE HarvestStart(h, j)
  BY <1>1, Narrow DEF HarvestStart, Storing
<1>2. CASE HarvestForget(h, j)
  BY <1>2, Still DEF HarvestForget
<1>3. CASE HarvestRetry(h, j)
  <2>1. Storing(j)
    BY <1>3 DEF HarvestRetry, Storing, HarvestSteps
  <2> QED
    BY <1>0, <1>3, <2>1, Narrow DEF HarvestRetry
<1>4. CASE HarvestFail(h, j)
  BY <1>4, Narrow DEF HarvestFail, Storing, HarvestSteps
<1>5. CASE RecordDone(h, j)
  BY <1>5, Narrow DEF RecordDone, Storing, HarvestSteps
<1>6. CASE HarvestError(h, j)
  <2>1. Storing(j)
    BY <1>6 DEF HarvestError, Storing, HarvestSteps
  <2>2. CASE Finish(h, j)
    BY <1>0, <1>6, <2>1, <2>2, Narrow DEF HarvestError
  <2>3. CASE Goto(h, j, "mf_check")
    BY <1>6, <2>1, <2>3, Narrow DEF HarvestError
  <2> QED
    BY <1>6, <2>2, <2>3 DEF HarvestError
<1> QED
  BY <1>1, <1>2, <1>3, <1>4, <1>5, <1>6 DEF HarvestStep

\* set_failed and set_done only take a job away from its owner.
LEMMA SharedOwner ==
    ASSUME TypeOK, OwnerInv, NEW t \in Tasks, NEW j \in Jobs, SharedStep(t, j)
    PROVE  OwnerInv'
<1> USE RolesDisjoint DEF Finish, At, SubmitSteps, RequeueSteps, CheckSteps, HarvestSteps
<1>1. CASE SetFailedRead(t, j)
  BY <1>1, Narrow DEF SetFailedRead
<1>2. CASE SetFailedPage(t, j)
  BY <1>2, Narrow DEF SetFailedPage
<1>3. CASE SetFailedWrite(t, j)
  BY <1>3, Narrow DEF SetFailedWrite
<1>4. CASE SetFailedRemove(t, j)
  BY <1>4, Narrow DEF SetFailedRemove
<1>5. CASE SetFailedCount(t, j)
  BY <1>5, Narrow DEF SetFailedCount
<1>6. CASE FailRow(t, j)
  BY <1>6, Narrow DEF FailRow
<1>7. CASE MarkFailedCheck(t, j)
  <2>1. CASE Goto(t, j, "sd_read")
    BY <1>7, <2>1, Narrow DEF MarkFailedCheck, Storing
  <2>2. CASE Goto(t, j, "sf_read")
    BY <1>7, <2>2, Narrow DEF MarkFailedCheck
  <2> QED
    BY <1>7, <2>1, <2>2 DEF MarkFailedCheck
<1>8. CASE SetDoneRead(t, j)
  BY <1>8, Narrow DEF SetDoneRead, Storing
<1>9. CASE SetDonePage(t, j)
  BY <1>9, Narrow DEF SetDonePage, Storing
<1>10. CASE SetDoneWrite(t, j)
  <2>1. CASE Goto(t, j, "sd_count")
    BY <1>10, <2>1, Narrow DEF SetDoneWrite, Storing
  <2>2. CASE Goto(t, j, "sd_end")
    BY <1>10, <2>2, Narrow DEF SetDoneWrite, Storing
  <2> QED
    BY <1>10, <2>1, <2>2 DEF SetDoneWrite
<1>11. CASE SetDoneCount(t, j)
  BY <1>11, Narrow DEF SetDoneCount, Storing
<1>12. CASE ReportDone(t, j)
  BY <1>12, Narrow DEF ReportDone, Storing
<1>13. CASE SetDoneEnd(t, j)
  BY <1>13, Narrow DEF SetDoneEnd
<1> QED
  BY <1>1, <1>2, <1>3, <1>4, <1>5, <1>6, <1>7, <1>8, <1>9, <1>10, <1>11, <1>12, <1>13
     DEF SharedStep

\* A task that dies gives its job to nobody.
LEMMA AbortOwner ==
    ASSUME TypeOK, OwnerInv, NEW t \in Tasks, NEW j \in Jobs, Abort(t, j)
    PROVE  OwnerInv'
BY Narrow DEF Abort, Finish, SubmitSteps, RequeueSteps, CheckSteps, HarvestSteps

LEMMA StutterOwner == OwnerInv /\ UNCHANGED vars => OwnerInv'
BY Still DEF vars

\* With one poller, however many submit workers and harvest loops run and however
\* often a task dies half way, no job is ever in two queues, in a queue and in a
\* worker's hands, or in two workers' hands: the ZREM of a claim, the ZREM of a
\* promotion and the SREM of release_done decide alone who goes on with it.
THEOREM OwnedByOne ==
    ASSUME OnePollerOnly
    PROVE  PipelineSpec => []ExclusiveOwner
<1>1. TypeOK /\ OwnerInv /\ [PipelineNext]_vars => OwnerInv'
  BY ApiOwner, SubmitOwner, PollOwner, HarvestOwner, SharedOwner, AbortOwner, StutterOwner
     DEF PipelineNext
<1>2. PipelineSpec => []OwnerInv
  BY <1>1, TypeCorrect, InitOwner, PTL DEF PipelineSpec
<1> QED
  BY <1>2, OwnerImplies, PTL

-----------------------------------------------------------------------------
\* What the workers tell each other about a job is true, with one poller.

\* A status check follows the dispatch it checks.
Prompt == OnePollerOnly /\ PromptMirror = TRUE
OneHarvesterOnly == \A h, g \in Harvesters : h = g

\* Where a task may stand without holding up anyone else's work on the job: it has
\* only peeked it, or has only the row and the requeue count left to write.
Spare(t) == IF t \in Submitters THEN {"idle", "peeked"}
            ELSE IF t \in Pollers THEN {"idle", "storing_row", "rq_bump", "rq_row"}
            ELSE {"idle"}
Busy(t, j) == pc[t][j] \notin Spare(t)
Bumping(p, j) == pc[p][j] \in {"rq_bump", "rq_row"}

\* A task that works on a job works on it alone (but for other harvests of it), and
\* a job in a queue is worked on by nobody but the loop the queue is for.
Alone(j) ==
    /\ \A t, u \in Tasks : Busy(t, j) /\ Busy(u, j) => t = u \/ {t, u} \subseteq Harvesters
    /\ \A t \in Tasks : Busy(t, j) =>
          /\ t \notin Reapers /\ api[j] = "answered"
          /\ j \notin pending \cup delayed
          /\ t \notin Harvesters => j \notin harvest
          /\ t \in Harvesters => j \notin inflight
    /\ \A w \in Submitters : SubmitHeld(w, j) => j \notin inflight
    /\ \A p \in Pollers : PollHeld(p, j) => j \notin inflight
    /\ \A p \in Pollers : Bumping(p, j) =>
          j \notin harvest /\ api[j] = "answered" /\ \A h \in Harvesters : ~Busy(h, j)
    /\ j \in pending => j \notin delayed \cup inflight \cup harvest
    /\ j \in delayed => j \notin inflight \cup harvest
    /\ j \in inflight => j \notin harvest
    /\ api[j] # "answered" => j \notin pending \cup delayed \cup inflight \cup harvest
AloneInv == \A j \in Jobs : Alone(j)

USE DEF redisVars, hashVars, queueVars, counterVars

-----------------------------------------------------------------------------
\* AloneInv.

\* A task has one role.
LEMMA Roles ==
    /\ Submitters \cap Pollers = {} /\ Submitters \cap Harvesters = {}
    /\ Pollers \cap Harvesters = {}
    /\ Reapers \cap (Submitters \cup Pollers \cup Harvesters) = {}
    /\ Tasks = Submitters \cup Pollers \cup Harvesters \cup Reapers
BY PipelineAssumption DEF Tasks

LEMMA SpareSteps ==
    /\ \A w \in Submitters : Spare(w) = {"idle", "peeked"}
    /\ \A p \in Pollers : Spare(p) = {"idle", "storing_row", "rq_bump", "rq_row"}
    /\ \A h \in Harvesters \cup Reapers : Spare(h) = {"idle"}
    /\ \A t \in Tasks : "idle" \in Spare(t)
BY Roles DEF Spare

\* What a task does to one job leaves the others' as they are.
LEMMA AloneOthers ==
    ASSUME TypeOK, AloneInv, NEW t \in Tasks, NEW j \in Jobs, NEW x, Goto(t, j, x),
           api' = api,
           \A i \in Jobs \ {j} : /\ i \in pending' => i \in pending
                                 /\ i \in delayed' => i \in delayed
                                 /\ i \in inflight' => i \in inflight
                                 /\ i \in harvest' => i \in harvest,
           Alone(j)'
    PROVE  AloneInv'
<1> SUFFICES ASSUME NEW i \in Jobs \ {j} PROVE Alone(i)'
  BY DEF AloneInv
<1>1. \A u \in Tasks : pc'[u][i] = pc[u][i]
  BY PcAfter
<1>2. Alone(i)
  BY DEF AloneInv
<1> QED
  BY <1>1, <1>2, Roles DEF Alone, Busy, Bumping, SubmitHeld, PollHeld

\* A step of a task that was busy with the job, or does not become so, and adds it to
\* no queue but a harvester to its own.
LEMMA AloneNarrow ==
    ASSUME TypeOK, AloneInv, NEW t \in Tasks, NEW j \in Jobs, NEW x, Goto(t, j, x),
           api' = api,
           pending' \subseteq pending, delayed' \subseteq delayed, inflight' \subseteq inflight,
           \A i \in harvest' : i \in harvest \/ (i = j /\ t \in Harvesters /\ Busy(t, j)),
           x \notin Spare(t) => Busy(t, j),
           t \in Submitters /\ x \in SubmitSteps => SubmitHeld(t, j),
           t \in Pollers /\ x \in RequeueSteps => PollHeld(t, j),
           t \in Pollers /\ x \in {"rq_bump", "rq_row"} => Bumping(t, j)
    PROVE  AloneInv'
<1>1. \A u \in Tasks : pc'[u][j] = IF u = t THEN x ELSE pc[u][j]
  BY PcAfter
<1>2. Alone(j)
  BY DEF AloneInv
<1>3. \A u \in Tasks : Busy(u, j)' => Busy(u, j)
  BY <1>1 DEF Busy
<1>4. /\ \A w \in Submitters : SubmitHeld(w, j)' => SubmitHeld(w, j)
      /\ \A p \in Pollers : /\ PollHeld(p, j)' => PollHeld(p, j)
                            /\ Bumping(p, j)' => Bumping(p, j)
  BY <1>1, Roles DEF SubmitHeld, PollHeld, Bumping
<1>5. j \in harvest' => \/ j \in harvest
                        \/ t \in Harvesters /\ Busy(t, j)
  OBVIOUS
<1>6. Alone(j)'
  BY <1>2, <1>3, <1>4, <1>5, Roles DEF Alone
<1> QED
  BY <1>6, AloneOthers

\* No task moves, and nothing is added to a queue.
LEMMA AloneStill ==
    ASSUME AloneInv, pc' = pc, pending' \subseteq pending, delayed' \subseteq delayed,
           inflight' \subseteq inflight, harvest' \subseteq harvest,
           \A i \in Jobs : api[i] = "answered" => api'[i] = "answered"
    PROVE  AloneInv'
BY DEF AloneInv, Alone, Busy, Bumping, SubmitHeld, PollHeld

LEMMA AloneInit == Init => AloneInv
BY SpareSteps, Roles DEF Init, AloneInv, Alone, Busy, Bumping, SubmitHeld, PollHeld, SubmitSteps,
   RequeueSteps

\* The API enqueues a job that nobody has.
LEMMA AloneApi ==
    ASSUME TypeOK, AloneInv, NEW j \in Jobs, ApiStep(j)
    PROVE  AloneInv'
<1>1. CASE SubmitRow(j) \/ ApiDies(j)
  <2>1. \A i \in Jobs : api[i] = "answered" => api'[i] = "answered"
    BY <1>1 DEF SubmitRow, ApiDies, TypeOK
  <2> QED
    BY <1>1, <2>1, AloneStill DEF SubmitRow, ApiDies
<1>2. CASE Enqueue(j)
  <2>1. \A i \in Jobs \ {j} : Alone(i)'
    BY <1>2 DEF Enqueue, TypeOK, AloneInv, Alone, Busy, Bumping, SubmitHeld, PollHeld
  <2>2. \A t \in Tasks : ~Busy(t, j)
    BY <1>2 DEF Enqueue, AloneInv, Alone
  <2>3. Alone(j)'
    BY <1>2, <2>2, Roles DEF Enqueue, TypeOK, AloneInv, Alone, Busy, Bumping, SubmitHeld, PollHeld
  <2> QED
    BY <2>1, <2>3 DEF AloneInv
<1> QED
  BY <1>1, <1>2 DEF ApiStep

LEMMA AloneSubmit ==
    ASSUME TypeOK, AloneInv, NEW w \in Submitters, NEW j \in Jobs, SubmitStep(w, j)
    PROVE  AloneInv'
<1> USE Roles, SpareSteps DEF Finish, At
<1> Alone(j)
  BY DEF AloneInv
<1>0. \A u \in Tasks : u # w /\ Busy(u, j) => ~Busy(w, j)
  BY DEF Alone
<1>1. CASE PromoteTake(w, j)
  <2>1. \A u \in Tasks : pc'[u][j] = IF u = w THEN "promoting" ELSE pc[u][j]
    BY <1>1, PcAfter DEF PromoteTake
  <2>2. \A u \in Tasks : ~Busy(u, j)
    BY <1>1 DEF PromoteTake, Alone
  <2>3. api[j] = "answered" /\ j \notin pending \cup inflight \cup harvest
    BY <1>1 DEF PromoteTake, Alone
  <2>4. Alone(j)'
    BY <1>1, <2>1, <2>2, <2>3 DEF PromoteTake, Alone, Busy, Bumping, SubmitHeld, PollHeld
  <2> QED
    BY <1>1, <2>4, AloneOthers DEF PromoteTake
<1>2. CASE PromoteAdd(w, j) \/ DispatchBack(w, j) \/ ScheduleRetry(w, j)
  <2>1. \A u \in Tasks : pc'[u][j] = IF u = w THEN "idle" ELSE pc[u][j]
    BY <1>2, PcAfter DEF PromoteAdd, DispatchBack, ScheduleRetry
  <2>2. Busy(w, j) /\ SubmitHeld(w, j) /\ Goto(w, j, "idle")
    BY <1>2 DEF PromoteAdd, DispatchBack, ScheduleRetry, Busy, SubmitHeld, SubmitSteps
  <2>3. \A u \in Tasks : ~Busy(u, j)'
    BY <1>0, <2>1, <2>2 DEF Busy
  <2>4. /\ api[j] = "answered" /\ j \notin pending \cup delayed \cup inflight \cup harvest
        /\ inflight' = inflight /\ harvest' = harvest /\ api' = api
        /\ j \notin pending' \/ j \notin delayed'
        /\ \A i \in Jobs \ {j} : (i \in pending' => i \in pending) /\ (i \in delayed' => i \in delayed)
    BY <1>2, <2>2 DEF PromoteAdd, DispatchBack, ScheduleRetry, Alone
  <2>5. Alone(j)'
    BY <2>1, <2>2, <2>3, <2>4 DEF Alone, Busy, Bumping, SubmitHeld, PollHeld, SubmitSteps
  <2> QED
    BY <2>2, <2>4, <2>5, AloneOthers
<1>3. CASE Peek(w, j)
  BY <1>3, AloneNarrow DEF Peek, SubmitSteps
<1>4. CASE DropPending(w, j)
  BY <1>4, AloneStill DEF DropPending
<1>5. CASE Claim(w, j)
  <2>1. CASE Finish(w, j)
    BY <1>5, <2>1, AloneNarrow DEF Claim, SubmitSteps
  <2>2. CASE j \in pending /\ Goto(w, j, "claimed")
    <3>1. \A u \in Tasks : pc'[u][j] = IF u = w THEN "claimed" ELSE pc[u][j]
      BY <2>2, PcAfter
    <3>2. \A u \in Tasks : ~Busy(u, j)
      BY <2>2 DEF Alone
    <3>3. api[j] = "answered" /\ j \notin delayed \cup inflight \cup harvest
      BY <2>2 DEF Alone
    <3>4. Alone(j)'
      BY <1>5, <3>1, <3>2, <3>3 DEF Claim, Alone, Busy, Bumping, SubmitHeld, PollHeld
    <3> QED
      BY <1>5, <2>2, <3>4, AloneOthers DEF Claim
  <2> QED
    BY <1>5, <2>1, <2>2 DEF Claim
<1>6. CASE DispatchRetry(w, j) \/ EngineAccepts(w, j) \/ SetRunningHash(w, j)
  <2>1. Busy(w, j) /\ SubmitHeld(w, j)
    BY <1>6 DEF DispatchRetry, EngineAccepts, SetRunningHash, Busy, SubmitHeld, SubmitSteps
  <2> QED
    BY <1>6, <2>1, AloneNarrow DEF DispatchRetry, EngineAccepts, SetRunningHash
<1>7. CASE SetRunningAdd(w, j)
  <2> DEFINE x == IF j \in inflight THEN "record" ELSE "sadd"
  <2>0. Goto(w, j, x) /\ x \notin SubmitSteps
    BY <1>7 DEF SetRunningAdd, SubmitSteps
  <2> HIDE DEF x
  <2>1. \A u \in Tasks : pc'[u][j] = IF u = w THEN x ELSE pc[u][j]
    BY <2>0, PcAfter
  <2>2. Busy(w, j)
    BY <1>7 DEF SetRunningAdd, Busy
  <2>3. \A u \in Tasks : u # w => ~Busy(u, j) /\ ~Busy(u, j)'
    BY <1>0, <2>1, <2>2 DEF Busy
  <2>4. \A v \in Submitters : ~SubmitHeld(v, j)'
    BY <2>0, <2>1, <2>3 DEF Busy, SubmitHeld, SubmitSteps
  <2>5. \A p \in Pollers : ~PollHeld(p, j)'
    BY <2>3 DEF Busy, PollHeld, RequeueSteps
  <2>6. Alone(j)'
    BY <1>7, <2>1, <2>2, <2>3, <2>4, <2>5 DEF SetRunningAdd, Alone, Bumping
  <2> QED
    BY <1>7, <2>0, <2>6, AloneOthers DEF SetRunningAdd
<1>8. CASE SetRunningCount(w, j) \/ DispatchFail(w, j) \/ SubmitError(w, j)
  <2>1. Busy(w, j)
    BY <1>8 DEF SetRunningCount, DispatchFail, SubmitError, Busy
  <2> QED
    BY <1>8, <2>1, AloneNarrow DEF SetRunningCount, DispatchFail, SubmitError, SubmitSteps
<1>9. CASE RecordRunning(w, j)
  BY <1>9, AloneNarrow DEF RecordRunning, SubmitSteps
<1> QED
  BY <1>1, <1>2, <1>3, <1>4, <1>5, <1>6, <1>7, <1>8, <1>9 DEF SubmitStep

LEMMA AlonePoll ==
    ASSUME TypeOK, AloneInv, Prompt, NEW p \in Pollers, NEW j \in Jobs, PollStep(p, j)
    PROVE  AloneInv'
<1> USE Roles, SpareSteps DEF Finish, At
<1> Alone(j)
  BY DEF AloneInv
<1>0. /\ \A u \in Tasks : u # p /\ Busy(u, j) => ~Busy(p, j)
      /\ \A q \in Pollers : q = p
  BY DEF Alone, Prompt, OnePollerOnly
<1>1. CASE PollList(p, j)
  <2>1. \A u \in Tasks : pc'[u][j] = IF u = p THEN "listed" ELSE pc[u][j]
    BY <1>1, PcAfter DEF PollList
  <2>2. j \in inflight /\ \A w \in Submitters : ~Busy(w, j)
    BY <1>1 DEF PollList, Prompt, Busy
  <2>3. \A u \in Tasks : ~Busy(u, j)
    BY <1>0, <1>1, <2>2 DEF PollList, Alone, Busy
  <2>4. Alone(j)'
    BY <1>1, <2>1, <2>2, <2>3 DEF PollList, Alone, Busy, Bumping, SubmitHeld, PollHeld, RequeueSteps
  <2> QED
    BY <1>1, <2>4, AloneOthers DEF PollList
<1>2. CASE PollRead(p, j)
  <2>1. Busy(p, j)
    BY <1>2 DEF PollRead, Busy
  <2>2. CASE Goto(p, j, "checking")
    BY <1>2, <2>1, <2>2, AloneNarrow DEF PollRead, RequeueSteps
  <2>3. CASE Finish(p, j)
    BY <1>2, <2>3, AloneNarrow DEF PollRead, RequeueSteps
  <2> QED
    BY <1>2, <2>2, <2>3 DEF PollRead
<1>3. CASE PollRunning(p, j) \/ StoringRow(p, j) \/ RequeueRow(p, j)
  BY <1>3, AloneNarrow DEF PollRunning, StoringRow, RequeueRow, RequeueSteps
<1>4. CASE ReleaseDone(p, j)
  <2>0. Busy(p, j) /\ \A u \in Tasks : u # p => ~Busy(u, j)
    BY <1>0, <1>4 DEF ReleaseDone, Busy
  <2>1. CASE j \in inflight
    <3>1. \A u \in Tasks : pc'[u][j] = IF u = p THEN "storing_row" ELSE pc[u][j]
      BY <1>4, <2>1, PcAfter DEF ReleaseDone
    <3>2. \A u \in Tasks : ~Busy(u, j)'
      BY <2>0, <3>1 DEF Busy
    <3>3. \A q \in Pollers : ~PollHeld(q, j)' /\ ~Bumping(q, j)'
      BY <1>0, <3>1 DEF PollHeld, Bumping, RequeueSteps
    <3>4. /\ inflight' = inflight \ {j} /\ harvest' = harvest \cup {j} /\ pending' = pending
          /\ delayed' = delayed /\ api' = api /\ Goto(p, j, "storing_row")
      BY <1>4, <2>1 DEF ReleaseDone
    <3>5. Alone(j)'
      BY <2>0, <2>1, <3>2, <3>3, <3>4 DEF Alone
    <3> QED
      BY <3>4, <3>5, AloneOthers
  <2>2. CASE j \notin inflight
    BY <1>4, <2>2, AloneNarrow DEF ReleaseDone, RequeueSteps
  <2> QED
    BY <2>1, <2>2
<1>5. CASE PollRequeue(p, j) \/ PollFail(p, j) \/ RequeueRead(p, j)
  <2>1. Busy(p, j)
    BY <1>5 DEF PollRequeue, PollFail, RequeueRead, Busy
  <2> QED
    BY <1>5, <2>1, AloneNarrow DEF PollRequeue, PollFail, RequeueRead, RequeueSteps
<1>6. CASE RequeueRemove(p, j)
  <2>1. \A u \in Tasks : pc'[u][j] = IF u = p THEN "rq_count" ELSE pc[u][j]
    BY <1>6, PcAfter DEF RequeueRemove
  <2>2. Busy(p, j) /\ \A u \in Tasks : u # p => ~Busy(u, j) /\ ~Busy(u, j)'
    BY <1>0, <1>6, <2>1 DEF RequeueRemove, Busy
  <2>3. \A q \in Pollers : ~Bumping(q, j)'
    BY <1>0, <2>1 DEF Bumping
  <2>4. Alone(j)'
    BY <1>6, <2>2, <2>3 DEF RequeueRemove, Alone
  <2> QED
    BY <1>6, <2>4, AloneOthers DEF RequeueRemove
<1>7. CASE RequeueCount(p, j) \/ RequeueReset(p, j)
  <2>1. Busy(p, j) /\ PollHeld(p, j)
    BY <1>7 DEF RequeueCount, RequeueReset, Busy, PollHeld, RequeueSteps
  <2> QED
    BY <1>7, <2>1, AloneNarrow DEF RequeueCount, RequeueReset
<1>8. CASE RequeueDelay(p, j)
  <2>1. \A u \in Tasks : pc'[u][j] = IF u = p THEN "rq_bump" ELSE pc[u][j]
    BY <1>8, PcAfter DEF RequeueDelay
  <2>2. /\ Busy(p, j) /\ PollHeld(p, j)
        /\ \A u \in Tasks : ~Busy(u, j)' /\ (u # p => ~Busy(u, j))
    BY <1>0, <1>8, <2>1 DEF RequeueDelay, Busy, PollHeld, RequeueSteps
  <2>3. api[j] = "answered" /\ j \notin pending \cup inflight \cup harvest
    BY <2>2 DEF Alone
  <2>4. /\ \A q \in Pollers : ~PollHeld(q, j)'
        /\ \A w \in Submitters : ~SubmitHeld(w, j)'
    BY <1>0, <2>1, <2>2 DEF PollHeld, RequeueSteps, SubmitHeld, SubmitSteps, Busy
  <2>5. Alone(j)'
    BY <1>8, <2>2, <2>3, <2>4 DEF RequeueDelay, Alone
  <2> QED
    BY <1>8, <2>5, AloneOthers DEF RequeueDelay
<1>9. CASE RequeueBump(p, j)
  <2>1. Bumping(p, j)
    BY <1>9 DEF RequeueBump, Bumping
  <2> QED
    BY <1>9, <2>1, AloneNarrow DEF RequeueBump, RequeueSteps
<1> QED
  BY <1>1, <1>2, <1>3, <1>4, <1>5, <1>6, <1>7, <1>8, <1>9 DEF PollStep

LEMMA AloneHarvest ==
    ASSUME TypeOK, AloneInv, NEW h \in Harvesters, NEW j \in Jobs, HarvestStep(h, j)
    PROVE  AloneInv'
<1> USE Roles, SpareSteps DEF Finish, At
<1> Alone(j)
  BY DEF AloneInv
<1>1. CASE HarvestStart(h, j)
  <2>1. \A u \in Tasks : pc'[u][j] = IF u = h THEN "harvesting" ELSE pc[u][j]
    BY <1>1, PcAfter DEF HarvestStart
  <2>2. /\ j \in harvest /\ \A u \in Tasks : Busy(u, j) => u \in Harvesters
        /\ \A q \in Pollers : ~Bumping(q, j)
    BY <1>1 DEF HarvestStart, Alone
  <2>3. /\ \A u \in Tasks : Busy(u, j)' => u \in Harvesters
        /\ \A q \in Pollers : ~Bumping(q, j)' /\ (PollHeld(q, j)' => PollHeld(q, j))
        /\ \A w \in Submitters : SubmitHeld(w, j)' => SubmitHeld(w, j)
    BY <2>1, <2>2 DEF Busy, Bumping, PollHeld, SubmitHeld
  <2>4. api[j] = "answered" /\ j \notin pending \cup delayed \cup inflight
    BY <2>2 DEF Alone
  <2>5. Alone(j)'
    BY <1>1, <2>3, <2>4 DEF HarvestStart, Alone
  <2> QED
    BY <1>1, <2>5, AloneOthers DEF HarvestStart
<1>2. CASE HarvestForget(h, j)
  BY <1>2, AloneStill DEF HarvestForget
<1>3. CASE HarvestRetry(h, j) \/ HarvestFail(h, j) \/ RecordDone(h, j) \/ HarvestError(h, j)
  <2>1. Busy(h, j)
    BY <1>3 DEF HarvestRetry, HarvestFail, RecordDone, HarvestError, Busy
  <2>2. CASE Goto(h, j, "idle")
    BY <1>3, <2>1, <2>2, AloneNarrow DEF HarvestRetry, HarvestFail, RecordDone, HarvestError
  <2>3. CASE Goto(h, j, "mf_check")
    BY <1>3, <2>1, <2>3, AloneNarrow DEF HarvestRetry, HarvestFail, RecordDone, HarvestError
  <2>4. CASE Goto(h, j, "sd_read")
    BY <1>3, <2>1, <2>4, AloneNarrow DEF HarvestRetry, HarvestFail, RecordDone, HarvestError
  <2> QED
    BY <1>3, <2>2, <2>3, <2>4 DEF HarvestRetry, HarvestFail, RecordDone, HarvestError
<1> QED
  BY <1>1, <1>2, <1>3 DEF HarvestStep

\* set_failed, set_done, mark_failed and a death are steps of a task that is busy.
LEMMA AloneShared ==
    ASSUME TypeOK, AloneInv, NEW t \in Tasks, NEW j \in Jobs, SharedStep(t, j) \/ Abort(t, j)
    PROVE  AloneInv'
<1> USE SpareSteps DEF Finish, At, SubmitSteps, RequeueSteps
<1>1. /\ pending' = pending /\ delayed' = delayed /\ inflight' \subseteq inflight
      /\ harvest' \subseteq harvest /\ api' = api
  BY DEF SharedStep, SetFailedRead, SetFailedPage, SetFailedWrite, SetFailedRemove, SetFailedCount,
     FailRow, MarkFailedCheck, SetDoneRead, SetDonePage, SetDoneWrite, SetDoneCount, ReportDone,
     SetDoneEnd, Abort
<1>2. \E x \in {"idle", "sf_read", "sf_page", "sf_write", "sf_srem", "sf_count", "sf_row", "sd_read",
                "sd_page", "sd_write", "sd_count", "sd_end", "reported"} :
          Goto(t, j, x) /\ (x # "idle" => Busy(t, j))
  <2>1. CASE SetFailedRead(t, j) \/ SetFailedPage(t, j) \/ SetFailedWrite(t, j)
             \/ SetFailedRemove(t, j) \/ SetFailedCount(t, j) \/ FailRow(t, j)
    BY <2>1 DEF SetFailedRead, SetFailedPage, SetFailedWrite, SetFailedRemove, SetFailedCount,
       FailRow, Busy, Spare
  <2>2. CASE MarkFailedCheck(t, j) \/ SetDoneRead(t, j) \/ SetDonePage(t, j) \/ SetDoneWrite(t, j)
             \/ SetDoneCount(t, j) \/ ReportDone(t, j) \/ SetDoneEnd(t, j) \/ Abort(t, j)
    BY <2>2 DEF MarkFailedCheck, SetDoneRead, SetDonePage, SetDoneWrite, SetDoneCount, ReportDone,
       SetDoneEnd, Abort, Busy, Spare
  <2> QED
    BY <2>1, <2>2 DEF SharedStep
<1> QED
  BY <1>1, <1>2, AloneNarrow

LEMMA AloneStep ==
    ASSUME TypeOK, AloneInv, Prompt, [PipelineNext]_vars PROVE AloneInv'
<1>1. CASE UNCHANGED vars
  BY <1>1, AloneStill DEF vars
<1> QED
  BY <1>1, AloneApi, AloneSubmit, AlonePoll, AloneHarvest, AloneShared DEF PipelineNext

-----------------------------------------------------------------------------
\* What one step leaves alone.

\* The job of another step, and the other tasks, are as they were.
Elsewhere(t, j) ==
    /\ \A i \in Jobs \ {j} :
          /\ hash'[i] = hash[i] /\ status'[i] = status[i] /\ backend'[i] = backend[i]
          /\ requeues'[i] = requeues[i] /\ pages'[i] = pages[i]
          /\ row'[i] = row[i] /\ reports'[i] = reports[i] /\ api'[i] = api[i]
          /\ (i \in pending' <=> i \in pending) /\ (i \in delayed' <=> i \in delayed)
          /\ (i \in inflight' <=> i \in inflight) /\ (i \in harvest' <=> i \in harvest)
    /\ \A u \in Tasks, i \in Jobs :
          u # t \/ i # j => pc'[u][i] = pc[u][i] /\ loc'[u][i] = loc[u][i]

LEMMA ApiElsewhere ==
    ASSUME TypeOK, NEW t, NEW j \in Jobs, ApiStep(j)
    PROVE  Elsewhere(t, j) /\ pc' = pc /\ loc' = loc
BY DEF ApiStep, SubmitRow, Enqueue, ApiDies, Elsewhere, TypeOK

\* The steps of a task that move it move nobody else.
LEMMA MoveElsewhere ==
    ASSUME TypeOK, NEW t \in Tasks, NEW j \in Jobs, NEW x, Goto(t, j, x),
           loc' = loc \/ \E l \in Locals : Keep(t, j, l)
    PROVE  /\ \A u \in Tasks, i \in Jobs :
                u # t \/ i # j => pc'[u][i] = pc[u][i] /\ loc'[u][i] = loc[u][i]
           /\ pc'[t][j] = x
           /\ \A l : Keep(t, j, l) => loc'[t][j] = l
BY DEF Goto, Keep, TypeOK

LEMMA SubmitElsewhere ==
    ASSUME TypeOK, NEW t \in Submitters, NEW j \in Jobs, SubmitStep(t, j)
    PROVE  Elsewhere(t, j)
<1> USE Roles, NoLocalsType DEF Finish
<1>1. CASE PromoteTake(t, j)
  BY <1>1, MoveElsewhere DEF PromoteTake, Elsewhere
<1>2. CASE PromoteAdd(t, j)
  BY <1>2, MoveElsewhere DEF PromoteAdd, Elsewhere
<1>3. CASE Peek(t, j)
  <2>1. PICK b \in Backends : Keep(t, j, [NoLocals EXCEPT !.bk = b, !.rq = requeues[j]])
    BY <1>3 DEF Peek
  <2>2. [NoLocals EXCEPT !.bk = b, !.rq = requeues[j]] \in Locals
    BY PeekedType DEF TypeOK
  <2> QED
    BY <1>3, <2>1, <2>2, MoveElsewhere DEF Peek, Elsewhere
<1>4. CASE DropPending(t, j)
  BY <1>4 DEF DropPending, Elsewhere
<1>5. CASE Claim(t, j)
  BY <1>5, MoveElsewhere DEF Claim, Elsewhere
<1>6. CASE DispatchBack(t, j) \/ DispatchRetry(t, j) \/ ScheduleRetry(t, j)
  BY <1>6, MoveElsewhere DEF DispatchBack, DispatchRetry, ScheduleRetry, Elsewhere, Touch, TypeOK
<1>7. CASE DispatchFail(t, j) \/ EngineAccepts(t, j) \/ SubmitError(t, j)
  BY <1>7, MoveElsewhere DEF DispatchFail, EngineAccepts, SubmitError, Elsewhere
<1>8. CASE SetRunningHash(t, j)
  BY <1>8, MoveElsewhere DEF SetRunningHash, Elsewhere, Touch, TypeOK
<1>9. CASE SetRunningAdd(t, j) \/ SetRunningCount(t, j)
  BY <1>9, MoveElsewhere DEF SetRunningAdd, SetRunningCount, Elsewhere
<1>10. CASE RecordRunning(t, j)
  BY <1>10, MoveElsewhere DEF RecordRunning, Elsewhere, TypeOK
<1> QED
  BY <1>1, <1>2, <1>3, <1>4, <1>5, <1>6, <1>7, <1>8, <1>9, <1>10 DEF SubmitStep

LEMMA PollElsewhere ==
    ASSUME TypeOK, NEW t \in Pollers, NEW j \in Jobs, PollStep(t, j)
    PROVE  Elsewhere(t, j)
<1> USE Roles, NoLocalsType DEF Finish
<1>1. CASE PollList(t, j) \/ PollRequeue(t, j) \/ PollFail(t, j)
  BY <1>1, MoveElsewhere DEF PollList, PollRequeue, PollFail, Elsewhere
<1>2. CASE PollRead(t, j)
  <2>1. [NoLocals EXCEPT !.bk = backend[j], !.st = status[j], !.rq = requeues[j]] \in Locals
    BY PeekedType DEF TypeOK
  <2> QED
    BY <1>2, <2>1, MoveElsewhere DEF PollRead, Elsewhere
<1>3. CASE PollRunning(t, j)
  BY <1>3, MoveElsewhere DEF PollRunning, Elsewhere, Touch, TypeOK
<1>4. CASE ReleaseDone(t, j)
  BY <1>4, MoveElsewhere DEF ReleaseDone, Elsewhere, TypeOK
<1>5. CASE StoringRow(t, j) \/ RequeueRow(t, j)
  BY <1>5, MoveElsewhere DEF StoringRow, RequeueRow, Elsewhere, TypeOK
<1>6. CASE RequeueRead(t, j)
  <2>1. [loc[t][j] EXCEPT !.st = Seen(j), !.bk = SeenBackend(j)] \in Locals
    BY Roles, ReadType, LocIn, SeenType
  <2> QED
    BY <1>6, <2>1, MoveElsewhere DEF RequeueRead, Elsewhere
<1>7. CASE RequeueRemove(t, j)
  <2>1. [loc[t][j] EXCEPT !.rem = (j \in inflight)] \in Locals
    BY Roles, RemType, LocIn
  <2> QED
    BY <1>7, <2>1, MoveElsewhere DEF RequeueRemove, Elsewhere
<1>8. CASE RequeueCount(t, j) \/ RequeueDelay(t, j)
  BY <1>8, MoveElsewhere DEF RequeueCount, RequeueDelay, Elsewhere
<1>9. CASE RequeueReset(t, j) \/ RequeueBump(t, j)
  BY <1>9, MoveElsewhere DEF RequeueReset, RequeueBump, Elsewhere, Touch, TypeOK
<1> QED
  BY <1>1, <1>2, <1>3, <1>4, <1>5, <1>6, <1>7, <1>8, <1>9 DEF PollStep

LEMMA HarvestElsewhere ==
    ASSUME TypeOK, NEW t \in Harvesters, NEW j \in Jobs, HarvestStep(t, j)
    PROVE  Elsewhere(t, j)
<1> USE Roles, NoLocalsType DEF Finish
<1>1. CASE HarvestStart(t, j)
  <2>1. [NoLocals EXCEPT !.bk = backend[j]] \in Locals
    BY PeekedType DEF TypeOK
  <2> QED
    BY <1>1, <2>1, MoveElsewhere DEF HarvestStart, Elsewhere
<1>2. CASE HarvestForget(t, j)
  BY <1>2 DEF HarvestForget, Elsewhere
<1>3. CASE HarvestRetry(t, j) \/ HarvestFail(t, j)
  BY <1>3, MoveElsewhere DEF HarvestRetry, HarvestFail, Elsewhere, Touch, TypeOK
<1>4. CASE RecordDone(t, j)
  <2>1. [loc[t][j] EXCEPT !.run = IF row[j] = "done" THEN "again" ELSE "first"] \in Locals
    BY Roles, RunType, LocIn
  <2> QED
    BY <1>4, <2>1, MoveElsewhere DEF RecordDone, Elsewhere, TypeOK
<1>5. CASE HarvestError(t, j)
  <2>1. [loc[t][j] EXCEPT !.run = "none"] \in Locals
    BY Roles, RunType, LocIn
  <2> QED
    BY <1>5, <2>1, MoveElsewhere DEF HarvestError, Elsewhere, Touch, TypeOK
<1> QED
  BY <1>1, <1>2, <1>3, <1>4, <1>5 DEF HarvestStep

LEMMA SharedElsewhere ==
    ASSUME TypeOK, NEW t \in Tasks, NEW j \in Jobs, SharedStep(t, j) \/ Abort(t, j)
    PROVE  Elsewhere(t, j)
<1> USE NoLocalsType DEF Finish
<1>0. /\ [loc[t][j] EXCEPT !.st = Seen(j), !.bk = SeenBackend(j)] \in Locals
      /\ [loc[t][j] EXCEPT !.rem = (j \in inflight)] \in Locals
  BY ReadType, LocIn, SeenType, RemType
<1>1. CASE SetFailedRead(t, j) \/ SetFailedRemove(t, j) \/ SetDoneRead(t, j)
  BY <1>0, <1>1, MoveElsewhere DEF SetFailedRead, SetFailedRemove, SetDoneRead, Elsewhere
<1>2. CASE SetFailedPage(t, j) \/ SetDonePage(t, j)
  BY <1>2, MoveElsewhere DEF SetFailedPage, SetDonePage, Elsewhere, CountPage, TypeOK
<1>3. CASE SetFailedWrite(t, j)
  BY <1>3, MoveElsewhere DEF SetFailedWrite, Elsewhere, Touch, TypeOK
<1>4. CASE SetDoneWrite(t, j)
  BY <1>0, <1>4, MoveElsewhere DEF SetDoneWrite, Elsewhere, Touch, TypeOK
<1>5. CASE SetFailedCount(t, j) \/ SetDoneCount(t, j) \/ MarkFailedCheck(t, j)
  BY <1>5, MoveElsewhere DEF SetFailedCount, SetDoneCount, MarkFailedCheck, Elsewhere
<1>6. CASE FailRow(t, j) \/ ReportDone(t, j)
  BY <1>6, MoveElsewhere DEF FailRow, ReportDone, Elsewhere, TypeOK
<1>7. CASE SetDoneEnd(t, j) \/ Abort(t, j)
  BY <1>7, MoveElsewhere DEF SetDoneEnd, Abort, Elsewhere
<1> QED
  BY <1>1, <1>2, <1>3, <1>4, <1>5, <1>6, <1>7 DEF SharedStep

-----------------------------------------------------------------------------
\* A done job.

\* Nobody but a harvest will touch the job any more.
Quiet(j) ==
    /\ api[j] = "answered" /\ j \notin pending \cup delayed \cup inflight
    /\ \A t \in Submitters \cup Pollers : ~Busy(t, j)
    /\ \A p \in Pollers : ~Bumping(p, j)

\* A done row is the end of the job, and everything that says done comes after it.
Done(j) ==
    /\ row[j] = "done" => Quiet(j)
    /\ status[j] = "done" => row[j] = "done"
    /\ \A t \in Tasks : pc[t][j] \in {"sd_read", "sd_page", "sd_write"} => row[j] = "done"
DoneInv == \A j \in Jobs : Done(j)

\* What is left for a task to do about a quiet job.
LEMMA QuietSubmit ==
    ASSUME TypeOK, NEW w \in Submitters, NEW j \in Jobs, SubmitStep(w, j), Quiet(j)
    PROVE  /\ Goto(w, j, "idle") /\ pending' \subseteq pending /\ delayed' = delayed
           /\ inflight' = inflight /\ api' = api /\ row' = row /\ status' = status
BY SpareSteps DEF SubmitStep, PromoteTake, PromoteAdd, Peek, DropPending, Claim, DispatchBack,
   DispatchRetry, ScheduleRetry, DispatchFail, EngineAccepts, SetRunningHash, SetRunningAdd,
   SetRunningCount, RecordRunning, SubmitError, Quiet, Busy, At, Finish

LEMMA QuietPoll ==
    ASSUME TypeOK, NEW p \in Pollers, NEW j \in Jobs, PollStep(p, j), Quiet(j)
    PROVE  /\ Goto(p, j, "idle") /\ pending' = pending /\ delayed' = delayed
           /\ inflight' = inflight /\ api' = api /\ (row[j] = "done" => row' = row) /\ status' = status
BY SpareSteps DEF PollStep, PollList, PollRead, PollRunning, ReleaseDone, StoringRow, PollRequeue,
   PollFail, RequeueRead, RequeueRemove, RequeueCount, RequeueReset, RequeueDelay, RequeueBump,
   RequeueRow, Quiet, Busy, Bumping, At, Finish

\* A quiet job stays quiet, and its row keeps saying done.
LEMMA QuietStep ==
    ASSUME TypeOK, AloneInv, [PipelineNext]_vars, NEW j \in Jobs, Quiet(j)
    PROVE  Quiet(j)' /\ (row[j] = "done" => row'[j] = "done")
<1> USE Roles, SpareSteps
<1>1. CASE UNCHANGED vars
  BY <1>1 DEF vars, Quiet, Busy, Bumping
<1>2. CASE \E i \in Jobs : ApiStep(i)
  <2>1. PICK i \in Jobs : ApiStep(i)
    BY <1>2
  <2>2. i # j
    BY <2>1 DEF ApiStep, SubmitRow, Enqueue, ApiDies, Quiet
  <2> QED
    BY <2>1, <2>2, ApiElsewhere DEF Elsewhere, Quiet, Busy, Bumping
<1>3. CASE \E w \in Submitters, i \in Jobs : SubmitStep(w, i)
  <2>1. PICK w \in Submitters, i \in Jobs : SubmitStep(w, i)
    BY <1>3
  <2>2. CASE i # j
    BY <2>1, <2>2, SubmitElsewhere DEF Elsewhere, Quiet, Busy, Bumping
  <2>3. CASE i = j
    BY <2>1, <2>3, QuietSubmit, PcAfter DEF Quiet, Busy, Bumping
  <2> QED
    BY <2>2, <2>3
<1>4. CASE \E p \in Pollers, i \in Jobs : PollStep(p, i)
  <2>1. PICK p \in Pollers, i \in Jobs : PollStep(p, i)
    BY <1>4
  <2>2. CASE i # j
    BY <2>1, <2>2, PollElsewhere DEF Elsewhere, Quiet, Busy, Bumping
  <2>3. CASE i = j
    BY <2>1, <2>3, QuietPoll, PcAfter DEF Quiet, Busy, Bumping
  <2> QED
    BY <2>2, <2>3
<1>5. CASE \E h \in Harvesters, i \in Jobs : HarvestStep(h, i)
  <2>1. PICK h \in Harvesters, i \in Jobs : HarvestStep(h, i)
    BY <1>5
  <2>2. \A u \in Tasks : u \notin Harvesters => pc'[u][j] = pc[u][j]
    BY <2>1, HarvestElsewhere DEF Elsewhere
  <2>3. /\ pending' = pending /\ delayed' = delayed /\ inflight' = inflight /\ api' = api
        /\ row[j] = "done" => row'[j] = "done"
    BY <2>1 DEF HarvestStep, HarvestStart, HarvestForget, HarvestRetry, HarvestFail, RecordDone,
       HarvestError, TypeOK
  <2> QED
    BY <2>2, <2>3 DEF Quiet, Busy, Bumping
<1>6. CASE \E t \in Tasks, i \in Jobs : SharedStep(t, i) \/ Abort(t, i)
  <2>1. PICK t \in Tasks, i \in Jobs : SharedStep(t, i) \/ Abort(t, i)
    BY <1>6
  <2>2. CASE i # j
    BY <2>1, <2>2, SharedElsewhere DEF Elsewhere, Quiet, Busy, Bumping
  <2>3. CASE i = j /\ t \notin Harvesters
    <3>1. t \in Submitters \cup Pollers
      BY <2>1, <2>3 DEF SharedStep, SetFailedRead, SetFailedPage, SetFailedWrite, SetFailedRemove,
         SetFailedCount, FailRow, MarkFailedCheck, SetDoneRead, SetDonePage, SetDoneWrite,
         SetDoneCount, ReportDone, SetDoneEnd, Abort, At, AloneInv, Alone, Busy
    <3>2. Abort(t, j)
      BY <2>1, <2>3, <3>1 DEF SharedStep, SetFailedRead, SetFailedPage, SetFailedWrite,
         SetFailedRemove, SetFailedCount, FailRow, MarkFailedCheck, SetDoneRead, SetDonePage,
         SetDoneWrite, SetDoneCount, ReportDone, SetDoneEnd, At, Quiet, Busy
    <3> QED
      BY <3>2, PcAfter DEF Abort, Finish, Quiet, Busy, Bumping
  <2>4. CASE i = j /\ t \in Harvesters
    <3>1. \A u \in Tasks : u \notin Harvesters => pc'[u][j] = pc[u][j]
      BY <2>1, <2>4, SharedElsewhere DEF Elsewhere
    <3>2. /\ pending' = pending /\ delayed' = delayed /\ inflight' \subseteq inflight /\ api' = api
          /\ row[j] = "done" => row'[j] = "done"
      BY <2>1, <2>4 DEF SharedStep, SetFailedRead, SetFailedPage, SetFailedWrite, SetFailedRemove,
         SetFailedCount, FailRow, MarkFailedCheck, SetDoneRead, SetDonePage, SetDoneWrite,
         SetDoneCount, ReportDone, SetDoneEnd, Abort
    <3> QED
      BY <3>1, <3>2 DEF Quiet, Busy, Bumping
  <2> QED
    BY <2>2, <2>3, <2>4
<1> QED
  BY <1>1, <1>2, <1>3, <1>4, <1>5, <1>6 DEF PipelineNext

\* Where a step of the submit worker leads.
LEMMA SubmitMoves ==
    ASSUME NEW w \in Submitters, NEW j \in Jobs, SubmitStep(w, j)
    PROVE  \/ pc' = pc /\ pc[w][j] = "idle"
           \/ \E x \in {"idle", "promoting", "peeked", "claimed", "retrying", "accepted", "hset", "sadd",
                       "record", "sf_read"} : Goto(w, j, x)
<1> USE DEF Finish, At
<1>1. PromoteTake(w, j) \/ PromoteAdd(w, j) \/ DispatchBack(w, j) \/ ScheduleRetry(w, j)
        \/ RecordRunning(w, j) \/ Claim(w, j) =>
          Goto(w, j, "promoting") \/ Goto(w, j, "idle") \/ Goto(w, j, "claimed")
  BY DEF PromoteTake, PromoteAdd, DispatchBack, ScheduleRetry, RecordRunning, Claim
<1>2. Peek(w, j) \/ DispatchRetry(w, j) \/ DispatchFail(w, j) \/ EngineAccepts(w, j)
        \/ SubmitError(w, j) =>
          Goto(w, j, "peeked") \/ Goto(w, j, "retrying") \/ Goto(w, j, "sf_read")
            \/ Goto(w, j, "accepted")
  BY DEF Peek, DispatchRetry, DispatchFail, EngineAccepts, SubmitError
<1>3. SetRunningHash(w, j) \/ SetRunningAdd(w, j) \/ SetRunningCount(w, j) =>
          Goto(w, j, "hset") \/ Goto(w, j, "record") \/ Goto(w, j, "sadd")
  BY DEF SetRunningHash, SetRunningAdd, SetRunningCount
<1> QED
  BY <1>1, <1>2, <1>3 DEF SubmitStep, DropPending

LEMMA DoneInit == Init => DoneInv
BY DEF Init, DoneInv, Done

\* Nothing says done of a job whose row does not, but the harvest that marks the row.
LEMMA DoneSource ==
    ASSUME TypeOK, DoneInv, [PipelineNext]_vars, NEW j \in Jobs
    PROVE  \/ \E h \in Harvesters : RecordDone(h, j)
           \/ /\ row'[j] = "done" => row[j] = "done"
              /\ status'[j] = "done" => row[j] = "done"
              /\ \A t \in Tasks : pc'[t][j] \in {"sd_read", "sd_page", "sd_write"} => row[j] = "done"
<1> USE Roles DEF At, Finish
<1> Done(j)
  BY DEF DoneInv
<1>0. ASSUME NEW t \in Tasks, NEW i \in Jobs, Elsewhere(t, i), i # j
      PROVE  /\ row'[j] = "done" => row[j] = "done"
             /\ status'[j] = "done" => row[j] = "done"
             /\ \A u \in Tasks : pc'[u][j] \in {"sd_read", "sd_page", "sd_write"} => row[j] = "done"
  BY <1>0 DEF Elsewhere, Done
<1>1. CASE UNCHANGED vars
  BY <1>1 DEF vars, Done
<1>2. CASE \E i \in Jobs : ApiStep(i)
  BY <1>2 DEF ApiStep, SubmitRow, Enqueue, ApiDies, Done, TypeOK
<1>3. CASE \E w \in Submitters, i \in Jobs : SubmitStep(w, i)
  <2>1. PICK w \in Submitters, i \in Jobs : SubmitStep(w, i)
    BY <1>3
  <2>2. CASE i = j
    <3>2. (row'[j] = "done" => row[j] = "done") /\ (status'[j] = "done" => status[j] = "done")
      BY <2>1, <2>2 DEF SubmitStep, PromoteTake, PromoteAdd, Peek, DropPending, Claim, DispatchBack,
         DispatchRetry, ScheduleRetry, DispatchFail, EngineAccepts, SetRunningHash, SetRunningAdd,
         SetRunningCount, RecordRunning, SubmitError, TypeOK
    <3> QED
      BY <2>1, <2>2, <3>2, SubmitMoves, PcAfter DEF Done
  <2> QED
    BY <1>0, <2>1, <2>2, SubmitElsewhere
<1>4. CASE \E p \in Pollers, i \in Jobs : PollStep(p, i)
  <2>1. PICK p \in Pollers, i \in Jobs : PollStep(p, i)
    BY <1>4
  <2>2. CASE i = j
    <3>1. \E x : Goto(p, j, x) /\ x \notin {"sd_read", "sd_page", "sd_write"}
      BY <2>1, <2>2 DEF PollStep, PollList, PollRead, PollRunning, ReleaseDone, StoringRow,
         PollRequeue, PollFail, RequeueRead, RequeueRemove, RequeueCount, RequeueReset, RequeueDelay,
         RequeueBump, RequeueRow
    <3>2. (row'[j] = "done" => row[j] = "done") /\ (status'[j] = "done" => status[j] = "done")
      BY <2>1, <2>2 DEF PollStep, PollList, PollRead, PollRunning, ReleaseDone, StoringRow,
         PollRequeue, PollFail, RequeueRead, RequeueRemove, RequeueCount, RequeueReset, RequeueDelay,
         RequeueBump, RequeueRow, TypeOK
    <3> QED
      BY <3>1, <3>2, PcAfter DEF Done
  <2> QED
    BY <1>0, <2>1, <2>2, PollElsewhere
<1>5. CASE \E h \in Harvesters, i \in Jobs : HarvestStep(h, i)
  <2>1. PICK h \in Harvesters, i \in Jobs : HarvestStep(h, i)
    BY <1>5
  <2>2. CASE i = j /\ ~RecordDone(h, j)
    <3>1. \/ pc' = pc
          \/ \E x : Goto(h, j, x) /\ x \notin {"sd_read", "sd_page", "sd_write"}
      BY <2>1, <2>2 DEF HarvestStep, HarvestStart, HarvestForget, HarvestRetry, HarvestFail,
         HarvestError
    <3>2. row' = row /\ status' = status
      BY <2>1, <2>2 DEF HarvestStep, HarvestStart, HarvestForget, HarvestRetry, HarvestFail,
         HarvestError
    <3> QED
      BY <3>1, <3>2, PcAfter DEF Done
  <2> QED
    BY <1>0, <2>1, <2>2, HarvestElsewhere
<1>6. CASE \E t \in Tasks, i \in Jobs : SharedStep(t, i) \/ Abort(t, i)
  <2>1. PICK t \in Tasks, i \in Jobs : SharedStep(t, i) \/ Abort(t, i)
    BY <1>6
  <2>2. CASE i = j
    <3>1. \E x : /\ Goto(t, j, x)
                 /\ x \in {"sd_read", "sd_page", "sd_write"} =>
                       pc[t][j] \in {"sd_read", "sd_page", "sd_write"} \/ row[j] = "done"
      BY <2>1, <2>2 DEF SharedStep, SetFailedRead, SetFailedPage, SetFailedWrite, SetFailedRemove,
         SetFailedCount, FailRow, MarkFailedCheck, SetDoneRead, SetDonePage, SetDoneWrite,
         SetDoneCount, ReportDone, SetDoneEnd, Abort
    <3>2. /\ row'[j] = "done" => row[j] = "done"
          /\ status'[j] = "done" => status[j] = "done" \/ pc[t][j] = "sd_write"
      BY <2>1, <2>2 DEF SharedStep, SetFailedRead, SetFailedPage, SetFailedWrite, SetFailedRemove,
         SetFailedCount, FailRow, MarkFailedCheck, SetDoneRead, SetDonePage, SetDoneWrite,
         SetDoneCount, ReportDone, SetDoneEnd, Abort, TypeOK
    <3> QED
      BY <3>1, <3>2, PcAfter DEF Done
  <2> QED
    BY <1>0, <2>1, <2>2, SharedElsewhere
<1> QED
  BY <1>1, <1>2, <1>3, <1>4, <1>5, <1>6 DEF PipelineNext

LEMMA DoneStep ==
    ASSUME TypeOK, AloneInv, DoneInv, [PipelineNext]_vars
    PROVE  DoneInv'
<1> SUFFICES ASSUME NEW j \in Jobs PROVE Done(j)'
  BY DEF DoneInv
<1> USE Roles, SpareSteps
<1>1. CASE \E h \in Harvesters : RecordDone(h, j)
  <2>1. PICK h \in Harvesters : RecordDone(h, j)
    BY <1>1
  <2>2. Busy(h, j)
    BY <2>1 DEF RecordDone, At, Busy
  <2>3. Quiet(j)
    BY <2>2 DEF Quiet, AloneInv, Alone
  <2>4. Quiet(j)'
    BY <2>3, QuietStep
  <2>5. row'[j] = "done"
    BY <2>1 DEF RecordDone, TypeOK
  <2> QED
    BY <2>4, <2>5 DEF Done
<1>2. CASE ~\E h \in Harvesters : RecordDone(h, j)
  <2>1. row[j] = "done" => Quiet(j)' /\ row'[j] = "done"
    BY QuietStep DEF DoneInv, Done
  <2> QED
    BY <1>2, <2>1, DoneSource DEF Done
<1> QED
  BY <1>1, <1>2

-----------------------------------------------------------------------------
\* One report of a done job.

RunSteps == {"sd_read", "sd_page", "sd_write", "sd_count", "sd_end", "reported"}

\* A task knows that its harvest was the first only until it has reported it, and only
\* one task knows it.
Reported(j) ==
    /\ reports[j] <= 1 /\ (reports[j] = 1 => row[j] = "done")
    /\ \A t \in Tasks :
          /\ loc[t][j].run # "none" => pc[t][j] \in RunSteps
          /\ loc[t][j].run = "first" =>
                /\ row[j] = "done" /\ \A u \in Tasks \ {t} : loc[u][j].run # "first"
                /\ pc[t][j] # "reported" => reports[j] = 0
ReportInv == \A j \in Jobs : Reported(j)

LEMMA ReportInit == Init => ReportInv
BY DEF Init, ReportInv, Reported, NoLocals

\* A task other than a harvest that records or reports keeps what it knows, or forgets it.
Reticent(t, j) ==
    /\ reports'[j] = reports[j]
    /\ loc'[t][j].run \in {"none", loc[t][j].run}
    /\ loc'[t][j].run # "none" => /\ pc'[t][j] \in RunSteps
                                  /\ pc'[t][j] # "reported" => pc[t][j] # "reported"

\* What a task notes, field by field.
LEMMA LocAfter ==
    ASSUME TypeOK, NEW t \in Tasks, NEW j \in Jobs, NEW l, Keep(t, j, l)
    PROVE  loc'[t][j] = l
BY DEF Keep, TypeOK

LEMMA NoNotes ==
    /\ NoLocals.bk = NoBackend /\ NoLocals.st = "absent" /\ NoLocals.rq = 0
    /\ NoLocals.rem = FALSE /\ NoLocals.run = "none"
BY DEF NoLocals

LEMMA NotesRead ==
    ASSUME NEW l \in Locals, NEW s, NEW b
    PROVE  LET m == [l EXCEPT !.st = s, !.bk = b]
           IN  m.st = s /\ m.bk = b /\ m.rq = l.rq /\ m.rem = l.rem /\ m.run = l.run
BY DEF Locals

LEMMA NotesRemoved ==
    ASSUME NEW l \in Locals, NEW r
    PROVE  LET m == [l EXCEPT !.rem = r]
           IN  m.st = l.st /\ m.bk = l.bk /\ m.rq = l.rq /\ m.rem = r /\ m.run = l.run
BY DEF Locals

\* A task that has read the hash knows the status and backend it saw; one that has left
\* the in-flight set knows whether it was still there.
LEMMA ReadNotes ==
    ASSUME TypeOK, NEW t \in Tasks, NEW j \in Jobs,
           Keep(t, j, [loc[t][j] EXCEPT !.st = Seen(j), !.bk = SeenBackend(j)])
    PROVE  /\ loc'[t][j].st = Seen(j) /\ loc'[t][j].bk = SeenBackend(j)
           /\ loc'[t][j].rem = loc[t][j].rem /\ loc'[t][j].run = loc[t][j].run
<1> DEFINE m == [loc[t][j] EXCEPT !.st = Seen(j), !.bk = SeenBackend(j)]
<1>1. loc'[t][j] = m
  BY LocAfter
<1>2. m.st = Seen(j) /\ m.bk = SeenBackend(j) /\ m.rem = loc[t][j].rem /\ m.run = loc[t][j].run
  BY NotesRead, LocIn
<1> HIDE DEF m
<1> QED
  BY <1>1, <1>2

LEMMA RemovedNotes ==
    ASSUME TypeOK, NEW t \in Tasks, NEW j \in Jobs,
           Keep(t, j, [loc[t][j] EXCEPT !.rem = (j \in inflight)])
    PROVE  /\ loc'[t][j].st = loc[t][j].st /\ loc'[t][j].bk = loc[t][j].bk
           /\ loc'[t][j].rem = (j \in inflight) /\ loc'[t][j].run = loc[t][j].run
<1> DEFINE m == [loc[t][j] EXCEPT !.rem = (j \in inflight)]
<1>1. loc'[t][j] = m
  BY LocAfter
<1>2. m.st = loc[t][j].st /\ m.bk = loc[t][j].bk /\ m.rem = (j \in inflight)
      /\ m.run = loc[t][j].run
  BY NotesRemoved, LocIn
<1> HIDE DEF m
<1> QED
  BY <1>1, <1>2

LEMMA ReticentSubmit ==
    ASSUME TypeOK, NEW w \in Submitters, NEW j \in Jobs, SubmitStep(w, j), Reported(j)
    PROVE  Reticent(w, j)
<1>1. pc[w][j] \notin RunSteps
  BY DEF SubmitStep, PromoteTake, PromoteAdd, Peek, DropPending, Claim, DispatchBack,
     DispatchRetry, ScheduleRetry, DispatchFail, EngineAccepts, SetRunningHash, SetRunningAdd,
     SetRunningCount, RecordRunning, SubmitError, At, RunSteps
<1>2. loc[w][j].run = "none"
  BY <1>1, Roles DEF Reported
<1>3. loc'[w][j].run = "none"
  <2>1. CASE \E b \in Backends : Keep(w, j, [NoLocals EXCEPT !.bk = b, !.rq = requeues[j]])
    BY <2>1, Roles DEF Keep, NoLocals, TypeOK
  <2>2. CASE Finish(w, j) \/ loc' = loc
    BY <1>2, <2>2, Roles DEF Finish, Keep, NoLocals, TypeOK
  <2> QED
    BY <2>1, <2>2 DEF SubmitStep, PromoteTake, PromoteAdd, Peek, DropPending, Claim, DispatchBack,
       DispatchRetry, ScheduleRetry, DispatchFail, EngineAccepts, SetRunningHash, SetRunningAdd,
       SetRunningCount, RecordRunning, SubmitError
<1>4. reports' = reports
  BY DEF SubmitStep, PromoteTake, PromoteAdd, Peek, DropPending, Claim, DispatchBack,
     DispatchRetry, ScheduleRetry, DispatchFail, EngineAccepts, SetRunningHash, SetRunningAdd,
     SetRunningCount, RecordRunning, SubmitError
<1> QED
  BY <1>3, <1>4 DEF Reticent

LEMMA ReticentPoll ==
    ASSUME TypeOK, NEW p \in Pollers, NEW j \in Jobs, PollStep(p, j), Reported(j)
    PROVE  Reticent(p, j)
<1>1. pc[p][j] \notin RunSteps
  BY DEF PollStep, PollList, PollRead, PollRunning, ReleaseDone, StoringRow, PollRequeue, PollFail,
     RequeueRead, RequeueRemove, RequeueCount, RequeueReset, RequeueDelay, RequeueBump, RequeueRow,
     At, RunSteps
<1>2. loc[p][j].run = "none"
  BY <1>1, Roles DEF Reported
<1>3. loc'[p][j].run = "none"
  <2>1. CASE PollRead(p, j)
    <3> DEFINE m == [NoLocals EXCEPT !.bk = backend[j], !.st = status[j], !.rq = requeues[j]]
    <3>1. Keep(p, j, m) \/ Finish(p, j)
      BY <2>1 DEF PollRead
    <3>2. m.run = "none"
      BY DEF NoLocals
    <3> HIDE DEF m
    <3> QED
      BY <3>1, <3>2, Roles, LocAfter, NoNotes DEF Finish
  <2>2. CASE RequeueRead(p, j)
    BY <1>2, <2>2, Roles, ReadNotes DEF RequeueRead
  <2>4. CASE RequeueRemove(p, j)
    BY <1>2, <2>4, Roles, RemovedNotes DEF RequeueRemove
  <2>3. CASE Finish(p, j) \/ loc' = loc
    BY <1>2, <2>3, Roles DEF Finish, Keep, NoLocals, TypeOK
  <2> QED
    BY <2>1, <2>2, <2>3, <2>4 DEF PollStep, PollList, PollRunning, ReleaseDone, StoringRow, PollRequeue,
       PollFail, RequeueCount, RequeueReset, RequeueDelay, RequeueBump, RequeueRow
<1>4. reports' = reports
  BY DEF PollStep, PollList, PollRead, PollRunning, ReleaseDone, StoringRow, PollRequeue, PollFail,
     RequeueRead, RequeueRemove, RequeueCount, RequeueReset, RequeueDelay, RequeueBump, RequeueRow
<1> QED
  BY <1>3, <1>4 DEF Reticent

LEMMA ReticentHarvest ==
    ASSUME TypeOK, NEW h \in Harvesters, NEW j \in Jobs, HarvestStep(h, j), Reported(j),
           ~RecordDone(h, j)
    PROVE  Reticent(h, j)
<1>1. CASE HarvestStart(h, j) \/ HarvestRetry(h, j)
  BY <1>1, Roles DEF HarvestStart, HarvestRetry, Finish, Keep, NoLocals, TypeOK, Reticent
<1>2. CASE HarvestForget(h, j)
  BY <1>2, LocIn, Roles DEF HarvestForget, Reticent, Reported
<1>3. CASE HarvestFail(h, j)
  BY <1>3, LocIn, Roles DEF HarvestFail, At, Reticent, Reported, RunSteps
<1>4. CASE HarvestError(h, j)
  BY <1>4, LocIn, Roles DEF HarvestError, Finish, Keep, NoLocals, TypeOK, Reticent, Locals
<1> QED
  BY <1>1, <1>2, <1>3, <1>4 DEF HarvestStep

LEMMA ReticentShared ==
    ASSUME TypeOK, NEW t \in Tasks, NEW j \in Jobs, SharedStep(t, j) \/ Abort(t, j), Reported(j),
           ~ReportDone(t, j)
    PROVE  Reticent(t, j)
<1> USE LocIn DEF At
<1>1. CASE SetFailedRead(t, j) \/ SetFailedPage(t, j) \/ SetFailedWrite(t, j)
           \/ SetFailedRemove(t, j) \/ SetFailedCount(t, j) \/ MarkFailedCheck(t, j)
  <2>1. pc[t][j] \notin RunSteps
    BY <1>1 DEF SetFailedRead, SetFailedPage, SetFailedWrite, SetFailedRemove, SetFailedCount,
       MarkFailedCheck, RunSteps
  <2>2. loc[t][j].run = "none"
    BY <2>1 DEF Reported
  <2>3. loc'[t][j].run = "none"
    BY <1>1, <2>2, ReadNotes, RemovedNotes DEF SetFailedRead, SetFailedPage,
       SetFailedWrite, SetFailedRemove, SetFailedCount, MarkFailedCheck
  <2> QED
    BY <1>1, <2>3 DEF SetFailedRead, SetFailedPage, SetFailedWrite, SetFailedRemove, SetFailedCount,
       MarkFailedCheck, Reticent
<1>2. CASE SetDoneRead(t, j) \/ SetDoneWrite(t, j)
  <2>1. loc'[t][j].run = loc[t][j].run
    BY <1>2, ReadNotes, RemovedNotes DEF SetDoneRead, SetDoneWrite
  <2>2. pc'[t][j] \in RunSteps /\ pc[t][j] # "reported" /\ reports' = reports
    BY <1>2 DEF SetDoneRead, SetDoneWrite, Goto, TypeOK, RunSteps
  <2> QED
    BY <2>1, <2>2 DEF Reticent
<1>3. CASE SetDonePage(t, j) \/ SetDoneCount(t, j)
  BY <1>3 DEF SetDonePage, SetDoneCount, Goto, TypeOK, Reticent, RunSteps
<1>4. CASE FailRow(t, j) \/ SetDoneEnd(t, j) \/ Abort(t, j)
  BY <1>4 DEF FailRow, SetDoneEnd, Abort, Finish, Keep, NoLocals, TypeOK, Reticent
<1> QED
  BY <1>1, <1>2, <1>3, <1>4 DEF SharedStep

LEMMA ReticentOthers ==
    ASSUME TypeOK, NEW t \in Tasks, NEW i \in Jobs, NEW j \in Jobs, Elsewhere(t, i), Reported(j),
           i = j => Reticent(t, j)
    PROVE  reports'[j] = reports[j] /\ \A u \in Tasks : Reticent(u, j)
BY DEF Elsewhere, Reported, Reticent

LEMMA ReportCases ==
    ASSUME TypeOK, ReportInv, [PipelineNext]_vars, NEW j \in Jobs
    PROVE  \/ \E h \in Harvesters : RecordDone(h, j)
           \/ \E t \in Tasks : ReportDone(t, j)
           \/ reports'[j] = reports[j] /\ \A u \in Tasks : Reticent(u, j)
<1> Reported(j)
  BY DEF ReportInv
<1> USE Roles
<1>1. CASE UNCHANGED vars
  BY <1>1 DEF vars, Reported, Reticent
<1>2. CASE \E i \in Jobs : ApiStep(i)
  BY <1>2 DEF ApiStep, SubmitRow, Enqueue, ApiDies, Reported, Reticent
<1>3. CASE \E w \in Submitters, i \in Jobs : SubmitStep(w, i)
  BY <1>3, SubmitElsewhere, ReticentSubmit, ReticentOthers
<1>4. CASE \E p \in Pollers, i \in Jobs : PollStep(p, i)
  BY <1>4, PollElsewhere, ReticentPoll, ReticentOthers
<1>5. CASE \E h \in Harvesters, i \in Jobs : HarvestStep(h, i)
  BY <1>5, HarvestElsewhere, ReticentHarvest, ReticentOthers
<1>6. CASE \E t \in Tasks, i \in Jobs : SharedStep(t, i) \/ Abort(t, i)
  BY <1>6, SharedElsewhere, ReticentShared, ReticentOthers
<1> QED
  BY <1>1, <1>2, <1>3, <1>4, <1>5, <1>6 DEF PipelineNext

LEMMA ReportStep ==
    ASSUME TypeOK, AloneInv, DoneInv, ReportInv, [PipelineNext]_vars
    PROVE  ReportInv'
<1> SUFFICES ASSUME NEW j \in Jobs PROVE Reported(j)'
  BY DEF ReportInv
<1> Reported(j)
  BY DEF ReportInv
<1>0. row[j] = "done" => row'[j] = "done"
  BY QuietStep DEF DoneInv, Done
<1>1. CASE \E h \in Harvesters : RecordDone(h, j)
  <2>1. PICK h \in Harvesters : RecordDone(h, j)
    BY <1>1
  <2>2. \A u \in Tasks \ {h} : loc'[u][j] = loc[u][j] /\ pc'[u][j] = pc[u][j]
    BY <2>1, HarvestElsewhere DEF HarvestStep, Elsewhere
  <2>3. /\ row'[j] = "done" /\ reports' = reports
        /\ loc'[h][j].run = IF row[j] = "done" THEN "again" ELSE "first"
        /\ pc'[h][j] = "sd_read"
    BY <2>1, LocIn, Roles DEF RecordDone, Keep, Goto, TypeOK, Locals
  <2>4. row[j] # "done" => reports[j] = 0 /\ \A u \in Tasks : loc[u][j].run # "first"
    <3>1. reports[j] \in Nat /\ reports[j] <= 1 /\ (reports[j] = 1 => row[j] = "done")
      BY DEF Reported, TypeOK
    <3> QED
      BY <3>1 DEF Reported
  <2> QED
    BY <2>2, <2>3, <2>4, Roles DEF Reported, RunSteps
<1>2. CASE \E t \in Tasks : ReportDone(t, j)
  <2>1. PICK t \in Tasks : ReportDone(t, j)
    BY <1>2
  <2>2. \A u \in Tasks \ {t} : loc'[u][j] = loc[u][j] /\ pc'[u][j] = pc[u][j]
    BY <2>1, SharedElsewhere DEF SharedStep, Elsewhere
  <2>3. /\ pc'[t][j] = "reported" /\ loc' = loc /\ row' = row /\ loc[t][j].run = "first"
        /\ reports[j] = 0 /\ reports'[j] = 1
    BY <2>1 DEF ReportDone, At, Goto, TypeOK, Reported
  <2> QED
    BY <1>0, <2>2, <2>3 DEF Reported, RunSteps
<1>3. CASE reports'[j] = reports[j] /\ \A u \in Tasks : Reticent(u, j)
  BY <1>0, <1>3 DEF Reported, Reticent
<1> QED
  BY <1>1, <1>2, <1>3, ReportCases

-----------------------------------------------------------------------------
\* Theorems about done jobs.

LEMMA SafetyInvariants ==
    ASSUME Prompt
    PROVE  PipelineSpec => [](TypeOK /\ AloneInv /\ DoneInv /\ ReportInv)
<1>1. Init => TypeOK /\ AloneInv /\ DoneInv /\ ReportInv
  BY InitType, AloneInit, DoneInit, ReportInit
<1>2. TypeOK /\ AloneInv /\ DoneInv /\ ReportInv /\ [PipelineNext]_vars
        => AloneInv' /\ DoneInv' /\ ReportInv'
  BY AloneStep, DoneStep, ReportStep
<1> QED
  BY <1>1, <1>2, TypeCorrect, PTL DEF PipelineSpec

\* What Redis shows as done is on record, and the done event of a job is published
\* once, however often its harvest fails before or after its commit and is run again
\* (_record_done, set_done, mark_failed, with the poller's one process).
THEOREM DoneRecorded ==
    ASSUME Prompt
    PROVE  PipelineSpec => []DoneOnRecord
<1>1. TypeOK /\ DoneInv /\ ReportInv => DoneOnRecord
  BY DEF DoneInv, Done, ReportInv, Reported, DoneOnRecord, DoneIsRecorded, ReportedOnce
<1> QED
  BY <1>1, SafetyInvariants, PTL

\* A job is reported done at most once, however many harvests of it run, fail after
\* their commit and are run again: the commit that finds the row done already does not
\* report it (_record_done).
THEOREM PublishedOnce ==
    ASSUME Prompt
    PROVE  PipelineSpec => []ReportedOnce
<1>1. TypeOK /\ ReportInv => ReportedOnce
  BY DEF ReportInv, Reported, ReportedOnce
<1> QED
  BY <1>1, SafetyInvariants, PTL

\* No worker takes a done row back: a dispatch, a requeue or a failure of the job that
\* writes its row late writes it before the harvest does (_record_running, _requeue,
\* mark_failed, _fail_job).
THEOREM DoneStays ==
    ASSUME Prompt
    PROVE  PipelineSpec => DoneStaysDone
<1>1. TypeOK /\ AloneInv /\ DoneInv /\ [PipelineNext]_vars
        => [\A j \in Jobs : row[j] = "done" => row'[j] = "done"]_vars
  BY QuietStep DEF DoneInv, Done
<1> QED
  BY <1>1, SafetyInvariants, PTL DEF PipelineSpec, DoneStaysDone
=============================================================================
