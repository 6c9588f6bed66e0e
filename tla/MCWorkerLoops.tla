---------------------------- MODULE MCWorkerLoops ----------------------------
(***************************************************************************)
(* Four loops of the workers that share no state of these modules: the     *)
(* allocation and the domain syncs of the submit worker, the pass of the   *)
(* poller, and the emitter of events.  Their product would show nothing    *)
(* more, so a behaviour follows one of them.                               *)
(***************************************************************************)
EXTENDS Dispatch, DomainSync, PollLoop, Emitter

CONSTANTS w1, w2, d1, d2, d3, v1, v2, j1, j2, e1, e2, e3, e4,
          b1, b2, b3, k1

VARIABLE focus

loopsVars == <<focus, dispatchVars, syncVars, pollVars, emitterVars>>

InDispatch == focus = "dispatch" /\ UNCHANGED <<focus, syncVars, pollVars, emitterVars>>
InSync == focus = "sync" /\ UNCHANGED <<focus, dispatchVars, pollVars, emitterVars>>
InPoll == focus = "poll" /\ UNCHANGED <<focus, dispatchVars, syncVars, emitterVars>>
InEmitter == focus = "emitter" /\ UNCHANGED <<focus, dispatchVars, syncVars, pollVars>>

MCInit ==
    /\ focus \in {"dispatch", "sync", "poll", "emitter"}
    /\ DispatchInit /\ SyncInit /\ PollInit /\ EmitterInit
    /\ focus = "sync" \/ version = v1

MCNext ==
    \/ InDispatch /\ \E healthy \in SUBSET Backends : TickStart(healthy)
    \/ InDispatch /\ TickEnds
    \/ InDispatch /\ TierFull
    \/ InDispatch /\ TierPeek
    \/ InDispatch /\ TierScores
    \/ InDispatch /\ PlaceJob
    \/ InDispatch /\ LeaveOut
    \/ InDispatch /\ AllocateReturns
    \/ InDispatch /\ TierDispatch
    \/ \E p \in Pages :
          \/ InDispatch /\ PageDone(p)
          \/ InDispatch /\ PageRetried(p)
          \/ InDispatch /\ PageFailed(p)
          \/ InDispatch /\ ReapQueued(p)
          \/ InDispatch /\ StateExpires(p)
    \/ InSync /\ ReleaseEngine
    \/ InSync /\ Outage
    \/ InSync /\ Declare
    \/ InSync /\ SyncTick
    \/ InSync /\ LoadRead
    \/ InSync /\ LoadStamp
    \/ \E w \in Workers :
          \/ InSync /\ Describe(w)
          \/ InSync /\ DeleteSees(w)
          \/ InSync /\ Deletes(w)
          \/ InSync /\ SyncCommits(w)
          \/ InSync /\ SyncConflicts(w)
          \/ InSync /\ SyncFails(w)
    \/ InPoll /\ PollTick
    \/ InPoll /\ PassStarts
    \/ InPoll /\ HarvestDue
    \/ InPoll /\ WaitStarts
    \/ InPoll /\ Wakes
    \/ InPoll /\ DrainTokens
    \/ InPoll /\ BatchEnds
    \/ InPoll /\ BatchFails
    \/ InPoll /\ StopRequested
    \/ InPoll /\ LeaveLoop
    \/ InPoll /\ FinishPolls
    \/ InPoll /\ PollerStarts
    \/ InPoll /\ PollerKilled
    \/ \E j \in Jobs :
          \/ InPoll /\ Join(j)
          \/ InPoll /\ SignalPoll(j)
          \/ InPoll /\ CheckRuns(j)
          \/ InPoll /\ CheckEnds(j)
          \/ InPoll /\ CheckGoesWrong(j)
          \/ InPoll /\ HarvestEnds(j)
          \/ InPoll /\ HarvestAgain(j)
    \/ InEmitter /\ \E e \in EventRows : Emit(e)
    \/ InEmitter /\ TakeRow
    \/ InEmitter /\ RunPosts
    \/ InEmitter /\ RunPosted
    \/ InEmitter /\ Close
    \/ InEmitter /\ FlushBatch
    \/ InEmitter /\ FlushTake
    \/ InEmitter /\ FlushPosted
    \/ InEmitter /\ FlushEnds
    \/ InEmitter /\ FlushTimeout

\* The fairness of each module, for the loop that is followed.
MCFairness ==
    /\ WF_loopsVars(InDispatch /\ WorkerGoesOn) /\ WF_loopsVars(InDispatch /\ SomePageEnds)
    /\ WF_loopsVars(InDispatch /\ ReaperGoesOn)
    /\ WF_loopsVars(InSync /\ SyncTick) /\ WF_loopsVars(InSync /\ LoadGoesOn)
    /\ \A w \in Workers : WF_loopsVars(InSync /\ SyncGoesOn(w))
    /\ WF_loopsVars(InPoll /\ PollTick)
    /\ WF_loopsVars(InPoll /\ LoopStep) /\ WF_loopsVars(InPoll /\ BatchEnds)
    /\ \A j \in Jobs : WF_loopsVars(InPoll /\ JobGoesOn(j))
    /\ WF_loopsVars(InEmitter /\ CloseGoesOn)

MCSpec == MCInit /\ [][MCNext]_loopsVars /\ MCFairness

-----------------------------------------------------------------------------
\* Four pages for three backends of two tiers; two submit workers and two releases;
\* two jobs in flight; four events.

FourPages == 1..4
PageDomains == <<"x", "x", "y", "x">>      \* nobody serves "y"
PageBatches == <<k1, k1, NoBatch, NoBatch>>
PageSizes == <<1, 1, 1, 1>>
ThreeBackends == {b1, b2, b3}
RoomOfThree == [b \in ThreeBackends |-> IF b = b3 THEN 1 ELSE 2]
TwoTiers == [b \in ThreeBackends |-> IF b = b3 THEN 0 ELSE 1]
ServesX == [b \in ThreeBackends |-> {"x"}]
InOrder == [b \in ThreeBackends |-> CASE b = b1 -> 1 [] b = b2 -> 2 [] b = b3 -> 3]

TwoWorkers == {w1, w2}
ThreeDomains == {d1, d2, d3}
TwoVersions == {v1, v2}
ServesBoth == [v \in TwoVersions |-> IF v = v1 THEN {d1, d2} ELSE {d2, d3}]
DeclaredOne == {d1}

TwoJobs == {j1, j2}
FourRows == {e1, e2, e3, e4}
=============================================================================
