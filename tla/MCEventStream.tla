--------------------------- MODULE MCEventStream ----------------------------
(***************************************************************************)
(* A Python client with two jobs, a Java client with one, or a Python      *)
(* client that waits for a batch, whose events of jobs they did not submit *)
(* they treat as early results; and what the gateway learns of two engines *)
(* over releases and outages.  The modules share no state, so a behaviour  *)
(* follows one of them.                                                    *)
(***************************************************************************)
EXTENDS EventStream, Engines

CONSTANTS py, ja, j1, j2, j3, e1, e2

TwoClients == {py, ja}
OneJava == {ja}
ThreeJobs == {j1, j2, j3}
OfBoth == [j \in ThreeJobs |-> IF j = j3 THEN ja ELSE py]

Uses(c, jobs) ==
    /\ \A d \in Clients : conn[d] = (IF d = c THEN "down" ELSE "off")
    /\ \A j \in Jobs : sub[j] = (IF j \in jobs THEN "todo" ELSE "never")
    /\ \A d \in Clients : wait[d] = (IF d = c /\ jobs # {} THEN "idle" ELSE "never")
    /\ \A d \in Clients : wb[d] = (IF d = c /\ jobs = {} THEN "idle" ELSE "never")
    /\ batch = (IF jobs = {} THEN "running" ELSE "none")

StreamInit == Init /\ (Uses(py, {j1, j2}) \/ Uses(ja, {j3}) \/ Uses(py, {}))

VARIABLE focus

streamVars == <<focus, vars, engineVars>>

InStream == focus = "stream" /\ UNCHANGED <<focus, engineVars>>
InEngines == focus = "engines" /\ UNCHANGED <<focus, vars>>

\* Of two engines one changes, beside one that stays on its release or is not there;
\* the part that is not followed is a user without a job, or engines scaled to zero.
OneEngine ==
    /\ release[e2] = "r1" /\ answers[e1] = Endpoints
    /\ adapter[e1] = "tuzkam" => answers[e2] = {}
NoEngine ==
    /\ adapter[e1] = "tuzkam"
    /\ release = [e \in Engines |-> "r1"] /\ answers = [e \in Engines |-> {}]

MCInit ==
    /\ focus \in {"stream", "engines"}
    /\ StreamInit
    /\ EnginesInit
    /\ IF focus = "stream" THEN NoEngine ELSE OneEngine /\ batch = "running"

MCNext ==
    \/ InStream /\ BatchFinish
    \/ InStream /\ BatchPublish
    \/ \E j \in Jobs :
          \/ InStream /\ Finish(j)
          \/ InStream /\ Publish(j)
          \/ InStream /\ WindowPasses(j)
          \/ InStream /\ SubmitPost(j)
          \/ InStream /\ SubmitBack(j)
          \/ InStream /\ SubmitBackJava(j)
    \/ \E c \in Clients :
          \/ InStream /\ Socket(c)
          \/ InStream /\ Listen(c)
          \/ InStream /\ Batching(c)
          \/ InStream /\ Drop(c)
          \/ InStream /\ FetchFailsPython(c)
          \/ InStream /\ FetchFailsJava(c)
          \/ InStream /\ WaitCall(c)
          \/ InStream /\ WaitWakes(c)
          \/ InStream /\ WaitAgain(c)
          \/ InStream /\ BatchCall(c)
    \/ InEngines /\ EngineTick
    \/ InEngines /\ Upgrade(e1)
    \/ InEngines /\ Disturb(e1)
    \/ \E e \in Engines :
          \/ InEngines /\ Version(e)
          \/ InEngines /\ DescribeStarts(e)
          \/ InEngines /\ ModelsAnswer(e)
          \/ InEngines /\ SyncApplies(e)

\* The fairness of each module, for the part that is followed.
MCFairness ==
    /\ WF_streamVars(InStream /\ BatchPublish)
    /\ \A j \in Jobs : WF_streamVars(InStream /\ Publish(j)) /\ WF_streamVars(InStream /\ SubmitBack(j))
    /\ \A c \in Clients :
          /\ WF_streamVars(InStream /\ Socket(c)) /\ WF_streamVars(InStream /\ Listen(c))
          /\ WF_streamVars(InStream /\ Batching(c)) /\ WF_streamVars(InStream /\ WaitWakes(c))
    /\ WF_streamVars(InEngines /\ EngineTick)
    /\ \A e \in Engines : WF_streamVars(InEngines /\ SyncContinues(e))

MCSpec == MCInit /\ [][MCNext]_streamVars /\ MCFairness

\* The run of a dropped connection: the jobs end after it, and it was live before.
AfterDrop ==
    /\ faults = 0 => UNCHANGED recent
    /\ faults' > faults => \E c \in Clients : conn[c] = "live" /\ conn'[c] = "down"
DropSpec == MCInit /\ focus = "stream" /\ [][MCNext /\ AfterDrop]_streamVars

-----------------------------------------------------------------------------
\* Two TuzkaOCR, or a TuzkaM; a release that serves one domain more

TwoEngines == {e1, e2}
TwoKinds == {[e \in TwoEngines |-> "tuzkaocr"], [e \in TwoEngines |-> IF e = e1 THEN "tuzkam" ELSE "tuzkaocr"]}
TwoReleases == {"r1", "r2"}
OneMore == [r \in TwoReleases |-> IF r = "r1" THEN {"ocr"} ELSE {"ocr", "handwriting"}]
OneSchemaEach == [r \in TwoReleases |-> IF r = "r1" THEN "old" ELSE "new"]
OneMapDomain == {"maps"}
=============================================================================
