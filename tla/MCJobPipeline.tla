--------------------------- MODULE MCJobPipeline ---------------------------
(* Small instances of JobPipeline. *)
EXTENDS JobPipeline, TLC

CONSTANTS j1, j2, j3, b1, b2, w1, w2, p1, p2, h1

OneJob == {j1}
ThreeJobs == {j1, j2, j3}
OneBackend == {b1}
TwoBackends == {b1, b2}
OneSubmitter == {w1}
TwoSubmitters == {w1, w2}
OnePoller == {p1}
TwoPollers == {p1, p2}
OneHarvester == {h1}
None == {}

Symmetry == Permutations(ThreeJobs)
PollerSymmetry == Permutations(TwoPollers)

\* What the retry budget depends on: no worker reads the other variables (the
\* /load and page counters, the events).
BudgetView == <<hashVars, queueVars, slots, row, api, pc, loc, faults>>
=============================================================================
