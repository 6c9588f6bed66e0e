--------------------------- MODULE MCJobLifecycle ---------------------------
(* Small instances of JobLifecycle. *)
EXTENDS JobLifecycle

CONSTANTS j1, b1, w1, p1, h1, c1

OneJob == {j1}
OneBackend == {b1}
OneSubmitter == {w1}
OnePoller == {p1}
OneHarvester == {h1}
OneReaper == {c1}
BackendRebuild == {"backend"}
LoadRebuild == {"load"}
=============================================================================
