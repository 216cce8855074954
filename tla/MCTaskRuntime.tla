---------------------------- MODULE MCTaskRuntime ----------------------------
(* Instances of TaskRuntime for TLC: a few runs and jobs of each kind, and  *)
(* the sets of them that are exposed to a fault.                           *)
EXTENDS TaskRuntime

CONSTANTS p1, b1, x1, j1, j2

None == {}
OnePlain == {p1}
OneBracket == {b1}
OneOther == {x1}
OneJob == {j1}
TwoJobs == {j1, j2}
RunsMayFail == {p1, x1, b1}
AnyMayFail == RunsMayFail \cup TwoJobs
=============================================================================
