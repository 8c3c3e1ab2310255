--------------------------- MODULE MCBacktestJobs ---------------------------
(* A small instance of BacktestJobs for TLC. *)
EXTENDS BacktestJobs, TLC

CONSTANTS j1, j2, r1, r2, p1, p2, c1, c2, x1

TwoJobs == {j1, j2}
TwoRuns == {r1, r2}
OneProcess == {p1}
TwoProcesses == {p1, p2}
OneCaller == {c1}
OneResumer == {x1}
TwoCallers == {c1, c2}

\* Instances are interchangeable.
Interchangeable == Permutations(TwoProcesses)
=============================================================================
