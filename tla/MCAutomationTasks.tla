-------------------------- MODULE MCAutomationTasks --------------------------
(* Small instances of AutomationTasks for TLC. *)
EXTENDS AutomationTasks, TLC

CONSTANTS daily, t30, w1, w2, p1

\* The daily analysis and one match's T-30 analysis; both count as analysis.
TwoTasks == {daily, t30}
JustT30 == {t30}
JustDaily == {daily}
NoTasks == {}
TwoWorkers == {w1, w2}
OneProducer == {p1}
Times == {0, 2}

\* Workers are only ever compared for equality.
WorkerSymmetry == Permutations(TwoWorkers)
=============================================================================
