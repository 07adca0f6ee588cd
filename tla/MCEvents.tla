------------------------------- MODULE MCEvents -------------------------------
(* Small instances of Events for TLC. *)
EXTENDS Events, TLC

CONSTANTS t1, t2, r1, p1

OneTask   == {t1}
TwoTasks  == {t1, t2}
OneRoom   == {r1}
OnePost   == {p1}
None      == {}
GoLiveOnly == {GoLiveLoop}
SweepOnly  == {ReconcileLoop}

\* Buttons are alike, and so are the ids Discord hands out.
TaskSymmetry == Permutations(Tasks)
==============================================================================
