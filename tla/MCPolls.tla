------------------------------- MODULE MCPolls -------------------------------
(* Small instances of Polls for TLC. *)
EXTENDS Polls, TLC

CONSTANTS t1, t2, v1, a, b

OneTask  == {t1}
TwoTasks == {t1, t2}
OneVoter == {v1}
TwoOptions == {a, b}

\* Buttons are alike, and so are the options.
Symmetry == Permutations(Tasks) \cup Permutations(Options)
==============================================================================
