------------------------------ MODULE MCBirthdays ------------------------------
(* Small instances of Birthdays for TLC. *)
EXTENDS Birthdays, TLC

CONSTANTS t1, t2

OneTask  == {t1}
TwoTasks == {t1, t2}

\* Buttons are alike.
TaskSymmetry == Permutations(Tasks)
================================================================================
