-------------------------------- MODULE MCPoints --------------------------------
(* Small instances of Points for TLC. *)
EXTENDS Points, TLC

CONSTANTS t1, t2, none

TwoTasks == {t1, t2}

\* A long and a short run of one game.
Long     == [game |-> "g", seconds |-> 700]
Short    == [game |-> "g", seconds |-> 40]
TwoFeats == {Long, Short}

\* A run of each of three members; one of them may be corrected.
Submissions == <<{<<1, Short>>}, {<<2, Long>>, <<2, Short>>}, {<<3, Long>>}>>

\* Two offers that are worth the same, one of them on the first day only.
TwoBounties == {[id |-> 1, games |-> {"g"}, kind |-> "multiplier", amount |-> 15, from |-> 0, till |-> 1],
                [id |-> 2, games |-> {"g"}, kind |-> "extra", amount |-> 50, from |-> 0, till |-> 9]}

OneBounty == {b \in TwoBounties : b.id = 1}

TheRules == [tiers |-> {[floor |-> 60, xp |-> 5], [floor |-> 600, xp |-> 25]},
             low |-> 5, high |-> 100, perRun |-> 10]

TaskSymmetry == Permutations(Tasks)
================================================================================
