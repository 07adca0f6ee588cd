------------------------------ MODULE PointsBoard ------------------------------
(* The leaderboard: black_bloc/points/board.py, over the approved runs the     *)
(* query of points_store.totals groups by member.  "counted" is a function     *)
(* from the approved runs to [who, xp, points, at].                            *)
EXTENDS Integers, FiniteSetsExt

Of(counted, m) == {r \in DOMAIN counted : counted[r].who = m}

\* A member has a row when a run of theirs counts.
Members(counted) == {counted[r].who : r \in DOMAIN counted}

Totals(counted) ==
    [m \in Members(counted) |->
        [xp     |-> MapThenSumSet(LAMBDA r : counted[r].xp, Of(counted, m)),
         points |-> MapThenSumSet(LAMBDA r : counted[r].points, Of(counted, m)),
         last   |-> Max({counted[r].at : r \in Of(counted, m)})]]

\* order_key: more points, more XP, the earlier, the older account.
Beats(totals, a, b) ==
    LET x == totals[a]  y == totals[b]
    IN  \/ x.points > y.points
        \/ x.points = y.points /\ x.xp > y.xp
        \/ x.points = y.points /\ x.xp = y.xp /\ x.last < y.last
        \/ x = y /\ a < b

\* standings: from each member on the board to their place.
Standings(totals) ==
    [m \in DOMAIN totals |-> 1 + Cardinality({o \in DOMAIN totals : Beats(totals, o, m)})]

Board(counted) == Standings(Totals(counted))

\* Mutation of Gap: as many points as the place above has.
GapEven(totals, above, m) == totals[above].points - totals[m].points

\* next_rank: what passing the place above takes.
Gap(totals, above, m) == totals[above].points - totals[m].points + 1

-------------------------------------------------------------------------------
Inside(board, m, top) == m \in DOMAIN board /\ board[m] <= top

\* The part of a board the announcements are about.
TopOf(board, top) == [m \in {n \in DOMAIN board : board[n] <= top} |-> board[m]]

\* Mutation of Diff: the last place inside the top is taken for one outside.
DiffShort(before, after, top) ==
    LET was(m) == Inside(before, m, top)
        now(m) == Inside(after, m, top - 1)
        moved  == {m \in DOMAIN before \cup DOMAIN after :
                     was(m) # now(m) \/ (was(m) /\ before[m] # after[m])}
    IN  [m \in moved |-> IF ~now(m) THEN [kind |-> "left", now |-> 0]
                         ELSE [kind |-> IF ~was(m) THEN "entered"
                                        ELSE IF after[m] < before[m] THEN "up" ELSE "down",
                               now  |-> after[m]]]

\* diff: what becomes of each member who was or is inside the top.
Diff(before, after, top) ==
    LET was(m) == Inside(before, m, top)
        now(m) == Inside(after, m, top)
        moved  == {m \in DOMAIN before \cup DOMAIN after :
                     was(m) # now(m) \/ (was(m) /\ before[m] # after[m])}
    IN  [m \in moved |-> IF ~now(m) THEN [kind |-> "left", now |-> 0]
                         ELSE [kind |-> IF ~was(m) THEN "entered"
                                        ELSE IF after[m] < before[m] THEN "up" ELSE "down",
                               now  |-> after[m]]]

\* What a reader of the recorded changes believes after one more of them.
Replay(known, changes) ==
    LET left == {m \in DOMAIN changes : changes[m].kind = "left"}
    IN  [m \in (DOMAIN known \cup DOMAIN changes) \ left |->
            IF m \in DOMAIN changes THEN changes[m].now ELSE known[m]]
================================================================================
