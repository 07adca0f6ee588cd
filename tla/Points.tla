--------------------------------- MODULE Points ---------------------------------
(* Runs, decisions and the board: black_bloc/points_moves.py over              *)
(* points_store.py.  Every move but a submission and a bounty's is made under  *)
(* one lock per server.  A step is the code between two awaits; who may press  *)
(* what, words and tickets are left out, the mode is on, and the tiers, the    *)
(* points of a run, the clock of the bounties and the number of top places     *)
(* stay as they are.                                                           *)
EXTENDS PointsBoard, PointsScore

CONSTANTS
    Tasks,          \* moves under way: a pressed button or a website request each
    Users,          \* the members, numbered as their accounts are
    Runs,           \* the ids of the runs
    May,            \* by whom each of them may be submitted, and as what
    Feats,          \* what a run can be: a game and a time
    Bounties,       \* the bounties there may be
    Switched,       \* those of them that staff switch on and off
    Rules,          \* the tiers, the bounds of the XP and the points of a run
    Clock,          \* points_bounty_clock: is a run judged as of its approval or its submission?
    Top,            \* points_top_n
    Operations,     \* the moves the tasks may make
    MaxDay,         \* the calendar stops here
    Nobody          \* the lock is free

Days == 0..MaxDay

AllOperations == {"approve", "reject", "remove", "edit", "recompute"}

ASSUME PointsAssumption ==
    /\ Nobody \notin Tasks /\ Operations \subseteq AllOperations
    /\ Users \subseteq Nat /\ IsFiniteSet(Users) /\ Users # {} /\ Feats # {}
    /\ Runs \subseteq Nat /\ IsFiniteSet(Runs) /\ May \in [Runs -> SUBSET (Users \X Feats)]
    /\ Top \in Nat /\ MaxDay \in Nat /\ Clock \in {"approved", "submitted"}

\* The settings and the forms of a bounty take no negative number.
ASSUME ScoreAssumption ==
    /\ IsFiniteSet(Rules.tiers) /\ \A t \in Rules.tiers : t.floor \in Nat /\ t.xp \in Nat
    /\ Rules.low \in Nat /\ Rules.high \in Nat /\ Rules.perRun \in Nat
    /\ IsFiniteSet(Bounties) /\ Switched \subseteq Bounties
    /\ \A b \in Bounties : b.id \in Nat \ {0} /\ b.amount \in Nat
    /\ \A a, b \in Bounties : a.id = b.id => a = b

\* scoring.score: a feat under the live bounties on a day.
Worth(f, live, day) == Score(f, Rules, live, day)

VARIABLES
    run,       \* the database: points_runs
    bounties,  \* the database: the bounties that are switched on
    today,     \* the clock
    recorded,  \* the log: the top places as its top_changed rows (would_announce, while posts
               \* are off) have them
    pc, op,    \* where each task stands, and which move it makes
    mine,      \* what each task has read
    before,    \* the board of before its move
    lock,      \* lock_for
    history    \* is a record lost; is some score out of date?

taskVars == <<pc, op, mine, before, lock>>
vars == <<run, bounties, today, recorded, pc, op, mine, before, lock, history>>

AFeat == CHOOSE f \in Feats : TRUE
AUser == CHOOSE u \in Users : TRUE

NoRun == [state |-> "none", who |-> AUser, feat |-> AFeat, xp |-> 0, points |-> 0,
          sent |-> 0, at |-> 0]

RunRows == [state : {"none", "pending", "approved", "rejected", "removed"}, who : Users,
            feat : Feats, xp : Nat, points : Nat, sent : Days, at : Days]

Approved(rs) == {r \in Runs : rs[r].state = "approved"}

\* totals: what the query makes the board from.
Counted(rs) == [r \in Approved(rs) |->
                  [who |-> rs[r].who, xp |-> rs[r].xp, points |-> rs[r].points, at |-> rs[r].at]]

\* clock_of: the day a run that is approved on this one is judged on.
Judged(row, day) == IF Clock = "submitted" THEN row.sent ELSE day

\* What a task keeps: the run and what it is corrected to, the row, the live bounties,
\* the day of the approval, and the runs a recompute has yet to write.
NoWork == [r |-> 0, feat |-> AFeat, row |-> NoRun, live |-> {}, day |-> 0, todo |-> {}]

\* Nobody is on this board.
Empty == [u \in {} |-> 0]

-------------------------------------------------------------------------------
Goto(p, label) == pc' = [pc EXCEPT ![p] = label]

Finish(p) == /\ pc'   = [pc EXCEPT ![p] = "idle"]
             /\ op'   = [op EXCEPT ![p] = "none"]
             /\ mine' = [mine EXCEPT ![p] = NoWork]
             /\ before' = [before EXCEPT ![p] = Empty]

MayBe(r) == {f \in Feats : \E u \in Users : <<u, f>> \in May[r]}

\* submit: no lock.  A run has its day for those who ask for it.
Submit(r) ==
    /\ run[r].state = "none"
    /\ \E u \in Users, f \in Feats :
         /\ <<u, f>> \in May[r]
         /\ run' = [run EXCEPT ![r] = [NoRun EXCEPT !.state = "pending", !.who = u, !.feat = f,
                                           !.sent = IF Clock = "submitted" THEN today ELSE 0]]
    /\ UNCHANGED <<bounties, today, recorded, taskVars, history>>

\* bounty_create, bounty_edit, bounty_end: no lock either.  An offer that is edited goes
\* and comes as another.  One that has an event's window comes and goes with the event,
\* of which no call here is told.
SwitchBounty(b) ==
    /\ bounties' = IF b \in bounties THEN bounties \ {b} ELSE bounties \cup {b}
    /\ history' = [history EXCEPT !.stale = TRUE]
    /\ UNCHANGED <<run, today, recorded, taskVars>>

-------------------------------------------------------------------------------
\* require_state: a run that is being corrected may be in any.
Allowed(o, state) == CASE o \in {"approve", "reject"} -> state = "pending"
                       [] o = "remove"                -> state = "approved"
                       [] OTHER                       -> state # "none"

\* Under the lock the row is read, and a run in another state is refused.
Load(p, o, r, f) ==
    /\ Allowed(o, run[r].state)
    /\ op'   = [op EXCEPT ![p] = o]
    /\ mine' = [mine EXCEPT ![p].r = r, ![p].feat = f, ![p].row = run[r]]
    /\ Goto(p, IF o = "reject" THEN "write" ELSE "before")

\* Mutation of Lock: a move does not wait for the one that is being made.
LockBarging(p) ==
    /\ pc[p] = "idle"
    /\ lock' = p
    /\ \E o \in Operations \ {"recompute"}, r \in Runs :
         \E f \in IF o = "edit" THEN MayBe(r) ELSE {AFeat} : Load(p, o, r, f)
    /\ UNCHANGED <<run, bounties, today, recorded, before, history>>

\* A move that waits has read nothing yet, so that it begins with the lock.
Lock(p) ==
    /\ pc[p] = "idle" /\ lock = Nobody
    /\ lock' = p
    /\ \E o \in Operations \ {"recompute"}, r \in Runs :
         \E f \in IF o = "edit" THEN MayBe(r) ELSE {AFeat} : Load(p, o, r, f)
    /\ UNCHANGED <<run, bounties, today, recorded, before, history>>

LockRecompute(p) ==
    /\ pc[p] = "idle" /\ lock = Nobody /\ "recompute" \in Operations
    /\ lock' = p
    /\ op'   = [op EXCEPT ![p] = "recompute"]
    /\ Goto(p, "before")
    /\ UNCHANGED <<run, bounties, today, recorded, mine, before, history>>

Scores(p) == \/ op[p] \in {"approve", "recompute"}
             \/ op[p] = "edit" /\ mine[p].row.state = "approved"

\* Mutation of DayOf: the stamp is rounded up to the next day.
DayAfter(p) == CASE op[p] = "approve" -> today + 1
                 [] op[p] = "edit"    -> mine[p].row.at
                 [] OTHER             -> 0

\* Mutation of DayOf: a corrected run is judged as of today.
DayNow(p) == IF op[p] \in {"approve", "edit"} THEN today ELSE 0

\* The stamp of a decision; a run approved before keeps its own day.
DayOf(p) == CASE op[p] = "approve" -> today
              [] op[p] = "edit"    -> mine[p].row.at
              [] OTHER             -> 0

\* The board of before the move, and the stamp.
ReadBoard(p) ==
    /\ pc[p] = "before"
    /\ before' = [before EXCEPT ![p] = Board(Counted(run))]
    /\ mine' = [mine EXCEPT ![p].day = DayOf(p)]
    /\ Goto(p, IF Scores(p) THEN "score" ELSE "write")
    /\ UNCHANGED <<run, bounties, today, recorded, op, lock, history>>

\* bounties_of: the newest LIST_LIMIT bounties, which are all there are here.  A recompute
\* takes every approved run.
ReadBounties(p) ==
    /\ pc[p] = "score"
    /\ mine' = [mine EXCEPT ![p].live = bounties,
                            ![p].todo = IF op[p] = "recompute" THEN Approved(run) ELSE {}]
    /\ Goto(p, IF op[p] = "recompute" THEN "rescore" ELSE "write")
    /\ UNCHANGED <<run, bounties, today, recorded, op, before, lock, history>>

-------------------------------------------------------------------------------
Scored(row, worth) == [row EXCEPT !.xp = worth.xp, !.points = worth.points]

\* The row a move leaves.  Only a run that counts keeps what nobody asks of the others:
\* its score and the day of its decision.
Written(p) ==
    LET row   == run[mine[p].r]
        given == [row EXCEPT !.feat = mine[p].feat]
    IN  CASE op[p] = "approve" ->
               Scored([row EXCEPT !.state = "approved", !.at = mine[p].day],
                      Worth(mine[p].row.feat, mine[p].live, Judged(mine[p].row, mine[p].day)))
          [] op[p] = "reject" -> [row EXCEPT !.state = "rejected"]
          [] op[p] = "remove" -> [row EXCEPT !.state = "removed", !.xp = 0, !.points = 0, !.at = 0]
          [] op[p] = "edit" /\ mine[p].row.state \in {"rejected", "removed"} ->
               [given EXCEPT !.state = "pending"]
          [] op[p] = "edit" /\ mine[p].row.state = "approved" ->
               Scored(given, Worth(mine[p].feat, mine[p].live, Judged(mine[p].row, mine[p].day)))
          [] OTHER -> given

MovesTheBoard(p) == op[p] \in {"approve", "remove"} \/ Scores(p)

\* update_run lands only while the run is in the state the move read; raced otherwise.
Write(p) ==
    /\ pc[p] = "write"
    /\ LET lands == run[mine[p].r].state = mine[p].row.state
       IN  /\ run' = IF lands THEN [run EXCEPT ![mine[p].r] = Written(p)] ELSE run
           /\ IF lands /\ MovesTheBoard(p)
              THEN Goto(p, "moved") /\ UNCHANGED <<op, mine, before, lock>>
              ELSE Finish(p) /\ lock' = Nobody
    /\ UNCHANGED <<bounties, today, recorded, history>>

\* A run that is approved still gets its score of now.
Rescore(p) ==
    /\ pc[p] = "rescore" /\ mine[p].todo # {}
    /\ \E r \in mine[p].todo :
         /\ run' = IF run[r].state = "approved"
                    THEN [run EXCEPT ![r] = Scored(@, Worth(@.feat, mine[p].live, Judged(@, @.at)))]
                    ELSE run
         /\ mine' = [mine EXCEPT ![p].todo = @ \ {r}]
    /\ UNCHANGED <<bounties, today, recorded, pc, op, before, lock, history>>

Rescored(p) ==
    /\ pc[p] = "rescore" /\ mine[p].todo = {}
    /\ Goto(p, "moved")
    /\ UNCHANGED <<run, bounties, today, recorded, op, mine, before, lock, history>>

\* board_moved: the changes since the board of before are logged, and the lock is free.
\* Every score is of today's bounties again when a recompute ends as it began.
Ended(p) == IF op[p] = "recompute" THEN mine[p].live # bounties ELSE history.stale

Record(p) ==
    /\ pc[p] = "moved"
    /\ recorded' = Replay(recorded, Diff(before[p], Board(Counted(run)), Top))
    /\ lock' = Nobody
    /\ history' = [history EXCEPT !.stale = Ended(p)]
    /\ Finish(p)
    /\ UNCHANGED <<run, bounties, today>>

\* note: a row that cannot be written is given up, and the move goes on.
RecordLost(p) ==
    /\ pc[p] = "moved"
    /\ lock' = Nobody
    /\ history' = [lost |-> TRUE, stale |-> Ended(p)]
    /\ Finish(p)
    /\ UNCHANGED <<run, bounties, today, recorded>>

-------------------------------------------------------------------------------
NextDay ==
    /\ today < MaxDay
    /\ today' = today + 1
    /\ UNCHANGED <<run, bounties, recorded, taskVars, history>>

Crash ==
    /\ history' = [history EXCEPT !.lost = @ \/ \E p \in Tasks : pc[p] \in {"rescore", "moved"}]
    /\ pc' = [p \in Tasks |-> "idle"] /\ op' = [p \in Tasks |-> "none"]
    /\ mine' = [p \in Tasks |-> NoWork] /\ before' = [p \in Tasks |-> Empty] /\ lock' = Nobody
    /\ UNCHANGED <<run, bounties, today, recorded>>

Init == /\ run = [r \in Runs |-> NoRun]
        /\ bounties = {} /\ today = 0 /\ recorded = Empty
        /\ pc = [p \in Tasks |-> "idle"] /\ op = [p \in Tasks |-> "none"]
        /\ mine = [p \in Tasks |-> NoWork] /\ before = [p \in Tasks |-> Empty] /\ lock = Nobody
        /\ history = [lost |-> FALSE, stale |-> FALSE]

Proceed(p) == \/ ReadBoard(p) \/ ReadBounties(p) \/ Write(p)
              \/ Rescore(p) \/ Rescored(p) \/ Record(p) \/ RecordLost(p)

Next == \/ \E r \in Runs : Submit(r)
        \/ \E b \in Switched : SwitchBounty(b)
        \/ \E p \in Tasks : Lock(p) \/ LockRecompute(p) \/ Proceed(p)
        \/ NextDay \/ Crash

Spec == Init /\ [][Next]_vars

-------------------------------------------------------------------------------
Held   == {"before", "score", "write", "rescore", "moved"}
Labels == Held \cup {"idle"}

IsBoard(board) == /\ DOMAIN board \subseteq Users
                  /\ \A u \in DOMAIN board : board[u] \in Nat

Work == [r : Runs \cup {0}, feat : Feats, row : RunRows,
         live : SUBSET Bounties, day : Days, todo : SUBSET Runs]

\* Every variable has its type.
TypeOK == /\ run \in [Runs -> RunRows] /\ bounties \subseteq Bounties /\ today \in Days
          /\ mine \in [Tasks -> Work]
          /\ IsBoard(recorded) /\ DOMAIN before = Tasks /\ \A p \in Tasks : IsBoard(before[p])
          /\ pc \in [Tasks -> Labels] /\ op \in [Tasks -> AllOperations \cup {"none"}]
          /\ lock \in Tasks \cup {Nobody}
          /\ history \in [lost : BOOLEAN, stale : BOOLEAN]

\* "Another process decided the run between the read and the write": within this one no
\* decision, correction or recompute ever does, so that no press is answered with a
\* refusal for a run that was free to be decided when it was read.
NobodyIsRaced ==
    \A p \in Tasks : pc[p] = "write" => run[mine[p].r] = mine[p].row

\* The log of the top places, "the one row that records" what each move did to them, adds
\* up: whoever replays it has the top places of the board whenever no move is being made,
\* unless the program died between a score and its row or the row could not be written.
TopIsRecorded ==
    lock = Nobody /\ ~history.lost => recorded = TopOf(Board(Counted(run)), Top)

\* Does a run count what it is worth under these bounties, on its own day?
Counts(row, live) == LET worth == Worth(row.feat, live, Judged(row, row.at))
                     IN  row.xp = worth.xp /\ row.points = worth.points

\* "Every approved run again, under today's ... bounties, at its own clock": with no bounty
\* switched since a recompute began, every run counts what it is worth, whatever is
\* approved, corrected, removed or cut short before, meanwhile or afterwards.
RecomputedIsCurrent ==
    ~history.stale => \A r \in Approved(run) : Counts(run[r], bounties)

\* "what passing it takes: one more than the gap, so no tie-break decides": the points the
\* card of a member names take them past the place above, whatever else is tied.
GapPassesThePlaceAbove ==
    LET totals == Totals(Counted(run))
        board  == Standings(totals)
    IN  \A u, v \in DOMAIN board :
          board[v] = board[u] - 1 =>
              Standings([totals EXCEPT ![u].points = @ + Gap(totals, v, u)])[u] < board[u]

\* "The best wins, the oldest on a tie": when a run is approved, no live bounty of its game
\* is worth more than what it is given, and none that is as good is older than the one
\* written down; whichever bounties are set.
BestBountyWins ==
    \A p \in Tasks, live \in SUBSET Bounties :
        pc[p] = "write" /\ op[p] = "approve" =>
            GetsTheBest(Rules.perRun, mine[p].row.feat.game,
                        Judged(mine[p].row, mine[p].day), live)
================================================================================
