------------------------------ MODULE PollsProofs ------------------------------
(* A poll is decided and posted once, reminds once and keeps one answer each,   *)
(* however many buttons, website requests and restarts there are.               *)
EXTENDS Polls, FiniteSetTheorems, TLAPS

TasksTyped == /\ pc \in [Procs -> Labels]
              /\ op \in [Procs -> AllOperations \cup {"none"}]
              /\ lock \in [Procs -> Nat] /\ seen \in [Procs -> Nat]
              /\ answer \in [Procs -> Answers]
              /\ tally \in [Procs -> SUBSET (Voters \X Options)]
              /\ stamp \in {"early", "soon", "over"}
Results    == [row : BOOLEAN, votes : SUBSET (Voters \X Options), failed : BOOLEAN]
StoreTyped == /\ row \in Rows /\ votes \subseteq Voters \X Options
              /\ results \in Results /\ late \subseteq Voters
RestTyped  == /\ gen \in Nat /\ hour \in {"early", "soon", "over"}
              /\ sent \in Nat /\ lastCalls \in Nat /\ board \in {"none", "up", "off"}
              /\ decisions \in Seq({"approve", "deny"}) /\ crashes \in Nat

\* What a task is doing where it stands.
Way(p) ==
    /\ pc[p] = "set" => op[p] \in {"approve", "deny", "close", "cancel"}
    /\ pc[p] = "release" => op[p] \in {"approve", "deny"}
    /\ pc[p] \in {"drop", "fetch", "end"} => op[p] \in {"close", "cancel"}
    /\ pc[p] \in {"count", "save"} => op[p] = "close"
    /\ pc[p] \in {"post", "setPosted", "setOpen", "unposted"} => op[p] \in {"create", "approve"}
    /\ pc[p] = "card" => op[p] = "create"
    /\ pc[p] = "wait" => op[p] # "none" /\ op[p] # "create"
    /\ (pc[p] = "wait" /\ op[p] = "vote") \/ pc[p] \in {"pressed", "delete", "insert"}
           => answer[p] \in Voters \X Choices
    /\ pc[p] \in {"delete", "insert"} => op[p] = "vote"
    /\ p \in Tasks => pc[p] \notin {"reminders", "claim", "lastCall", "unclaim", "due"}
Paths == \A p \in Procs : Way(p)

\* Nobody has an object of the lock that is not made yet, nor two of them the same.
Numbered == \A p \in Procs : lock[p] <= gen
Excluded == \A p, q \in Procs : p # q /\ Holds(p) /\ Holds(q) => lock[p] # lock[q]

Undecided == {Absent, "pending_review", "denied"}
Deciding(p) == pc[p] = "set" /\ op[p] \in {"approve", "deny"}

\* As long as staff may decide, the first object of the lock is the only one.
FirstLock == /\ row.status \in Undecided => gen = 0
             /\ \A p \in Procs : /\ Deciding(p) => gen = 0
                                 /\ pc[p] = "drop" => row.status \notin Undecided

\* Before there is a poll there is nothing to do.
Begun == row.status = Absent => \A p \in Procs : pc[p] \in {"idle", "reminders", "due"}

\* A poll has one of the surfaces there are.
Surfaced == row.surface \in Surfaces \cup {"panel"}

\* What is on record of a poll that may be decided, and what one who decides knows.
Record == /\ DecidedOnce
          /\ row.status = Absent => row = NoPoll /\ decisions = <<>>
          /\ row.status = "pending_review" => decisions = <<>> /\ row.held
          /\ row.status = "denied" => decisions = <<"deny">> /\ row.held
          /\ \A p \in Procs : Deciding(p) =>
                /\ row.held
                /\ decisions = <<>> \/ (op[p] = "approve" /\ decisions = <<"deny">>)

\* A task that is about to post.
Approval == \E i \in DOMAIN decisions : decisions[i] = "approve"
Posts(p) == pc[p] = "post" \/ (pc[p] = "release" /\ op[p] = "approve")
Poster == /\ row.status \in Undecided \/ (\E p \in Procs : Deciding(p))
                => sent = 0 /\ \A p \in Procs : ~Posts(p)
          /\ \A p, q \in Procs : Posts(p) /\ Posts(q) => p = q
          /\ \A p \in Procs : Posts(p) => sent = 0 /\ (row.held => Approval)
          /\ sent <= 1 /\ (sent > 0 /\ row.held => Approval)

Reminder == /\ lastCalls <= 1 /\ (lastCalls = 1 => row.reminded)
            /\ pc[Loop] \in {"lastCall", "unclaim"} => lastCalls = 0
            /\ pc[Loop] = "lastCall" => row.reminded

\* While there has been one lock object only, a voter has one answer, and none
\* between the two statements.
Sole(v) == \A x, y \in AnswerOf(v) : x = y
Answered == gen = 0 /\ crashes = 0 =>
                /\ \A v \in Voters : Sole(v)
                /\ \A p \in Procs : pc[p] = "insert" => AnswerOf(answer[p][1]) = {}

-------------------------------------------------------------------------------
(* Types.                                                                      *)

\* TypeOK in its parts.
LEMMA TypeOKParts == TypeOK <=> TasksTyped /\ StoreTyped /\ RestTyped
  BY DEF TypeOK, TasksTyped, StoreTyped, RestTyped, Results

LEMMA Names == Loop \in Procs /\ Loop \notin Tasks /\ NoAnswer \in Answers
  BY PollsAssumption DEF Procs, Answers

\* What the statements make of the row.
LEMMA Written ==
    ASSUME row \in Rows
    PROVE  /\ \A s \in Statuses : [row EXCEPT !.status = s] \in Rows
           /\ \A m \in Nat : [row EXCEPT !.message = m] \in Rows
           /\ \A b \in BOOLEAN : [row EXCEPT !.reminded = b] \in Rows
  BY DEF Rows

\* A task that goes on keeps its types,
LEMMA GoTyped ==
    ASSUME TasksTyped, NEW p \in Procs, NEW label \in Labels, Goto(p, label),
           UNCHANGED <<op, lock, seen, answer, tally, stamp>>
    PROVE  TasksTyped'
  BY DEF TasksTyped, Goto

\* and so does one that is over, or waits for the lock.
LEMMA FinishTyped == ASSUME TasksTyped, NEW p \in Procs, Finish(p) PROVE TasksTyped'
  BY Names DEF TasksTyped, Finish, Labels

LEMMA QueueTyped ==
    ASSUME TasksTyped, RestTyped, NEW p \in Procs, NEW o \in AllOperations, Queue(p, o),
           UNCHANGED <<seen, answer, tally, stamp>>
    PROVE  TasksTyped'
  BY DEF TasksTyped, RestTyped, Queue, Labels

\* Everything is of its type to begin with,
LEMMA TypeOKInit == Init => TypeOK
<1> SUFFICES ASSUME Init PROVE TypeOK
  OBVIOUS
<1>1. TasksTyped
  BY Names DEF Init, TasksTyped, Labels
<1>2. StoreTyped
  BY DEF Init, StoreTyped, NoPoll, Rows, NoResults, Results
<1>3. RestTyped
  BY DEF Init, RestTyped
<1> QED
  BY <1>1, <1>2, <1>3, TypeOKParts

\* and stays so.
LEMMA TypeOKStep == TypeOK /\ Paths /\ [Next]_vars => TypeOK'
<1> SUFFICES ASSUME TasksTyped, StoreTyped, RestTyped, Paths, [Next]_vars
             PROVE  TasksTyped' /\ StoreTyped' /\ RestTyped'
  BY TypeOKParts DEF TypeOK, TasksTyped, StoreTyped, RestTyped, Results
<1>1. ASSUME NEW p \in Procs, NEW o \in Operations, Press(p, o)
      PROVE  TasksTyped' /\ StoreTyped' /\ RestTyped'
  <2>1. TasksTyped'
    BY <1>1, QueueTyped, Names, PollsAssumption DEF Press, AllOperations
  <2>2. StoreTyped'
    BY <1>1 DEF Press, StoreTyped
  <2>3. RestTyped'
    BY <1>1 DEF Press, RestTyped, outside
  <2> QED
    BY <2>1, <2>2, <2>3
<1>2. ASSUME NEW p \in Procs, Create(p)
      PROVE  TasksTyped' /\ StoreTyped' /\ RestTyped'
  <2>1. TasksTyped'
    BY <1>2, Names DEF Create, TasksTyped, StoreTyped, RestTyped, Rows, Labels, AllOperations
  <2>2. StoreTyped'
    <3>1. PICK surface \in Surfaces, held \in BOOLEAN :
              row' = [NoPoll EXCEPT !.surface = surface, !.held = held,
                                    !.status = IF held THEN "pending_review" ELSE "open"]
      BY <1>2 DEF Create
    <3>2. (IF held THEN "pending_review" ELSE "open") \in Statuses /\ surface \in {"panel", "native"}
      BY PollsAssumption DEF Statuses
    <3>3. row' \in Rows
      BY <3>1, <3>2 DEF NoPoll, Rows
    <3> QED
      BY <1>2, <3>3 DEF Create, StoreTyped
  <2>3. RestTyped'
    BY <1>2 DEF Create, RestTyped, outside
  <2> QED
    BY <2>1, <2>2, <2>3
<1>3. ASSUME NEW p \in Procs, PressVote(p)
      PROVE  TasksTyped' /\ StoreTyped' /\ RestTyped'
  <2>1. TasksTyped'
    BY <1>3, Names
       DEF PressVote, Goto, TasksTyped, StoreTyped, RestTyped, Rows, Labels, AllOperations, Answers
  <2>2. StoreTyped'
    BY <1>3 DEF PressVote, StoreTyped
  <2>3. RestTyped'
    BY <1>3 DEF PressVote, RestTyped, outside
  <2> QED
    BY <2>1, <2>2, <2>3
<1>4. ASSUME NEW p \in Procs, SendCard(p)
      PROVE  TasksTyped' /\ StoreTyped' /\ RestTyped'
  <2>1. TasksTyped'
    BY <1>4, FinishTyped DEF SendCard
  <2>2. StoreTyped'
    BY <1>4 DEF SendCard, StoreTyped
  <2>3. RestTyped'
    BY <1>4 DEF SendCard, RestTyped, outside
  <2> QED
    BY <2>1, <2>2, <2>3
<1>5. ASSUME NEW p \in Procs, CancelUnreviewed(p)
      PROVE  TasksTyped' /\ StoreTyped' /\ RestTyped'
  <2>1. TasksTyped'
    BY <1>5, FinishTyped DEF CancelUnreviewed
  <2>2. StoreTyped'
    BY <1>5, Written DEF CancelUnreviewed, StoreTyped, Statuses
  <2>3. RestTyped'
    BY <1>5 DEF CancelUnreviewed, RestTyped, outside
  <2> QED
    BY <2>1, <2>2, <2>3
<1>6. ASSUME NEW p \in Procs, Send(p)
      PROVE  TasksTyped' /\ StoreTyped' /\ RestTyped'
  <2>1. TasksTyped'
    BY <1>6, GoTyped DEF Send, Labels
  <2>2. StoreTyped'
    BY <1>6 DEF Send, StoreTyped
  <2>3. RestTyped'
    BY <1>6 DEF Send, RestTyped
  <2> QED
    BY <2>1, <2>2, <2>3
<1>7. ASSUME NEW p \in Procs, SendRefused(p)
      PROVE  TasksTyped' /\ StoreTyped' /\ RestTyped'
  <2>1. TasksTyped'
    BY <1>7, GoTyped DEF SendRefused, Labels
  <2>2. StoreTyped'
    BY <1>7 DEF SendRefused, StoreTyped
  <2>3. RestTyped'
    BY <1>7 DEF SendRefused, RestTyped, outside
  <2> QED
    BY <2>1, <2>2, <2>3
<1>8. ASSUME NEW p \in Procs, SetPosted(p)
      PROVE  TasksTyped' /\ StoreTyped' /\ RestTyped'
  <2>1. TasksTyped'
    BY <1>8, GoTyped DEF SetPosted, Labels
  <2>2. StoreTyped'
    BY <1>8, Written DEF SetPosted, StoreTyped, RestTyped
  <2>3. RestTyped'
    BY <1>8 DEF SetPosted, RestTyped, outside
  <2> QED
    BY <2>1, <2>2, <2>3
<1>9. ASSUME NEW p \in Procs, SetOpen(p)
      PROVE  TasksTyped' /\ StoreTyped' /\ RestTyped'
  <2>1. TasksTyped'
    BY <1>9, FinishTyped DEF SetOpen
  <2>2. StoreTyped'
    BY <1>9, Written DEF SetOpen, StoreTyped, Statuses
  <2>3. RestTyped'
    BY <1>9 DEF SetOpen, RestTyped, outside
  <2> QED
    BY <2>1, <2>2, <2>3
<1>10. ASSUME NEW p \in Procs, CancelUnposted(p)
      PROVE  TasksTyped' /\ StoreTyped' /\ RestTyped'
  <2>1. TasksTyped'
    BY <1>10, FinishTyped DEF CancelUnposted
  <2>2. StoreTyped'
    BY <1>10, Written DEF CancelUnposted, StoreTyped, Statuses
  <2>3. RestTyped'
    BY <1>10 DEF CancelUnposted, RestTyped, outside
  <2> QED
    BY <2>1, <2>2, <2>3
<1>11. ASSUME NEW p \in Procs, SetStatus(p)
      PROVE  TasksTyped' /\ StoreTyped' /\ RestTyped'
  <2>1. TasksTyped'
    BY <1>11, GoTyped DEF SetStatus, Labels
  <2>2. StoreTyped'
    BY <1>11, Written DEF SetStatus, StoreTyped, Wanted, Statuses
  <2>3. RestTyped'
    <3>1. decisions' \in Seq({"approve", "deny"})
      <4>1. CASE op[p] \in {"approve", "deny"}
        BY <4>1, <1>11 DEF SetStatus, RestTyped
      <4>2. CASE op[p] \notin {"approve", "deny"}
        BY <4>2, <1>11 DEF SetStatus, RestTyped
      <4> QED
        BY <4>1, <4>2
    <3> QED
      BY <1>11, <3>1 DEF SetStatus, RestTyped, outside
  <2> QED
    BY <2>1, <2>2, <2>3
<1>12. ASSUME NEW p \in Procs, Approved(p)
      PROVE  TasksTyped' /\ StoreTyped' /\ RestTyped'
  <2>1. TasksTyped'
    BY <1>12, Names DEF Approved, TasksTyped, StoreTyped, RestTyped, Rows, Labels, AllOperations
  <2>2. StoreTyped'
    BY <1>12 DEF Approved, StoreTyped
  <2>3. RestTyped'
    BY <1>12 DEF Approved, RestTyped, outside
  <2> QED
    BY <2>1, <2>2, <2>3
<1>13. ASSUME NEW p \in Procs, Denied(p)
      PROVE  TasksTyped' /\ StoreTyped' /\ RestTyped'
  <2>1. TasksTyped'
    BY <1>13, FinishTyped DEF Denied
  <2>2. StoreTyped'
    BY <1>13 DEF Denied, StoreTyped
  <2>3. RestTyped'
    BY <1>13 DEF Denied, RestTyped, outside
  <2> QED
    BY <2>1, <2>2, <2>3
<1>14. ASSUME NEW p \in Procs, DropLock(p)
      PROVE  TasksTyped' /\ StoreTyped' /\ RestTyped'
  <2>1. TasksTyped'
    BY <1>14, FinishTyped, GoTyped DEF DropLock, AfterDrop, Labels
  <2>2. StoreTyped'
    BY <1>14 DEF DropLock, StoreTyped
  <2>3. RestTyped'
    BY <1>14 DEF DropLock, RestTyped, outside
  <2> QED
    BY <2>1, <2>2, <2>3
<1>15. ASSUME NEW p \in Procs, SaveResults(p)
      PROVE  TasksTyped' /\ StoreTyped' /\ RestTyped'
  <2>1. TasksTyped'
    <3>1. CASE row.surface = "panel"
      BY <1>15, <3>1 DEF SaveResults, Goto, TasksTyped, Labels
    <3>2. CASE row.surface # "panel"
      BY <1>15, <3>2, FinishTyped DEF SaveResults
    <3> QED
      BY <3>1, <3>2
  <2>2. StoreTyped'
    BY <1>15 DEF SaveResults, StoreTyped, Results, TasksTyped
  <2>3. RestTyped'
    BY <1>15 DEF SaveResults, RestTyped, outside
  <2> QED
    BY <2>1, <2>2, <2>3
<1>16. ASSUME NEW p \in Procs, EndVote(p)
      PROVE  TasksTyped' /\ StoreTyped' /\ RestTyped'
  <2>1. TasksTyped'
    BY <1>16, FinishTyped, GoTyped DEF EndVote, AfterEnd, Labels
  <2>2. StoreTyped'
    BY <1>16 DEF EndVote, StoreTyped
  <2>3. RestTyped'
    BY <1>16 DEF EndVote, RestTyped
  <2> QED
    BY <2>1, <2>2, <2>3
<1>17. ASSUME NEW p \in Procs, EndRefused(p)
      PROVE  TasksTyped' /\ StoreTyped' /\ RestTyped'
  <2>1. TasksTyped'
    BY <1>17, FinishTyped, GoTyped DEF EndRefused, AfterEnd, Labels
  <2>2. StoreTyped'
    BY <1>17 DEF EndRefused, StoreTyped
  <2>3. RestTyped'
    BY <1>17 DEF EndRefused, RestTyped, outside
  <2> QED
    BY <2>1, <2>2, <2>3
<1>18. ASSUME NEW p \in Procs, CastVote(p)
      PROVE  TasksTyped' /\ StoreTyped' /\ RestTyped'
  <2>1. TasksTyped'
    BY <1>18, QueueTyped DEF CastVote, AllOperations
  <2>2. StoreTyped'
    BY <1>18 DEF CastVote, StoreTyped
  <2>3. RestTyped'
    BY <1>18 DEF CastVote, RestTyped, outside
  <2> QED
    BY <2>1, <2>2, <2>3
<1>19. ASSUME NEW p \in Procs, DeleteVotes(p)
      PROVE  TasksTyped' /\ StoreTyped' /\ RestTyped'
  <2>1. TasksTyped'
    BY <1>19, Names
       DEF DeleteVotes, Goto, TasksTyped, StoreTyped, RestTyped, Rows, Labels, AllOperations
  <2>2. StoreTyped'
    <3>1. answer[p][1] \in Voters
      BY <1>19 DEF DeleteVotes, Paths, Way
    <3> QED
      BY <1>19, <3>1 DEF DeleteVotes, StoreTyped
  <2>3. RestTyped'
    BY <1>19 DEF DeleteVotes, RestTyped, outside
  <2> QED
    BY <2>1, <2>2, <2>3
<1>20. ASSUME NEW p \in Procs, InsertVotes(p)
      PROVE  TasksTyped' /\ StoreTyped' /\ RestTyped'
  <2>1. TasksTyped'
    BY <1>20, Names
       DEF InsertVotes, Goto, TasksTyped, StoreTyped, RestTyped, Rows, Labels, AllOperations
  <2>2. StoreTyped'
    BY <1>20 DEF InsertVotes, StoreTyped, Paths, Way, Choices
  <2>3. RestTyped'
    BY <1>20 DEF InsertVotes, RestTyped, outside
  <2> QED
    BY <2>1, <2>2, <2>3
<1>21. ASSUME NEW p \in Procs, Repaint(p)
      PROVE  TasksTyped' /\ StoreTyped' /\ RestTyped'
  <2>1. TasksTyped'
    BY <1>21, FinishTyped DEF Repaint
  <2>2. StoreTyped'
    BY <1>21 DEF Repaint, StoreTyped
  <2>3. RestTyped'
    BY <1>21 DEF Repaint, RestTyped
  <2> QED
    BY <2>1, <2>2, <2>3
<1>22. ASSUME NEW p \in Procs, Reread(p)
      PROVE  TasksTyped' /\ StoreTyped' /\ RestTyped'
  <2>1. TasksTyped'
    BY <1>22, Names DEF Reread, Goto, TasksTyped, StoreTyped, RestTyped, Rows, Labels, AllOperations
  <2>2. StoreTyped'
    BY <1>22 DEF Reread, StoreTyped
  <2>3. RestTyped'
    BY <1>22 DEF Reread, RestTyped, outside
  <2> QED
    BY <2>1, <2>2, <2>3
<1>23. ASSUME NEW p \in Procs, TooLate(p)
      PROVE  TasksTyped' /\ StoreTyped' /\ RestTyped'
  <2>1. TasksTyped'
    BY <1>23, FinishTyped DEF TooLate
  <2>2. StoreTyped'
    BY <1>23 DEF TooLate, StoreTyped
  <2>3. RestTyped'
    BY <1>23 DEF TooLate, RestTyped, outside
  <2> QED
    BY <2>1, <2>2, <2>3
<1>24. ASSUME NEW p \in Procs, LockVote(p)
      PROVE  TasksTyped' /\ StoreTyped' /\ RestTyped'
  <2>1. TasksTyped'
    BY <1>24, GoTyped DEF LockVote, Labels
  <2>2. StoreTyped'
    BY <1>24 DEF LockVote, StoreTyped
  <2>3. RestTyped'
    BY <1>24 DEF LockVote, RestTyped, outside
  <2> QED
    BY <2>1, <2>2, <2>3
<1>25. ASSUME BeginPass
      PROVE  TasksTyped' /\ StoreTyped' /\ RestTyped'
  <2>1. TasksTyped'
    BY <1>25, Names
       DEF BeginPass, Goto, TasksTyped, StoreTyped, RestTyped, Rows, Labels, AllOperations
  <2>2. StoreTyped'
    BY <1>25 DEF BeginPass, StoreTyped
  <2>3. RestTyped'
    BY <1>25 DEF BeginPass, RestTyped, outside
  <2> QED
    BY <2>1, <2>2, <2>3
<1>26. ASSUME RemindersDue
      PROVE  TasksTyped' /\ StoreTyped' /\ RestTyped'
  <2>1. TasksTyped'
    BY <1>26, Names, GoTyped DEF RemindersDue, LoopGoto, Labels
  <2>2. StoreTyped'
    BY <1>26 DEF RemindersDue, StoreTyped, LoopGoto
  <2>3. RestTyped'
    BY <1>26 DEF RemindersDue, RestTyped, LoopGoto
  <2> QED
    BY <2>1, <2>2, <2>3
<1>27. ASSUME ClaimReminder
      PROVE  TasksTyped' /\ StoreTyped' /\ RestTyped'
  <2>1. TasksTyped'
    BY <1>27, Names, GoTyped DEF ClaimReminder, LoopGoto, Labels
  <2>2. StoreTyped'
    BY <1>27, Written DEF ClaimReminder, StoreTyped, LoopGoto
  <2>3. RestTyped'
    BY <1>27 DEF ClaimReminder, RestTyped, LoopGoto
  <2> QED
    BY <2>1, <2>2, <2>3
<1>28. ASSUME LastCall
      PROVE  TasksTyped' /\ StoreTyped' /\ RestTyped'
  <2>1. TasksTyped'
    BY <1>28, Names, GoTyped DEF LastCall, LoopGoto, Labels
  <2>2. StoreTyped'
    BY <1>28 DEF LastCall, StoreTyped, LoopGoto
  <2>3. RestTyped'
    BY <1>28 DEF LastCall, RestTyped, LoopGoto
  <2> QED
    BY <2>1, <2>2, <2>3
<1>29. ASSUME LastCallRefused
      PROVE  TasksTyped' /\ StoreTyped' /\ RestTyped'
  <2>1. TasksTyped'
    BY <1>29, Names, GoTyped DEF LastCallRefused, LoopGoto, Labels
  <2>2. StoreTyped'
    BY <1>29 DEF LastCallRefused, StoreTyped, LoopGoto
  <2>3. RestTyped'
    BY <1>29 DEF LastCallRefused, RestTyped, LoopGoto
  <2> QED
    BY <2>1, <2>2, <2>3
<1>30. ASSUME ClearReminder
      PROVE  TasksTyped' /\ StoreTyped' /\ RestTyped'
  <2>1. TasksTyped'
    BY <1>30, Names, GoTyped DEF ClearReminder, LoopGoto, Labels
  <2>2. StoreTyped'
    BY <1>30, Written DEF ClearReminder, StoreTyped, LoopGoto
  <2>3. RestTyped'
    BY <1>30 DEF ClearReminder, RestTyped, LoopGoto
  <2> QED
    BY <2>1, <2>2, <2>3
<1>31. ASSUME CloseDue
      PROVE  TasksTyped' /\ StoreTyped' /\ RestTyped'
  <2>1. TasksTyped'
    BY <1>31, QueueTyped, Names, PollsAssumption DEF CloseDue, AllOperations
  <2>2. StoreTyped'
    BY <1>31 DEF CloseDue, StoreTyped
  <2>3. RestTyped'
    BY <1>31 DEF CloseDue, RestTyped, outside
  <2> QED
    BY <2>1, <2>2, <2>3
<1>32. ASSUME NothingDue
      PROVE  TasksTyped' /\ StoreTyped' /\ RestTyped'
  <2>1. TasksTyped'
    BY <1>32, Names, FinishTyped DEF NothingDue
  <2>2. StoreTyped'
    BY <1>32 DEF NothingDue, StoreTyped
  <2>3. RestTyped'
    BY <1>32 DEF NothingDue, RestTyped, outside
  <2> QED
    BY <2>1, <2>2, <2>3
<1>33. ASSUME Archive
      PROVE  TasksTyped' /\ StoreTyped' /\ RestTyped'
  <2>1. TasksTyped'
    BY <1>33 DEF Archive, taskVars, TasksTyped, RestTyped
  <2>2. StoreTyped'
    BY <1>33, Written DEF Archive, StoreTyped, Statuses
  <2>3. RestTyped'
    BY <1>33 DEF Archive, RestTyped, outside, taskVars
  <2> QED
    BY <2>1, <2>2, <2>3
<1>34. ASSUME Tick
      PROVE  TasksTyped' /\ StoreTyped' /\ RestTyped'
  <2>1. TasksTyped'
    BY <1>34 DEF Tick, taskVars, TasksTyped, RestTyped
  <2>2. StoreTyped'
    BY <1>34 DEF Tick, StoreTyped
  <2>3. RestTyped'
    BY <1>34 DEF Tick, RestTyped, outside, taskVars
  <2> QED
    BY <2>1, <2>2, <2>3
<1>35. ASSUME Crash
      PROVE  TasksTyped' /\ StoreTyped' /\ RestTyped'
  <2>1. TasksTyped'
    BY <1>35, Names DEF Crash, TasksTyped, Labels
  <2>2. StoreTyped'
    BY <1>35 DEF Crash, StoreTyped
  <2>3. RestTyped'
    BY <1>35 DEF Crash, RestTyped, outside
  <2> QED
    BY <2>1, <2>2, <2>3
<1>37. ASSUME NEW p \in Procs, CountPanel(p)
      PROVE  TasksTyped' /\ StoreTyped' /\ RestTyped'
  <2>1. TasksTyped'
    BY <1>37 DEF CountPanel, Goto, TasksTyped, StoreTyped, Labels
  <2>2. StoreTyped'
    BY <1>37 DEF CountPanel, StoreTyped
  <2>3. RestTyped'
    BY <1>37 DEF CountPanel, RestTyped, outside
  <2> QED
    BY <2>1, <2>2, <2>3
<1>38. ASSUME NEW p \in Procs, FetchMessage(p)
      PROVE  TasksTyped' /\ StoreTyped' /\ RestTyped'
  <2>1. TasksTyped'
    BY <1>38, GoTyped DEF FetchMessage, Labels
  <2>2. StoreTyped'
    BY <1>38 DEF FetchMessage, StoreTyped
  <2>3. RestTyped'
    BY <1>38 DEF FetchMessage, RestTyped, outside
  <2> QED
    BY <2>1, <2>2, <2>3
<1>39. ASSUME NEW p \in Procs, NoMessage(p)
      PROVE  TasksTyped' /\ StoreTyped' /\ RestTyped'
  <2>1. TasksTyped'
    BY <1>39, FinishTyped DEF NoMessage
  <2>2. StoreTyped'
    BY <1>39 DEF NoMessage, StoreTyped, Results
  <2>3. RestTyped'
    BY <1>39 DEF NoMessage, RestTyped, outside
  <2> QED
    BY <2>1, <2>2, <2>3
<1>36. CASE UNCHANGED vars
  BY <1>36 DEF vars, TasksTyped, StoreTyped, RestTyped
<1> QED
  BY <1>1, <1>2, <1>3, <1>4, <1>5, <1>6, <1>7, <1>8, <1>9, <1>10, <1>11, <1>12, <1>13, <1>14,
     <1>15, <1>16, <1>17, <1>18, <1>19, <1>20, <1>21, <1>22, <1>23, <1>24, <1>25, <1>26, <1>27,
     <1>28, <1>29, <1>30, <1>31, <1>32, <1>33, <1>34, <1>35, <1>36, <1>37, <1>38, <1>39
     DEF Next, Start, Proceed, Enter, Pass

-------------------------------------------------------------------------------
(* The lock, and what is on record.                                            *)

Kept(q) == /\ pc'[q] = pc[q] /\ op'[q] = op[q] /\ lock'[q] = lock[q]
           /\ answer'[q] = answer[q]

\* The inductive invariant: the tasks' ways and locks, and what they rest on.
Locks == Paths /\ Numbered /\ Excluded
Story == /\ FirstLock /\ Begun /\ Surfaced /\ Record /\ Poster
         /\ Reminder /\ Answered
Safe  == TypeOK /\ Locks /\ Story

\* Where a poll may go from, for each move.
LEMMA Moves == \A s :
    /\ CanTransition(s, "open") => s \in {"pending_review", "denied"}
    /\ CanTransition(s, "denied") => s = "pending_review"
    /\ CanTransition(s, "closed") => s = "open"
    /\ CanTransition(s, "cancelled") => s \in {"pending_review", "open"}
    /\ CanTransition(s, "archived") => s \in {"closed", "cancelled"}
<1> SUFFICES ASSUME NEW s \in Statuses
             PROVE  /\ "open" \in Transitions[s] => s \in {"pending_review", "denied"}
                    /\ "denied" \in Transitions[s] => s = "pending_review"
                    /\ "closed" \in Transitions[s] => s = "open"
                    /\ "cancelled" \in Transitions[s] => s \in {"pending_review", "open"}
                    /\ "archived" \in Transitions[s] => s \in {"closed", "cancelled"}
  BY DEF CanTransition
<1>1. /\ Transitions["pending_review"] = {"open", "denied", "cancelled"}
      /\ Transitions["open"] = {"closed", "cancelled"} /\ Transitions["closed"] = {"archived"}
      /\ Transitions["cancelled"] = {"archived"} /\ Transitions["denied"] = {"open"}
      /\ Transitions["archived"] = {}
  BY DEF Transitions
<1> QED
  BY <1>1 DEF Statuses

\* A denied poll that is approved after all.
LEMMA AfterAll ==
    ASSUME NEW s \in Seq({"approve", "deny"}), s = <<"deny">>
    PROVE  Append(s, "approve") = <<"deny", "approve">>
<1>1. Append(s, "approve") \in Seq({"approve", "deny"})
  OBVIOUS
<1>2. /\ Len(Append(s, "approve")) = 2
      /\ Append(s, "approve")[1] = "deny" /\ Append(s, "approve")[2] = "approve"
  OBVIOUS
<1>3. \A t \in Seq({"approve", "deny"}) :
         Len(t) = 2 /\ t[1] = "deny" /\ t[2] = "approve" => t = <<"deny", "approve">>
  OBVIOUS
<1> QED
  BY <1>1, <1>2, <1>3

\* One task's step under the locks: it holds one it held, or one that was free.
LEMMA Others ==
    ASSUME TasksTyped, gen \in Nat, Locks, NEW p \in Procs, gen' \in {gen, gen + 1},
           \A q \in Procs : q # p => Kept(q),
           Way(p)', lock'[p] \in Nat, lock'[p] <= gen',
           Holds(p)' => lock'[p] = lock[p] /\ (Holds(p) \/ Free(p))
    PROVE  Locks'
<1>1. Paths'
  BY DEF Locks, Paths, Way, Kept
<1>2. Numbered'
  BY DEF Locks, Numbered, Kept, TasksTyped
<1>3. \A q \in Procs : q # p => (Holds(q)' <=> Holds(q)) /\ lock'[q] = lock[q]
  BY DEF Holds, Kept
<1>4. \A q \in Procs : q # p /\ Holds(p)' /\ Holds(q) => lock[q] # lock[p]
  BY DEF Locks, Excluded, Free
<1>5. Excluded'
  BY <1>3, <1>4 DEF Locks, Excluded
<1> QED
  BY <1>1, <1>2, <1>5 DEF Locks

\* A task that is over has no lock and no business.
LEMMA Over ==
    ASSUME TasksTyped, gen \in Nat, NEW p \in Procs, Finish(p)
    PROVE  /\ pc'[p] = "idle" /\ op'[p] = "none" /\ lock'[p] = 0 /\ lock'[p] <= gen
           /\ Way(p)' /\ ~Holds(p)' /\ ~Deciding(p)' /\ ~Posts(p)'
<1>1. pc'[p] = "idle" /\ op'[p] = "none" /\ lock'[p] = 0
  BY DEF TasksTyped, Finish
<1> QED
  BY <1>1 DEF Way, Holds, Deciding, Posts

\* A step that neither writes the row, nor posts, nor decides, changes nothing of the story.
LEMMA Plain ==
    ASSUME Story, NEW p \in Procs, \A q \in Procs : q # p => Kept(q),
           UNCHANGED <<row, votes, gen, sent, lastCalls, decisions, crashes>>,
           ~Deciding(p)', Posts(p)' => Posts(p),
           pc'[p] \notin {"drop", "insert", "lastCall", "unclaim"},
           row.status = Absent => pc'[p] \in {"idle", "reminders", "due"}
    PROVE  Story'
<1>1. \A q \in Procs : /\ Deciding(q)' => Deciding(q)
                       /\ Posts(q)' => Posts(q)
                       /\ \A label \in {"drop", "insert", "lastCall", "unclaim"} :
                            pc'[q] = label => q # p /\ pc[q] = label
  BY DEF Deciding, Posts, Kept
<1>2. FirstLock' /\ Begun' /\ Surfaced'
  BY <1>1 DEF Story, FirstLock, Begun, Surfaced, Kept
<1>3. Record'
  <2>1. \A q \in Procs : Deciding(q)' => op'[q] = op[q]
    BY DEF Deciding, Kept
  <2> QED
    BY <1>1, <2>1 DEF Story, Record, DecidedOnce
<1>4. Poster'
  <2>1. Approval' <=> Approval
    BY DEF Approval
  <2> QED
    BY <1>1, <2>1 DEF Story, Poster
<1>5. Reminder'
  BY <1>1, Names DEF Story, Reminder
<1>6. Answered'
  BY <1>1 DEF Story, Answered, Sole, AnswerOf, Kept
<1> QED
  BY <1>2, <1>3, <1>4, <1>5, <1>6 DEF Story

\* Nor does a step of the clock, or of nobody.
LEMMA Same ==
    ASSUME Locks, Story,
           UNCHANGED <<row, votes, pc, op, lock, gen, answer,
                       sent, lastCalls, decisions, crashes>>
    PROVE  Locks' /\ Story'
<1>1. Locks'
  BY DEF Locks, Paths, Way, Numbered, Excluded, Holds
<1>2. /\ Approval' <=> Approval
      /\ \A q : (Deciding(q)' <=> Deciding(q)) /\ (Posts(q)' <=> Posts(q))
  BY DEF Approval, Deciding, Posts
<1>3. Story'
  BY <1>2 DEF Story, FirstLock, Begun, Surfaced, Record, DecidedOnce, Poster, Reminder, Answered,
              Sole, AnswerOf
<1> QED
  BY <1>1, <1>3

\* All this is so to begin with,
LEMMA SafeInit == Init => Safe
<1> SUFFICES ASSUME Init PROVE Locks /\ Story
  BY TypeOKInit DEF Safe
<1>1. Locks
  BY DEF Init, Locks, Paths, Way, Numbered, Excluded, Holds
<1>2. Story
  BY Names DEF Init, Story, FirstLock, Begun, Surfaced, Record, DecidedOnce, Poster, Reminder,
         Answered, Deciding, Posts, Sole, AnswerOf, NoPoll, Undecided, Absent
<1> QED
  BY <1>1, <1>2

\* and no step ends it.
LEMMA SafeStep == Safe /\ [Next]_vars => Safe'
<1> SUFFICES ASSUME TasksTyped, StoreTyped, RestTyped, Locks, Story, [Next]_vars
             PROVE  Locks' /\ Story'
  BY TypeOKParts, TypeOKStep DEF Safe, Locks
<1>1. ASSUME NEW p \in Procs, NEW o \in Operations, Press(p, o) PROVE Locks' /\ Story'
  <2>1. \A q \in Procs : q # p => Kept(q)
    BY <1>1 DEF Press, Queue, Kept, TasksTyped
  <2>2. Way(p)'
    BY <1>1, PollsAssumption DEF Press, Queue, Locks, Paths, Way, TasksTyped
  <2>3. /\ lock'[p] \in Nat /\ lock'[p] <= gen' /\ gen' \in {gen, gen + 1}
        /\ Holds(p)' => lock'[p] = lock[p] /\ (Holds(p) \/ Free(p))
    BY <1>1 DEF Press, Queue, Locks, Numbered, Paths, Way, Holds, TasksTyped, RestTyped
  <2>4. Locks'
    BY <2>1, <2>2, <2>3, Others DEF RestTyped
  <2>5. /\ ~Deciding(p)' /\ (Posts(p)' => Posts(p))
        /\ pc'[p] \notin {"drop", "insert", "lastCall", "unclaim"}
        /\ row.status = Absent => pc'[p] \in {"idle", "reminders", "due"}
    BY <1>1 DEF Press, Queue, Deciding, Posts, Story, Begun, Absent, TasksTyped
  <2> QED
    BY <1>1, <2>1, <2>4, <2>5, Plain DEF Press, outside
<1>2. ASSUME NEW p \in Procs, Create(p) PROVE Locks' /\ Story'
  <2>1. \A q \in Procs : q # p => Kept(q)
    BY <1>2 DEF Create, Kept, TasksTyped
  <2>2. Way(p)'
    BY <1>2 DEF Create, Locks, Paths, Way, TasksTyped
  <2>3. /\ lock'[p] \in Nat /\ lock'[p] <= gen' /\ gen' \in {gen, gen + 1}
        /\ Holds(p)' => lock'[p] = lock[p] /\ (Holds(p) \/ Free(p))
    BY <1>2 DEF Create, Locks, Numbered, Paths, Way, Holds, TasksTyped, RestTyped
  <2>4. Locks'
    BY <2>1, <2>2, <2>3, Others DEF RestTyped
  <2>5. row.status = Absent /\ UNCHANGED <<votes, gen, sent, lastCalls, decisions, crashes>>
    BY <1>2 DEF Create, outside
  <2>6. /\ row = NoPoll /\ decisions = <<>> /\ gen = 0 /\ sent = 0
        /\ \A q \in Procs : pc[q] \in {"idle", "reminders", "due"}
    BY <2>5 DEF Story, Record, FirstLock, Begun, Poster, Undecided
  <2>7. PICK surface \in Surfaces, held \in BOOLEAN :
          /\ row' = [NoPoll EXCEPT !.surface = surface, !.held = held,
                                   !.status = IF held THEN "pending_review" ELSE "open"]
          /\ pc'[p] = IF held THEN "card" ELSE "post"
    BY <1>2 DEF Create, TasksTyped
  <2>8. /\ row'.surface = surface /\ row'.held = held /\ row'.reminded = FALSE
        /\ row'.status = IF held THEN "pending_review" ELSE "open"
    BY <2>7 DEF NoPoll
  <2>9. \A q \in Procs : ~Deciding(q)' /\ pc'[q] \notin {"drop", "insert"} /\ (Posts(q)' => q = p)
    BY <2>1, <2>6, <2>7 DEF Deciding, Posts, Kept
  <2>10. Posts(p)' => ~held
    BY <2>7, <1>2 DEF Posts, Create, TasksTyped
  <2>11. lastCalls = 0 /\ pc'[Loop] \in {"idle", "reminders", "due"}
    <3>1. p # Loop
      BY <1>2, Names DEF Create
    <3> QED
      BY <3>1, <2>1, <2>6, Names DEF Kept, Story, Reminder, NoPoll, RestTyped
  <2>12. FirstLock' /\ Begun' /\ Surfaced'
    BY <2>5, <2>6, <2>8, <2>9 DEF FirstLock, Begun, Surfaced, Absent
  <2>13. Record'
    BY <2>5, <2>6, <2>8, <2>9 DEF Record, DecidedOnce, Absent
  <2>14. Poster'
    BY <2>5, <2>6, <2>8, <2>9, <2>10 DEF Poster, Undecided, Absent
  <2>15. Reminder'
    BY <2>5, <2>8, <2>11 DEF Reminder
  <2>16. Answered'
    BY <2>5, <2>9 DEF Story, Answered, Sole, AnswerOf
  <2> QED
    BY <2>4, <2>12, <2>13, <2>14, <2>15, <2>16 DEF Story
<1>3. ASSUME NEW p \in Procs, PressVote(p) PROVE Locks' /\ Story'
  <2>1. \A q \in Procs : q # p => Kept(q)
    BY <1>3 DEF PressVote, Goto, Kept, TasksTyped
  <2>2. Way(p)'
    BY <1>3 DEF PressVote, Goto, Locks, Paths, Way, TasksTyped
  <2>3. /\ lock'[p] \in Nat /\ lock'[p] <= gen' /\ gen' \in {gen, gen + 1}
        /\ Holds(p)' => lock'[p] = lock[p] /\ (Holds(p) \/ Free(p))
    BY <1>3 DEF PressVote, Goto, Locks, Numbered, Paths, Way, Holds, TasksTyped, RestTyped
  <2>4. Locks'
    BY <2>1, <2>2, <2>3, Others DEF RestTyped
  <2>5. /\ ~Deciding(p)' /\ (Posts(p)' => Posts(p))
        /\ pc'[p] \notin {"drop", "insert", "lastCall", "unclaim"}
        /\ row.status = Absent => pc'[p] \in {"idle", "reminders", "due"}
    BY <1>3 DEF PressVote, Goto, Deciding, Posts, Story, Begun, Absent, TasksTyped
  <2> QED
    BY <1>3, <2>1, <2>4, <2>5, Plain DEF PressVote, outside
<1>4. ASSUME NEW p \in Procs, SendCard(p) PROVE Locks' /\ Story'
  <2>1. \A q \in Procs : q # p => Kept(q)
    BY <1>4 DEF SendCard, Finish, Kept, TasksTyped
  <2>2. pc'[p] = "idle" /\ lock'[p] = 0 /\ lock'[p] <= gen /\ Way(p)' /\ ~Holds(p)'
        /\ ~Deciding(p)' /\ ~Posts(p)' /\ op'[p] = "none"
    BY <1>4, Over DEF SendCard, RestTyped
  <2>3. Locks'
    BY <1>4, <2>1, <2>2, Others DEF SendCard, RestTyped
  <2> QED
    BY <1>4, <2>1, <2>2, <2>3, Plain DEF SendCard, outside
<1>5. ASSUME NEW p \in Procs, CancelUnreviewed(p) PROVE Locks' /\ Story'
  <2>1. \A q \in Procs : q # p => Kept(q)
    BY <1>5 DEF CancelUnreviewed, Finish, Kept, TasksTyped
  <2>2. pc'[p] = "idle" /\ lock'[p] = 0 /\ lock'[p] <= gen /\ Way(p)' /\ ~Holds(p)'
        /\ ~Deciding(p)' /\ ~Posts(p)' /\ op'[p] = "none"
    BY <1>5, Over DEF CancelUnreviewed, RestTyped
  <2>3. Locks'
    BY <1>5, <2>1, <2>2, Others DEF CancelUnreviewed, RestTyped
  <2>5. /\ pc[p] = "card" /\ pc'[p] = "idle" /\ op'[p] = "none"
        /\ row'.status = "cancelled" /\ row'.reminded = row.reminded
        /\ row'.held = row.held /\ row'.surface = row.surface
        /\ UNCHANGED <<votes, gen, sent, lastCalls, decisions, crashes>>
    BY <1>5 DEF CancelUnreviewed, Finish, TasksTyped, StoreTyped, Rows, outside
  <2>6. FirstLock'
    BY <2>1, <2>5 DEF Story, FirstLock, Deciding, Undecided, Absent, Kept
  <2>7. Begun'
    BY <2>1, <2>5 DEF Story, Begun, Absent, Kept
  <2>8. Surfaced'
    BY <2>1, <2>5 DEF Story, Surfaced
  <2>9. Record'
    BY <2>1, <2>5 DEF Story, Record, DecidedOnce, Deciding, Kept, Begun, Absent
  <2>10. Poster'
    BY <2>1, <2>5 DEF Story, Poster, Posts, Deciding, Approval, Undecided, Absent, Kept
  <2>11. Reminder'
    BY <2>1, <2>5, Names DEF Story, Reminder, Kept
  <2>12. Answered'
    BY <2>1, <2>5 DEF Story, Answered, Sole, AnswerOf, Kept
  <2> QED
    BY <2>3, <2>6, <2>7, <2>8, <2>9, <2>10, <2>11, <2>12 DEF Story
<1>6. ASSUME NEW p \in Procs, Send(p) PROVE Locks' /\ Story'
  <2>1. \A q \in Procs : q # p => Kept(q)
    BY <1>6 DEF Send, Goto, Kept, TasksTyped
  <2>2. Way(p)'
    BY <1>6 DEF Send, Goto, Locks, Paths, Way, TasksTyped
  <2>3. /\ lock'[p] \in Nat /\ lock'[p] <= gen' /\ gen' \in {gen, gen + 1}
        /\ Holds(p)' => lock'[p] = lock[p] /\ (Holds(p) \/ Free(p))
    BY <1>6 DEF Send, Goto, Locks, Numbered, Paths, Way, Holds, TasksTyped, RestTyped
  <2>4. Locks'
    BY <2>1, <2>2, <2>3, Others DEF RestTyped
  <2>5. /\ pc[p] = "post" /\ pc'[p] = "setPosted" /\ op'[p] = op[p]
        /\ sent' = sent + 1
        /\ UNCHANGED <<row, votes, gen, lastCalls, decisions, crashes>>
    BY <1>6 DEF Send, Goto, TasksTyped
  <2>6. FirstLock'
    BY <2>1, <2>5 DEF Story, FirstLock, Deciding, Undecided, Absent, Kept
  <2>7. Begun'
    BY <2>1, <2>5 DEF Story, Begun, Absent, Kept
  <2>8. Surfaced'
    BY <2>1, <2>5 DEF Story, Surfaced
  <2>9. Record'
    BY <2>1, <2>5 DEF Story, Record, DecidedOnce, Deciding, Kept, Begun, Absent
  <2>10. Poster'
    BY <2>1, <2>5 DEF Story, Poster, Posts, Deciding, Approval, Undecided, Absent, Kept
  <2>11. Reminder'
    BY <2>1, <2>5, Names DEF Story, Reminder, Kept
  <2>12. Answered'
    BY <2>1, <2>5 DEF Story, Answered, Sole, AnswerOf, Kept
  <2> QED
    BY <2>4, <2>6, <2>7, <2>8, <2>9, <2>10, <2>11, <2>12 DEF Story
<1>7. ASSUME NEW p \in Procs, SendRefused(p) PROVE Locks' /\ Story'
  <2>1. \A q \in Procs : q # p => Kept(q)
    BY <1>7 DEF SendRefused, Goto, Kept, TasksTyped
  <2>2. Way(p)'
    BY <1>7 DEF SendRefused, Goto, Locks, Paths, Way, TasksTyped
  <2>3. /\ lock'[p] \in Nat /\ lock'[p] <= gen' /\ gen' \in {gen, gen + 1}
        /\ Holds(p)' => lock'[p] = lock[p] /\ (Holds(p) \/ Free(p))
    BY <1>7 DEF SendRefused, Goto, Locks, Numbered, Paths, Way, Holds, TasksTyped, RestTyped
  <2>4. Locks'
    BY <2>1, <2>2, <2>3, Others DEF RestTyped
  <2>5. /\ ~Deciding(p)' /\ (Posts(p)' => Posts(p))
        /\ pc'[p] \notin {"drop", "insert", "lastCall", "unclaim"}
        /\ row.status = Absent => pc'[p] \in {"idle", "reminders", "due"}
    BY <1>7 DEF SendRefused, Goto, Deciding, Posts, Story, Begun, Absent, TasksTyped
  <2> QED
    BY <1>7, <2>1, <2>4, <2>5, Plain DEF SendRefused, outside
<1>8. ASSUME NEW p \in Procs, SetPosted(p) PROVE Locks' /\ Story'
  <2>1. \A q \in Procs : q # p => Kept(q)
    BY <1>8 DEF SetPosted, Goto, Kept, TasksTyped
  <2>2. Way(p)'
    BY <1>8 DEF SetPosted, Goto, Locks, Paths, Way, TasksTyped
  <2>3. /\ lock'[p] \in Nat /\ lock'[p] <= gen' /\ gen' \in {gen, gen + 1}
        /\ Holds(p)' => lock'[p] = lock[p] /\ (Holds(p) \/ Free(p))
    BY <1>8 DEF SetPosted, Goto, Locks, Numbered, Paths, Way, Holds, TasksTyped, RestTyped
  <2>4. Locks'
    BY <2>1, <2>2, <2>3, Others DEF RestTyped
  <2>5. /\ pc[p] = "setPosted" /\ pc'[p] = "setOpen" /\ op'[p] = op[p]
        /\ row'.status = row.status /\ row'.reminded = row.reminded
        /\ row'.held = row.held /\ row'.surface = row.surface
        /\ UNCHANGED <<votes, gen, sent, lastCalls, decisions, crashes>>
    BY <1>8 DEF SetPosted, Goto, TasksTyped, StoreTyped, Rows, outside
  <2>6. FirstLock'
    BY <2>1, <2>5 DEF Story, FirstLock, Deciding, Undecided, Absent, Kept
  <2>7. Begun'
    BY <2>1, <2>5 DEF Story, Begun, Absent, Kept
  <2>8. Surfaced'
    BY <2>1, <2>5 DEF Story, Surfaced
  <2>9. Record'
    BY <2>1, <2>5 DEF Story, Record, DecidedOnce, Deciding, Kept, Begun, Absent
  <2>10. Poster'
    BY <2>1, <2>5 DEF Story, Poster, Posts, Deciding, Approval, Undecided, Absent, Kept
  <2>11. Reminder'
    BY <2>1, <2>5, Names DEF Story, Reminder, Kept
  <2>12. Answered'
    BY <2>1, <2>5 DEF Story, Answered, Sole, AnswerOf, Kept
  <2> QED
    BY <2>4, <2>6, <2>7, <2>8, <2>9, <2>10, <2>11, <2>12 DEF Story
<1>9. ASSUME NEW p \in Procs, SetOpen(p) PROVE Locks' /\ Story'
  <2>1. \A q \in Procs : q # p => Kept(q)
    BY <1>9 DEF SetOpen, Finish, Kept, TasksTyped
  <2>2. pc'[p] = "idle" /\ lock'[p] = 0 /\ lock'[p] <= gen /\ Way(p)' /\ ~Holds(p)'
        /\ ~Deciding(p)' /\ ~Posts(p)' /\ op'[p] = "none"
    BY <1>9, Over DEF SetOpen, RestTyped
  <2>3. Locks'
    BY <1>9, <2>1, <2>2, Others DEF SetOpen, RestTyped
  <2>5. /\ pc[p] = "setOpen" /\ pc'[p] = "idle" /\ op'[p] = "none"
        /\ row'.status = "open" /\ row'.reminded = row.reminded
        /\ row'.held = row.held /\ row'.surface = row.surface
        /\ UNCHANGED <<votes, gen, sent, lastCalls, decisions, crashes>>
    BY <1>9 DEF SetOpen, Finish, TasksTyped, StoreTyped, Rows, outside
  <2>6. FirstLock'
    BY <2>1, <2>5 DEF Story, FirstLock, Deciding, Undecided, Absent, Kept
  <2>7. Begun'
    BY <2>1, <2>5 DEF Story, Begun, Absent, Kept
  <2>8. Surfaced'
    BY <2>1, <2>5 DEF Story, Surfaced
  <2>9. Record'
    BY <2>1, <2>5 DEF Story, Record, DecidedOnce, Deciding, Kept, Begun, Absent
  <2>10. Poster'
    BY <2>1, <2>5 DEF Story, Poster, Posts, Deciding, Approval, Undecided, Absent, Kept
  <2>11. Reminder'
    BY <2>1, <2>5, Names DEF Story, Reminder, Kept
  <2>12. Answered'
    BY <2>1, <2>5 DEF Story, Answered, Sole, AnswerOf, Kept
  <2> QED
    BY <2>3, <2>6, <2>7, <2>8, <2>9, <2>10, <2>11, <2>12 DEF Story
<1>10. ASSUME NEW p \in Procs, CancelUnposted(p) PROVE Locks' /\ Story'
  <2>1. \A q \in Procs : q # p => Kept(q)
    BY <1>10 DEF CancelUnposted, Finish, Kept, TasksTyped
  <2>2. pc'[p] = "idle" /\ lock'[p] = 0 /\ lock'[p] <= gen /\ Way(p)' /\ ~Holds(p)'
        /\ ~Deciding(p)' /\ ~Posts(p)' /\ op'[p] = "none"
    BY <1>10, Over DEF CancelUnposted, RestTyped
  <2>3. Locks'
    BY <1>10, <2>1, <2>2, Others DEF CancelUnposted, RestTyped
  <2>5. /\ pc[p] = "unposted" /\ pc'[p] = "idle" /\ op'[p] = "none"
        /\ row'.status = "cancelled" /\ row'.reminded = row.reminded
        /\ row'.held = row.held /\ row'.surface = row.surface
        /\ UNCHANGED <<votes, gen, sent, lastCalls, decisions, crashes>>
    BY <1>10 DEF CancelUnposted, Finish, TasksTyped, StoreTyped, Rows, outside
  <2>6. FirstLock'
    BY <2>1, <2>5 DEF Story, FirstLock, Deciding, Undecided, Absent, Kept
  <2>7. Begun'
    BY <2>1, <2>5 DEF Story, Begun, Absent, Kept
  <2>8. Surfaced'
    BY <2>1, <2>5 DEF Story, Surfaced
  <2>9. Record'
    BY <2>1, <2>5 DEF Story, Record, DecidedOnce, Deciding, Kept, Begun, Absent
  <2>10. Poster'
    BY <2>1, <2>5 DEF Story, Poster, Posts, Deciding, Approval, Undecided, Absent, Kept
  <2>11. Reminder'
    BY <2>1, <2>5, Names DEF Story, Reminder, Kept
  <2>12. Answered'
    BY <2>1, <2>5 DEF Story, Answered, Sole, AnswerOf, Kept
  <2> QED
    BY <2>3, <2>6, <2>7, <2>8, <2>9, <2>10, <2>11, <2>12 DEF Story
<1>11. ASSUME NEW p \in Procs, SetStatus(p) PROVE Locks' /\ Story'
  <2>1. \A q \in Procs : q # p => Kept(q)
    BY <1>11 DEF SetStatus, Goto, Kept, TasksTyped
  <2>2. Way(p)'
    BY <1>11 DEF SetStatus, Goto, Locks, Paths, Way, TasksTyped
  <2>3. /\ lock'[p] \in Nat /\ lock'[p] <= gen' /\ gen' \in {gen, gen + 1}
        /\ Holds(p)' => lock'[p] = lock[p] /\ (Holds(p) \/ Free(p))
    BY <1>11 DEF SetStatus, Goto, Locks, Numbered, Paths, Way, Holds, TasksTyped, RestTyped
  <2>4. Locks'
    BY <2>1, <2>2, <2>3, Others DEF RestTyped
  <2>5. /\ pc[p] = "set" /\ op'[p] = op[p] /\ op[p] \in {"approve", "deny", "close", "cancel"}
        /\ UNCHANGED <<votes, gen, sent, lastCalls, crashes>>
    BY <1>11 DEF SetStatus, Locks, Paths, Way, outside
  <2>6. /\ row'.status = Wanted(op[p]) /\ row'.reminded = row.reminded
        /\ row'.held = row.held /\ row'.surface = row.surface
    BY <1>11 DEF SetStatus, StoreTyped, Rows
  <2>7. row.status # Absent
    BY <2>5 DEF Story, Begun
  <2>8. CASE op[p] \in {"approve", "deny"}
    <3>1. decisions' = Append(decisions, op[p]) /\ pc'[p] = "release"
      BY <1>11, <2>8 DEF SetStatus, Goto, TasksTyped
    <3>2. /\ Deciding(p) /\ gen = 0 /\ row.held /\ sent = 0 /\ \A q \in Procs : ~Posts(q)
          /\ decisions = <<>> \/ (op[p] = "approve" /\ decisions = <<"deny">>)
      BY <2>5, <2>8 DEF Deciding, Story, FirstLock, Record, Poster
    <3>3. ASSUME NEW q \in Procs, q # p
          PROVE  ~Deciding(q)' /\ pc'[q] # "drop" /\ ~Posts(q)'
      <4>1. lock[p] = 0 /\ lock[q] = 0
        BY <3>2 DEF Locks, Numbered, TasksTyped
      <4>2. ~Holds(q)
        BY <3>3, <4>1, <2>5 DEF Locks, Excluded, Holds
      <4> QED
        BY <3>2, <3>3, <4>2, <2>1 DEF Kept, Deciding, Posts, Holds
    <3>4. ~Deciding(p)' /\ pc'[p] # "drop" /\ (Posts(p)' => op[p] = "approve")
      BY <3>1, <2>5 DEF Deciding, Posts
    <3>5. /\ op[p] = "approve" => /\ row'.status = "open"
                                  /\ decisions' \in {<<"approve">>, <<"deny", "approve">>}
          /\ op[p] = "deny" => row'.status = "denied" /\ decisions' = <<"deny">>
      <4>1. ASSUME op[p] = "approve"
            PROVE  /\ row'.status = "open"
                   /\ decisions' \in {<<"approve">>, <<"deny", "approve">>}
        <5>1. decisions = <<>> => decisions' = <<"approve">>
          BY <4>1, <3>1
        <5>2. decisions = <<"deny">> => decisions' = <<"deny", "approve">>
          BY <4>1, <3>1, AfterAll DEF RestTyped
        <5> QED
          BY <4>1, <5>1, <5>2, <2>6, <3>2 DEF Wanted
      <4>2. ASSUME op[p] = "deny" PROVE row'.status = "denied" /\ decisions' = <<"deny">>
        <5>1. decisions = <<>>
          BY <4>2, <3>2
        <5> QED
          BY <4>2, <5>1, <2>6, <3>1 DEF Wanted
      <4> QED
        BY <4>1, <4>2
    <3>6. op[p] = "approve" => Approval'
      BY <3>5 DEF Approval
    <3>7. FirstLock' /\ Begun' /\ Surfaced'
      BY <2>5, <2>6, <2>8, <3>2, <3>3, <3>4, <3>5 DEF Story, FirstLock, Begun, Surfaced, Absent
    <3>8. Record'
      BY <2>6, <2>8, <3>2, <3>3, <3>4, <3>5 DEF Record, DecidedOnce, Absent
    <3>9. Poster'
      BY <2>5, <2>6, <2>8, <3>2, <3>3, <3>4, <3>5, <3>6 DEF Poster, Undecided, Absent
    <3>10. Reminder'
      BY <2>1, <2>5, <2>6, <2>8, <3>1, <3>5, Names DEF Story, Reminder, Kept
    <3>11. Answered'
      BY <2>1, <2>5, <3>1 DEF Story, Answered, Sole, AnswerOf, Kept
    <3> QED
      BY <2>4, <3>7, <3>8, <3>9, <3>10, <3>11 DEF Story
  <2>9. CASE op[p] \notin {"approve", "deny"}
    <3>1. decisions' = decisions /\ pc'[p] = "drop" /\ ~Deciding(p)' /\ ~Posts(p)'
      BY <1>11, <2>9 DEF SetStatus, Goto, TasksTyped, Deciding, Posts
    <3>2. /\ row'.status \in {"closed", "cancelled"}
          /\ row'.status = "closed" => op[p] = "close"
      BY <2>5, <2>6, <2>9 DEF Wanted
    <3>3. \A q \in Procs : /\ Deciding(q)' => Deciding(q) /\ op'[q] = op[q]
                           /\ Posts(q)' => Posts(q)
      BY <2>1, <3>1 DEF Deciding, Posts, Kept
    <3>4. FirstLock' /\ Begun' /\ Surfaced'
      BY <2>5, <2>6, <3>2, <3>3 DEF Story, FirstLock, Begun, Surfaced, Undecided, Absent
    <3>5. Record'
      BY <2>6, <3>1, <3>2, <3>3 DEF Story, Record, DecidedOnce, Absent
    <3>6. Poster'
      <4>1. Approval' <=> Approval
        BY <3>1 DEF Approval
      <4> QED
        BY <2>5, <2>6, <3>2, <3>3, <4>1 DEF Story, Poster, Undecided, Absent
    <3>7. Reminder'
      BY <2>1, <2>5, <2>6, <3>1, <3>2, Names DEF Story, Reminder, Kept
    <3>8. Answered'
      BY <2>1, <2>5, <3>1 DEF Story, Answered, Sole, AnswerOf, Kept
    <3> QED
      BY <2>4, <3>4, <3>5, <3>6, <3>7, <3>8 DEF Story
  <2> QED
    BY <2>8, <2>9
<1>12. ASSUME NEW p \in Procs, Approved(p) PROVE Locks' /\ Story'
  <2>1. \A q \in Procs : q # p => Kept(q)
    BY <1>12 DEF Approved, Kept, TasksTyped
  <2>2. Way(p)'
    BY <1>12 DEF Approved, Locks, Paths, Way, TasksTyped
  <2>3. /\ lock'[p] \in Nat /\ lock'[p] <= gen' /\ gen' \in {gen, gen + 1}
        /\ Holds(p)' => lock'[p] = lock[p] /\ (Holds(p) \/ Free(p))
    BY <1>12 DEF Approved, Locks, Numbered, Paths, Way, Holds, TasksTyped, RestTyped
  <2>4. Locks'
    BY <2>1, <2>2, <2>3, Others DEF RestTyped
  <2>5. /\ ~Deciding(p)' /\ (Posts(p)' => Posts(p))
        /\ pc'[p] \notin {"drop", "insert", "lastCall", "unclaim"}
        /\ row.status = Absent => pc'[p] \in {"idle", "reminders", "due"}
    BY <1>12 DEF Approved, Deciding, Posts, Story, Begun, Absent, TasksTyped
  <2> QED
    BY <1>12, <2>1, <2>4, <2>5, Plain DEF Approved, outside
<1>13. ASSUME NEW p \in Procs, Denied(p) PROVE Locks' /\ Story'
  <2>1. \A q \in Procs : q # p => Kept(q)
    BY <1>13 DEF Denied, Finish, Kept, TasksTyped
  <2>2. pc'[p] = "idle" /\ lock'[p] = 0 /\ lock'[p] <= gen /\ Way(p)' /\ ~Holds(p)'
        /\ ~Deciding(p)' /\ ~Posts(p)' /\ op'[p] = "none"
    BY <1>13, Over DEF Denied, RestTyped
  <2>3. Locks'
    BY <1>13, <2>1, <2>2, Others DEF Denied, RestTyped
  <2> QED
    BY <1>13, <2>1, <2>2, <2>3, Plain DEF Denied, outside
<1>14. ASSUME NEW p \in Procs, DropLock(p) PROVE Locks' /\ Story'
  <2>1. \A q \in Procs : q # p => Kept(q)
    BY <1>14 DEF DropLock, Goto, Finish, AfterDrop, Kept, TasksTyped
  <2>2. Way(p)'
    BY <1>14, Over DEF DropLock, Goto, Finish, AfterDrop, Locks, Paths, Way, TasksTyped, RestTyped
  <2>3. /\ lock'[p] \in Nat /\ lock'[p] <= gen' /\ gen' \in {gen, gen + 1}
        /\ Holds(p)' => lock'[p] = lock[p] /\ (Holds(p) \/ Free(p))
    BY <1>14
       DEF DropLock, Goto, Finish, AfterDrop, Locks, Numbered, Paths, Way, Holds, TasksTyped,
           RestTyped
  <2>4. Locks'
    BY <2>1, <2>2, <2>3, Others DEF RestTyped
  <2>5. /\ pc[p] = "drop" /\ gen' = gen + 1 /\ row.status \notin Undecided
        /\ op[p] \in {"close", "cancel"}
        /\ UNCHANGED <<row, votes, sent, lastCalls, decisions, crashes>>
    BY <1>14 DEF DropLock, Locks, Paths, Way, Story, FirstLock, outside
  <2>6. /\ pc'[p] = AfterDrop(p) /\ AfterDrop(p) \in {"idle", "count", "fetch"}
        /\ AfterDrop(p) # "idle" => op'[p] = op[p]
    BY <1>14 DEF DropLock, Goto, Finish, AfterDrop, TasksTyped
  <2>7. ASSUME NEW q \in Procs PROVE ~Deciding(q)' /\ ~Deciding(q)
    <3>1. CASE q = p
      BY <3>1, <2>5, <2>6 DEF Deciding
    <3>2. CASE q # p
      <4>1. ASSUME Deciding(q) PROVE FALSE
        <5>1. lock[p] = 0 /\ lock[q] = 0
          BY <4>1 DEF Story, FirstLock, Locks, Numbered, TasksTyped
        <5> QED
          BY <3>2, <4>1, <5>1, <2>5 DEF Locks, Excluded, Holds, Deciding
      <4> QED
        BY <3>2, <4>1, <2>1 DEF Deciding, Kept
    <3> QED
      BY <3>1, <3>2
  <2>8. \A q \in Procs : Posts(q)' => Posts(q)
    BY <2>1, <2>6 DEF Posts, Kept
  <2>9. FirstLock' /\ Begun' /\ Surfaced'
    BY <2>5, <2>7 DEF Story, FirstLock, Begun, Surfaced, Undecided, Absent
  <2>10. Record'
    BY <2>5, <2>7 DEF Story, Record, DecidedOnce
  <2>11. Poster'
    <3>1. Approval' <=> Approval
      BY <2>5 DEF Approval
    <3> QED
      BY <2>5, <2>7, <2>8, <3>1 DEF Story, Poster
  <2>12. Reminder' /\ Answered'
    BY <2>1, <2>5, <2>6, Names DEF Story, Reminder, Answered, Kept, RestTyped
  <2> QED
    BY <2>4, <2>9, <2>10, <2>11, <2>12 DEF Story
<1>15. ASSUME NEW p \in Procs, SaveResults(p) PROVE Locks' /\ Story'
  <2>1. \A q \in Procs : q # p => Kept(q)
    BY <1>15 DEF SaveResults, Goto, Finish, Kept, TasksTyped
  <2>2. Way(p)'
    BY <1>15, Over DEF SaveResults, Goto, Finish, Locks, Paths, Way, TasksTyped, RestTyped
  <2>3. /\ lock'[p] \in Nat /\ lock'[p] <= gen' /\ gen' \in {gen, gen + 1}
        /\ Holds(p)' => lock'[p] = lock[p] /\ (Holds(p) \/ Free(p))
    BY <1>15 DEF SaveResults, Goto, Finish, Locks, Numbered, Paths, Way, Holds, TasksTyped,
           RestTyped
  <2>4. Locks'
    BY <2>1, <2>2, <2>3, Others DEF RestTyped
  <2>5. /\ ~Deciding(p)' /\ (Posts(p)' => Posts(p))
        /\ pc'[p] \notin {"drop", "insert", "lastCall", "unclaim"}
        /\ row.status = Absent => pc'[p] \in {"idle", "reminders", "due"}
    BY <1>15, Over DEF SaveResults, Goto, Finish, Deciding, Posts, Story, Begun, Absent,
           TasksTyped, RestTyped
  <2> QED
    BY <1>15, <2>1, <2>4, <2>5, Plain DEF SaveResults, outside
<1>16. ASSUME NEW p \in Procs, EndVote(p) PROVE Locks' /\ Story'
  <2>1. \A q \in Procs : q # p => Kept(q)
    BY <1>16 DEF EndVote, Goto, Finish, AfterEnd, Kept, TasksTyped
  <2>2. Way(p)'
    BY <1>16, Over DEF EndVote, Goto, Finish, AfterEnd, Locks, Paths, Way, TasksTyped, RestTyped
  <2>3. /\ lock'[p] \in Nat /\ lock'[p] <= gen' /\ gen' \in {gen, gen + 1}
        /\ Holds(p)' => lock'[p] = lock[p] /\ (Holds(p) \/ Free(p))
    BY <1>16
       DEF EndVote, Goto, Finish, AfterEnd, Locks, Numbered, Paths, Way, Holds, TasksTyped,
           RestTyped
  <2>4. Locks'
    BY <2>1, <2>2, <2>3, Others DEF RestTyped
  <2>5. /\ ~Deciding(p)' /\ (Posts(p)' => Posts(p))
        /\ pc'[p] \notin {"drop", "insert", "lastCall", "unclaim"}
        /\ row.status = Absent => pc'[p] \in {"idle", "reminders", "due"}
    BY <1>16, Over
       DEF EndVote, Goto, AfterEnd, Deciding, Posts, Story, Begun, Absent, TasksTyped, RestTyped
  <2> QED
    BY <1>16, <2>1, <2>4, <2>5, Plain DEF EndVote, outside
<1>17. ASSUME NEW p \in Procs, EndRefused(p) PROVE Locks' /\ Story'
  <2>1. \A q \in Procs : q # p => Kept(q)
    BY <1>17 DEF EndRefused, Goto, Finish, AfterEnd, Kept, TasksTyped
  <2>2. Way(p)'
    BY <1>17, Over DEF EndRefused, Goto, Finish, AfterEnd, Locks, Paths, Way, TasksTyped, RestTyped
  <2>3. /\ lock'[p] \in Nat /\ lock'[p] <= gen' /\ gen' \in {gen, gen + 1}
        /\ Holds(p)' => lock'[p] = lock[p] /\ (Holds(p) \/ Free(p))
    BY <1>17
       DEF EndRefused, Goto, Finish, AfterEnd, Locks, Numbered, Paths, Way, Holds, TasksTyped,
           RestTyped
  <2>4. Locks'
    BY <2>1, <2>2, <2>3, Others DEF RestTyped
  <2>5. /\ ~Deciding(p)' /\ (Posts(p)' => Posts(p))
        /\ pc'[p] \notin {"drop", "insert", "lastCall", "unclaim"}
        /\ row.status = Absent => pc'[p] \in {"idle", "reminders", "due"}
    BY <1>17, Over
       DEF EndRefused, Goto, AfterEnd, Deciding, Posts, Story, Begun, Absent, TasksTyped, RestTyped
  <2> QED
    BY <1>17, <2>1, <2>4, <2>5, Plain DEF EndRefused, outside
<1>18. ASSUME NEW p \in Procs, CastVote(p) PROVE Locks' /\ Story'
  <2>1. \A q \in Procs : q # p => Kept(q)
    BY <1>18 DEF CastVote, Queue, Kept, TasksTyped
  <2>2. Way(p)'
    BY <1>18 DEF CastVote, Queue, Locks, Paths, Way, TasksTyped
  <2>3. /\ lock'[p] \in Nat /\ lock'[p] <= gen' /\ gen' \in {gen, gen + 1}
        /\ Holds(p)' => lock'[p] = lock[p] /\ (Holds(p) \/ Free(p))
    BY <1>18 DEF CastVote, Queue, Locks, Numbered, Paths, Way, Holds, TasksTyped, RestTyped
  <2>4. Locks'
    BY <2>1, <2>2, <2>3, Others DEF RestTyped
  <2>5. /\ ~Deciding(p)' /\ (Posts(p)' => Posts(p))
        /\ pc'[p] \notin {"drop", "insert", "lastCall", "unclaim"}
        /\ row.status = Absent => pc'[p] \in {"idle", "reminders", "due"}
    BY <1>18 DEF CastVote, Queue, Deciding, Posts, Story, Begun, Absent, TasksTyped
  <2> QED
    BY <1>18, <2>1, <2>4, <2>5, Plain DEF CastVote, outside
<1>19. ASSUME NEW p \in Procs, DeleteVotes(p) PROVE Locks' /\ Story'
  <2>1. \A q \in Procs : q # p => Kept(q)
    BY <1>19 DEF DeleteVotes, Goto, Kept, TasksTyped
  <2>2. Way(p)'
    BY <1>19 DEF DeleteVotes, Goto, Locks, Paths, Way, TasksTyped
  <2>3. /\ lock'[p] \in Nat /\ lock'[p] <= gen' /\ gen' \in {gen, gen + 1}
        /\ Holds(p)' => lock'[p] = lock[p] /\ (Holds(p) \/ Free(p))
    BY <1>19 DEF DeleteVotes, Goto, Locks, Numbered, Paths, Way, Holds, TasksTyped, RestTyped
  <2>4. Locks'
    BY <2>1, <2>2, <2>3, Others DEF RestTyped
  <2>5. /\ pc[p] = "delete" /\ pc'[p] = "insert" /\ op'[p] = op[p] /\ answer'[p] = answer[p]
        /\ votes' = votes \ AnswerOf(answer[p][1])
        /\ UNCHANGED <<row, gen, sent, lastCalls, decisions, crashes>>
    BY <1>19 DEF DeleteVotes, Goto, TasksTyped, outside
  <2>6. FirstLock'
    BY <2>1, <2>5 DEF Story, FirstLock, Deciding, Undecided, Absent, Kept
  <2>7. Begun'
    BY <2>1, <2>5 DEF Story, Begun, Absent, Kept
  <2>8. Surfaced'
    BY <2>1, <2>5 DEF Story, Surfaced
  <2>9. Record'
    BY <2>1, <2>5 DEF Story, Record, DecidedOnce, Deciding, Kept, Begun, Absent
  <2>10. Poster'
    BY <2>1, <2>5 DEF Story, Poster, Posts, Deciding, Approval, Undecided, Absent, Kept
  <2>11. Reminder'
    BY <2>1, <2>5, Names DEF Story, Reminder, Kept
  <2>12. Answered'
    BY <2>1, <2>5 DEF Story, Answered, Sole, AnswerOf, Kept
  <2> QED
    BY <2>4, <2>6, <2>7, <2>8, <2>9, <2>10, <2>11, <2>12 DEF Story
<1>20. ASSUME NEW p \in Procs, InsertVotes(p) PROVE Locks' /\ Story'
  <2>1. \A q \in Procs : q # p => Kept(q)
    BY <1>20 DEF InsertVotes, Goto, Kept, TasksTyped
  <2>2. Way(p)'
    BY <1>20 DEF InsertVotes, Goto, Locks, Paths, Way, TasksTyped
  <2>3. /\ lock'[p] \in Nat /\ lock'[p] <= gen' /\ gen' \in {gen, gen + 1}
        /\ Holds(p)' => lock'[p] = lock[p] /\ (Holds(p) \/ Free(p))
    BY <1>20 DEF InsertVotes, Goto, Locks, Numbered, Paths, Way, Holds, TasksTyped, RestTyped
  <2>4. Locks'
    BY <2>1, <2>2, <2>3, Others DEF RestTyped
  <2>5. /\ pc[p] = "insert" /\ pc'[p] = "repaint" /\ op'[p] = op[p]
        /\ votes' = votes \cup ({answer[p][1]} \X answer[p][2])
        /\ UNCHANGED <<row, gen, sent, lastCalls, decisions, crashes>>
    BY <1>20 DEF InsertVotes, Goto, TasksTyped, outside
  <2>6. FirstLock'
    BY <2>1, <2>5 DEF Story, FirstLock, Deciding, Undecided, Absent, Kept
  <2>7. Begun'
    BY <2>1, <2>5 DEF Story, Begun, Absent, Kept
  <2>8. Surfaced'
    BY <2>1, <2>5 DEF Story, Surfaced
  <2>9. Record'
    BY <2>1, <2>5 DEF Story, Record, DecidedOnce, Deciding, Kept, Begun, Absent
  <2>10. Poster'
    BY <2>1, <2>5 DEF Story, Poster, Posts, Deciding, Approval, Undecided, Absent, Kept
  <2>11. Reminder'
    BY <2>1, <2>5, Names DEF Story, Reminder, Kept
  <2>12. Answered'
    <3> SUFFICES ASSUME gen = 0, crashes = 0
                 PROVE  /\ \A v \in Voters : Sole(v)'
                        /\ \A q \in Procs : pc'[q] # "insert"
      BY <2>5 DEF Answered
    <3>1. answer[p] \in Voters \X Choices /\ AnswerOf(answer[p][1]) = {}
      BY <2>5 DEF Locks, Paths, Way, Story, Answered
    <3>2. PICK w \in Voters, c \in Choices : answer[p] = <<w, c>>
      BY <3>1
    <3>3. AnswerOf(w) = {} /\ votes' = votes \cup ({w} \X c)
      BY <3>1, <3>2, <2>5
    <3>4. ASSUME NEW v \in Voters PROVE Sole(v)'
      <4>1. CASE v = w
        <5>1. AnswerOf(v)' = {w} \X c
          BY <3>3, <4>1 DEF AnswerOf
        <5>2. \A o1, o2 \in c : o1 = o2
          BY DEF Choices
        <5> QED
          BY <5>1, <5>2 DEF Sole
      <4>2. CASE v # w
        <5>1. AnswerOf(v)' = AnswerOf(v)
          BY <3>3, <4>2 DEF AnswerOf
        <5>2. Sole(v)
          BY DEF Story, Answered
        <5> QED
          BY <5>1, <5>2 DEF Sole
      <4> QED
        BY <4>1, <4>2
    <3>5. ASSUME NEW q \in Procs, pc'[q] = "insert" PROVE FALSE
      <4>1. q # p /\ pc[q] = "insert"
        BY <3>5, <2>1, <2>5 DEF Kept
      <4>2. lock[q] = 0 /\ lock[p] = 0
        BY DEF Locks, Numbered, TasksTyped
      <4> QED
        BY <4>1, <4>2, <2>5 DEF Locks, Excluded, Holds
    <3> QED
      BY <3>4, <3>5
  <2> QED
    BY <2>4, <2>6, <2>7, <2>8, <2>9, <2>10, <2>11, <2>12 DEF Story
<1>21. ASSUME NEW p \in Procs, Repaint(p) PROVE Locks' /\ Story'
  <2>1. \A q \in Procs : q # p => Kept(q)
    BY <1>21 DEF Repaint, Finish, Kept, TasksTyped
  <2>2. pc'[p] = "idle" /\ lock'[p] = 0 /\ lock'[p] <= gen /\ Way(p)' /\ ~Holds(p)'
        /\ ~Deciding(p)' /\ ~Posts(p)' /\ op'[p] = "none"
    BY <1>21, Over DEF Repaint, RestTyped
  <2>3. Locks'
    BY <1>21, <2>1, <2>2, Others DEF Repaint, RestTyped
  <2> QED
    BY <1>21, <2>1, <2>2, <2>3, Plain DEF Repaint, outside
<1>22. ASSUME NEW p \in Procs, Reread(p) PROVE Locks' /\ Story'
  <2>1. \A q \in Procs : q # p => Kept(q)
    BY <1>22 DEF Reread, Goto, Kept, TasksTyped
  <2>2. Way(p)'
    BY <1>22 DEF Reread, Goto, Locks, Paths, Way, TasksTyped, AllOperations
  <2>3. /\ lock'[p] \in Nat /\ lock'[p] <= gen' /\ gen' \in {gen, gen + 1}
        /\ Holds(p)' => lock'[p] = lock[p] /\ (Holds(p) \/ Free(p))
    BY <1>22 DEF Reread, Goto, Locks, Numbered, Paths, Way, Holds, TasksTyped, RestTyped
  <2>4. Locks'
    BY <2>1, <2>2, <2>3, Others DEF RestTyped
  <2>5. /\ pc[p] = "wait" /\ pc'[p] = "set" /\ op'[p] = op[p] /\ ~Posts(p)'
        /\ CanTransition(row.status, Wanted(op[p]))
        /\ UNCHANGED <<row, votes, gen, sent, lastCalls, decisions, crashes>>
    BY <1>22 DEF Reread, Goto, TasksTyped, Posts, outside
  <2>6. Deciding(p)' => /\ op[p] \in {"approve", "deny"}
                        /\ row.status \in {"pending_review", "denied"}
                        /\ row.status = "denied" => op[p] = "approve"
    BY <2>5, Moves DEF Deciding, Wanted
  <2>7. \A q \in Procs : /\ q # p => (Deciding(q)' => Deciding(q) /\ op'[q] = op[q])
                         /\ Posts(q)' => Posts(q)
                         /\ pc'[q] \in {"drop", "insert"} => pc[q] = pc'[q]
    BY <2>1, <2>5 DEF Deciding, Posts, Kept
  <2>8. FirstLock' /\ Begun' /\ Surfaced'
    BY <2>5, <2>6, <2>7 DEF Story, FirstLock, Begun, Surfaced, Undecided, Absent
  <2>9. Record'
    BY <2>5, <2>6, <2>7 DEF Story, Record, DecidedOnce
  <2>10. Poster'
    <3>1. Approval' <=> Approval
      BY <2>5 DEF Approval
    <3> QED
      BY <2>5, <2>6, <2>7, <3>1 DEF Story, Poster, Undecided
  <2>11. Reminder' /\ Answered'
    BY <2>1, <2>5, Names DEF Story, Reminder, Answered, Sole, AnswerOf, Kept
  <2> QED
    BY <2>4, <2>8, <2>9, <2>10, <2>11 DEF Story
<1>23. ASSUME NEW p \in Procs, TooLate(p) PROVE Locks' /\ Story'
  <2>1. \A q \in Procs : q # p => Kept(q)
    BY <1>23 DEF TooLate, Finish, Kept, TasksTyped
  <2>2. pc'[p] = "idle" /\ lock'[p] = 0 /\ lock'[p] <= gen /\ Way(p)' /\ ~Holds(p)'
        /\ ~Deciding(p)' /\ ~Posts(p)' /\ op'[p] = "none"
    BY <1>23, Over DEF TooLate, RestTyped
  <2>3. Locks'
    BY <1>23, <2>1, <2>2, Others DEF TooLate, RestTyped
  <2> QED
    BY <1>23, <2>1, <2>2, <2>3, Plain DEF TooLate, outside
<1>24. ASSUME NEW p \in Procs, LockVote(p) PROVE Locks' /\ Story'
  <2>1. \A q \in Procs : q # p => Kept(q)
    BY <1>24 DEF LockVote, Goto, Kept, TasksTyped
  <2>2. Way(p)'
    BY <1>24 DEF LockVote, Goto, Locks, Paths, Way, TasksTyped
  <2>3. /\ lock'[p] \in Nat /\ lock'[p] <= gen' /\ gen' \in {gen, gen + 1}
        /\ Holds(p)' => lock'[p] = lock[p] /\ (Holds(p) \/ Free(p))
    BY <1>24 DEF LockVote, Goto, Locks, Numbered, Paths, Way, Holds, TasksTyped, RestTyped
  <2>4. Locks'
    BY <2>1, <2>2, <2>3, Others DEF RestTyped
  <2>5. /\ ~Deciding(p)' /\ (Posts(p)' => Posts(p))
        /\ pc'[p] \notin {"drop", "insert", "lastCall", "unclaim"}
        /\ row.status = Absent => pc'[p] \in {"idle", "reminders", "due"}
    BY <1>24 DEF LockVote, Goto, Deciding, Posts, Story, Begun, Absent, TasksTyped
  <2> QED
    BY <1>24, <2>1, <2>4, <2>5, Plain DEF LockVote, outside
<1>25. ASSUME BeginPass PROVE Locks' /\ Story'
  <2>1. \A q \in Procs : q # Loop => Kept(q)
    BY <1>25 DEF BeginPass, Goto, Kept, TasksTyped
  <2>2. Way(Loop)'
    BY <1>25, Names DEF BeginPass, Goto, Locks, Paths, Way, TasksTyped
  <2>3. /\ lock'[Loop] \in Nat /\ lock'[Loop] <= gen' /\ gen' \in {gen, gen + 1}
        /\ Holds(Loop)' => lock'[Loop] = lock[Loop] /\ (Holds(Loop) \/ Free(Loop))
    BY <1>25, Names DEF BeginPass, Goto, Locks, Numbered, Paths, Way, Holds, TasksTyped, RestTyped
  <2>4. Locks'
    BY <2>1, <2>2, <2>3, Others, Names DEF RestTyped
  <2>5. /\ ~Deciding(Loop)' /\ (Posts(Loop)' => Posts(Loop))
        /\ pc'[Loop] \notin {"drop", "insert", "lastCall", "unclaim"}
        /\ row.status = Absent => pc'[Loop] \in {"idle", "reminders", "due"}
    BY <1>25, Names DEF BeginPass, Goto, Deciding, Posts, Story, Begun, Absent, TasksTyped
  <2> QED
    BY <1>25, <2>1, <2>4, <2>5, Plain, Names DEF BeginPass, outside
<1>26. ASSUME RemindersDue PROVE Locks' /\ Story'
  <2>1. \A q \in Procs : q # Loop => Kept(q)
    BY <1>26 DEF RemindersDue, Goto, LoopGoto, Kept, TasksTyped
  <2>2. Way(Loop)'
    BY <1>26, Names DEF RemindersDue, Goto, LoopGoto, Locks, Paths, Way, TasksTyped
  <2>3. /\ lock'[Loop] \in Nat /\ lock'[Loop] <= gen' /\ gen' \in {gen, gen + 1}
        /\ Holds(Loop)' => lock'[Loop] = lock[Loop] /\ (Holds(Loop) \/ Free(Loop))
    BY <1>26, Names
       DEF RemindersDue, Goto, LoopGoto, Locks, Numbered, Paths, Way, Holds, TasksTyped, RestTyped
  <2>4. Locks'
    BY <2>1, <2>2, <2>3, Others, Names DEF RestTyped
  <2>5. /\ ~Deciding(Loop)' /\ (Posts(Loop)' => Posts(Loop))
        /\ pc'[Loop] \notin {"drop", "insert", "lastCall", "unclaim"}
        /\ row.status = Absent => pc'[Loop] \in {"idle", "reminders", "due"}
    BY <1>26, Names
       DEF RemindersDue, Goto, LoopGoto, WantsLastCall, Deciding, Posts, Story, Begun, Absent,
           TasksTyped
  <2> QED
    BY <1>26, <2>1, <2>4, <2>5, Plain, Names DEF RemindersDue, LoopGoto, outside
<1>27. ASSUME ClaimReminder PROVE Locks' /\ Story'
  <2>1. \A q \in Procs : q # Loop => Kept(q)
    BY <1>27 DEF ClaimReminder, Goto, LoopGoto, Kept, TasksTyped
  <2>2. Way(Loop)'
    BY <1>27, Names DEF ClaimReminder, Goto, LoopGoto, Locks, Paths, Way, TasksTyped
  <2>3. /\ lock'[Loop] \in Nat /\ lock'[Loop] <= gen' /\ gen' \in {gen, gen + 1}
        /\ Holds(Loop)' => lock'[Loop] = lock[Loop] /\ (Holds(Loop) \/ Free(Loop))
    BY <1>27, Names
       DEF ClaimReminder, Goto, LoopGoto, Locks, Numbered, Paths, Way, Holds, TasksTyped, RestTyped
  <2>4. Locks'
    BY <2>1, <2>2, <2>3, Others, Names DEF RestTyped
  <2>5. /\ pc[Loop] = "claim" /\ op'[Loop] = op[Loop]
        /\ pc'[Loop] = IF row.reminded THEN "due" ELSE "lastCall"
        /\ row'.status = row.status /\ row'.reminded = TRUE
        /\ row'.held = row.held /\ row'.surface = row.surface
        /\ UNCHANGED <<votes, gen, sent, lastCalls, decisions, crashes>>
    BY <1>27, Names DEF ClaimReminder, Goto, LoopGoto, TasksTyped, StoreTyped, Rows
  <2>6. FirstLock'
    BY <2>1, <2>5, Names DEF Story, FirstLock, Deciding, Undecided, Absent, Kept
  <2>7. Begun'
    BY <2>1, <2>5, Names DEF Story, Begun, Absent, Kept
  <2>8. Surfaced'
    BY <2>1, <2>5, Names DEF Story, Surfaced
  <2>9. Record'
    BY <2>1, <2>5, Names DEF Story, Record, DecidedOnce, Deciding, Kept, Begun, Absent
  <2>10. Poster'
    BY <2>1, <2>5, Names DEF Story, Poster, Posts, Deciding, Approval, Undecided, Absent, Kept
  <2>11. Reminder'
    BY <2>1, <2>5, Names DEF Story, Reminder, Kept, RestTyped
  <2>12. Answered'
    BY <2>1, <2>5, Names DEF Story, Answered, Sole, AnswerOf, Kept
  <2> QED
    BY <2>4, <2>6, <2>7, <2>8, <2>9, <2>10, <2>11, <2>12 DEF Story
<1>28. ASSUME LastCall PROVE Locks' /\ Story'
  <2>1. \A q \in Procs : q # Loop => Kept(q)
    BY <1>28 DEF LastCall, Goto, LoopGoto, Kept, TasksTyped
  <2>2. Way(Loop)'
    BY <1>28, Names DEF LastCall, Goto, LoopGoto, Locks, Paths, Way, TasksTyped
  <2>3. /\ lock'[Loop] \in Nat /\ lock'[Loop] <= gen' /\ gen' \in {gen, gen + 1}
        /\ Holds(Loop)' => lock'[Loop] = lock[Loop] /\ (Holds(Loop) \/ Free(Loop))
    BY <1>28, Names
       DEF LastCall, Goto, LoopGoto, Locks, Numbered, Paths, Way, Holds, TasksTyped, RestTyped
  <2>4. Locks'
    BY <2>1, <2>2, <2>3, Others, Names DEF RestTyped
  <2>5. /\ pc[Loop] = "lastCall" /\ pc'[Loop] = "due" /\ op'[Loop] = op[Loop]
        /\ lastCalls' = lastCalls + 1
        /\ UNCHANGED <<row, votes, gen, sent, decisions, crashes>>
    BY <1>28, Names DEF LastCall, Goto, LoopGoto, TasksTyped
  <2>6. FirstLock'
    BY <2>1, <2>5, Names DEF Story, FirstLock, Deciding, Undecided, Absent, Kept
  <2>7. Begun'
    BY <2>1, <2>5, Names DEF Story, Begun, Absent, Kept
  <2>8. Surfaced'
    BY <2>1, <2>5, Names DEF Story, Surfaced
  <2>9. Record'
    BY <2>1, <2>5, Names DEF Story, Record, DecidedOnce, Deciding, Kept, Begun, Absent
  <2>10. Poster'
    BY <2>1, <2>5, Names DEF Story, Poster, Posts, Deciding, Approval, Undecided, Absent, Kept
  <2>11. Reminder'
    BY <2>1, <2>5, Names DEF Story, Reminder, Kept, RestTyped
  <2>12. Answered'
    BY <2>1, <2>5, Names DEF Story, Answered, Sole, AnswerOf, Kept
  <2> QED
    BY <2>4, <2>6, <2>7, <2>8, <2>9, <2>10, <2>11, <2>12 DEF Story
<1>29. ASSUME LastCallRefused PROVE Locks' /\ Story'
  <2>1. \A q \in Procs : q # Loop => Kept(q)
    BY <1>29 DEF LastCallRefused, Goto, LoopGoto, Kept, TasksTyped
  <2>2. Way(Loop)'
    BY <1>29, Names DEF LastCallRefused, Goto, LoopGoto, Locks, Paths, Way, TasksTyped
  <2>3. /\ lock'[Loop] \in Nat /\ lock'[Loop] <= gen' /\ gen' \in {gen, gen + 1}
        /\ Holds(Loop)' => lock'[Loop] = lock[Loop] /\ (Holds(Loop) \/ Free(Loop))
    BY <1>29, Names
       DEF LastCallRefused, Goto, LoopGoto, Locks, Numbered, Paths, Way, Holds, TasksTyped,
           RestTyped
  <2>4. Locks'
    BY <2>1, <2>2, <2>3, Others, Names DEF RestTyped
  <2>5. /\ pc[Loop] = "lastCall" /\ pc'[Loop] = "unclaim" /\ op'[Loop] = op[Loop]
        /\ UNCHANGED <<row, votes, gen, sent, lastCalls, decisions, crashes>>
    BY <1>29, Names DEF LastCallRefused, Goto, LoopGoto, TasksTyped
  <2>6. FirstLock'
    BY <2>1, <2>5, Names DEF Story, FirstLock, Deciding, Undecided, Absent, Kept
  <2>7. Begun'
    BY <2>1, <2>5, Names DEF Story, Begun, Absent, Kept
  <2>8. Surfaced'
    BY <2>1, <2>5, Names DEF Story, Surfaced
  <2>9. Record'
    BY <2>1, <2>5, Names DEF Story, Record, DecidedOnce, Deciding, Kept, Begun, Absent
  <2>10. Poster'
    BY <2>1, <2>5, Names DEF Story, Poster, Posts, Deciding, Approval, Undecided, Absent, Kept
  <2>11. Reminder'
    BY <2>1, <2>5, Names DEF Story, Reminder, Kept
  <2>12. Answered'
    BY <2>1, <2>5, Names DEF Story, Answered, Sole, AnswerOf, Kept
  <2> QED
    BY <2>4, <2>6, <2>7, <2>8, <2>9, <2>10, <2>11, <2>12 DEF Story
<1>30. ASSUME ClearReminder PROVE Locks' /\ Story'
  <2>1. \A q \in Procs : q # Loop => Kept(q)
    BY <1>30 DEF ClearReminder, Goto, LoopGoto, Kept, TasksTyped
  <2>2. Way(Loop)'
    BY <1>30, Names DEF ClearReminder, Goto, LoopGoto, Locks, Paths, Way, TasksTyped
  <2>3. /\ lock'[Loop] \in Nat /\ lock'[Loop] <= gen' /\ gen' \in {gen, gen + 1}
        /\ Holds(Loop)' => lock'[Loop] = lock[Loop] /\ (Holds(Loop) \/ Free(Loop))
    BY <1>30, Names
       DEF ClearReminder, Goto, LoopGoto, Locks, Numbered, Paths, Way, Holds, TasksTyped, RestTyped
  <2>4. Locks'
    BY <2>1, <2>2, <2>3, Others, Names DEF RestTyped
  <2>5. /\ pc[Loop] = "unclaim" /\ pc'[Loop] = "due" /\ op'[Loop] = op[Loop]
        /\ row'.status = row.status
        /\ row'.held = row.held /\ row'.surface = row.surface
        /\ UNCHANGED <<votes, gen, sent, lastCalls, decisions, crashes>>
    BY <1>30, Names DEF ClearReminder, Goto, LoopGoto, TasksTyped, StoreTyped, Rows
  <2>6. FirstLock'
    BY <2>1, <2>5, Names DEF Story, FirstLock, Deciding, Undecided, Absent, Kept
  <2>7. Begun'
    BY <2>1, <2>5, Names DEF Story, Begun, Absent, Kept
  <2>8. Surfaced'
    BY <2>1, <2>5, Names DEF Story, Surfaced
  <2>9. Record'
    BY <2>1, <2>5, Names DEF Story, Record, DecidedOnce, Deciding, Kept, Begun, Absent
  <2>10. Poster'
    BY <2>1, <2>5, Names DEF Story, Poster, Posts, Deciding, Approval, Undecided, Absent, Kept
  <2>11. Reminder'
    BY <2>1, <2>5, Names DEF Story, Reminder, Kept
  <2>12. Answered'
    BY <2>1, <2>5, Names DEF Story, Answered, Sole, AnswerOf, Kept
  <2> QED
    BY <2>4, <2>6, <2>7, <2>8, <2>9, <2>10, <2>11, <2>12 DEF Story
<1>31. ASSUME CloseDue PROVE Locks' /\ Story'
  <2>1. \A q \in Procs : q # Loop => Kept(q)
    BY <1>31 DEF CloseDue, Queue, Kept, TasksTyped
  <2>2. Way(Loop)'
    BY <1>31, Names DEF CloseDue, Queue, Locks, Paths, Way, TasksTyped
  <2>3. /\ lock'[Loop] \in Nat /\ lock'[Loop] <= gen' /\ gen' \in {gen, gen + 1}
        /\ Holds(Loop)' => lock'[Loop] = lock[Loop] /\ (Holds(Loop) \/ Free(Loop))
    BY <1>31, Names DEF CloseDue, Queue, Locks, Numbered, Paths, Way, Holds, TasksTyped, RestTyped
  <2>4. Locks'
    BY <2>1, <2>2, <2>3, Others, Names DEF RestTyped
  <2>5. /\ ~Deciding(Loop)' /\ (Posts(Loop)' => Posts(Loop))
        /\ pc'[Loop] \notin {"drop", "insert", "lastCall", "unclaim"}
        /\ row.status = Absent => pc'[Loop] \in {"idle", "reminders", "due"}
    BY <1>31, Names DEF CloseDue, Queue, Deciding, Posts, Story, Begun, Absent, TasksTyped
  <2> QED
    BY <1>31, <2>1, <2>4, <2>5, Plain, Names DEF CloseDue, outside
<1>32. ASSUME NothingDue PROVE Locks' /\ Story'
  <2>1. \A q \in Procs : q # Loop => Kept(q)
    BY <1>32 DEF NothingDue, Finish, Kept, TasksTyped
  <2>2. pc'[Loop] = "idle" /\ lock'[Loop] = 0 /\ lock'[Loop] <= gen /\ Way(Loop)' /\ ~Holds(Loop)'
        /\ ~Deciding(Loop)' /\ ~Posts(Loop)' /\ op'[Loop] = "none"
    BY <1>32, Over, Names DEF NothingDue, RestTyped
  <2>3. Locks'
    BY <1>32, <2>1, <2>2, Others, Names DEF NothingDue, RestTyped
  <2> QED
    BY <1>32, <2>1, <2>2, <2>3, Plain, Names DEF NothingDue, outside
<1>33. ASSUME Archive PROVE Locks' /\ Story'
  <2>1. \A q \in Procs : pc[q] = "idle"
    BY <1>33 DEF Archive, Quiet
  <2>2. /\ row.status \in {"closed", "cancelled"} /\ votes' \in {votes, {}}
        /\ UNCHANGED <<pc, op, lock, gen, answer, sent, lastCalls, decisions, crashes>>
    BY <1>33, Moves DEF Archive, taskVars, outside
  <2>3. /\ row'.status = "archived" /\ row'.reminded = row.reminded
        /\ row'.held = row.held /\ row'.surface = row.surface
    BY <1>33 DEF Archive, StoreTyped, Rows
  <2>4. Locks'
    BY <2>2 DEF Locks, Paths, Way, Numbered, Excluded, Holds
  <2>5. \A q \in Procs : ~Deciding(q)' /\ ~Posts(q)' /\ pc'[q] = "idle"
    BY <2>1, <2>2 DEF Deciding, Posts
  <2>6. FirstLock' /\ Begun' /\ Surfaced'
    BY <2>3, <2>5 DEF Story, FirstLock, Begun, Surfaced, Undecided, Absent
  <2>7. Record'
    BY <2>2, <2>3, <2>5 DEF Story, Record, DecidedOnce, Absent
  <2>8. Poster'
    <3>1. Approval' <=> Approval
      BY <2>2 DEF Approval
    <3> QED
      BY <2>2, <2>3, <2>5, <3>1 DEF Story, Poster, Undecided, Absent
  <2>9. Reminder'
    BY <2>2, <2>3, <2>5, Names DEF Story, Reminder
  <2>10. Answered'
    BY <2>2, <2>5 DEF Story, Answered, Sole, AnswerOf
  <2> QED
    BY <2>4, <2>6, <2>7, <2>8, <2>9, <2>10 DEF Story
<1>34. ASSUME Tick PROVE Locks' /\ Story'
  BY <1>34, Same DEF Tick, taskVars, outside
<1>35. ASSUME Crash PROVE Locks' /\ Story'
  <2>1. /\ gen' = 0 /\ crashes' = crashes + 1
        /\ UNCHANGED <<row, sent, lastCalls, decisions>>
    BY <1>35 DEF Crash, outside
  <2>2. \A q \in Procs : pc'[q] = "idle" /\ op'[q] = "none" /\ lock'[q] = 0
    BY <1>35 DEF Crash
  <2>3. \A q \in Procs : ~Deciding(q)' /\ ~Posts(q)' /\ ~Holds(q)' /\ Way(q)'
    BY <2>2 DEF Deciding, Posts, Holds, Way
  <2>4. Locks'
    BY <2>1, <2>2, <2>3 DEF Locks, Paths, Numbered, Excluded
  <2>5. FirstLock' /\ Begun' /\ Surfaced'
    BY <2>1, <2>2, <2>3 DEF Story, FirstLock, Begun, Surfaced
  <2>6. Record'
    BY <2>1, <2>3 DEF Story, Record, DecidedOnce
  <2>7. Poster'
    <3>1. Approval' <=> Approval
      BY <2>1 DEF Approval
    <3> QED
      BY <2>1, <2>3, <3>1 DEF Story, Poster
  <2>8. Reminder'
    BY <2>1, <2>2, Names DEF Story, Reminder
  <2>9. Answered'
    BY <2>1 DEF Answered, RestTyped
  <2> QED
    BY <2>4, <2>5, <2>6, <2>7, <2>8, <2>9 DEF Story
<1>37. ASSUME NEW p \in Procs, CountPanel(p) PROVE Locks' /\ Story'
  <2>1. \A q \in Procs : q # p => Kept(q)
    BY <1>37 DEF CountPanel, Goto, Kept, TasksTyped
  <2>2. Way(p)'
    BY <1>37, Over DEF CountPanel, Goto, Locks, Paths, Way, TasksTyped, RestTyped
  <2>3. /\ lock'[p] \in Nat /\ lock'[p] <= gen' /\ gen' \in {gen, gen + 1}
        /\ Holds(p)' => lock'[p] = lock[p] /\ (Holds(p) \/ Free(p))
    BY <1>37 DEF CountPanel, Goto, Locks, Numbered, Paths, Way, Holds, TasksTyped, RestTyped
  <2>4. Locks'
    BY <2>1, <2>2, <2>3, Others DEF RestTyped
  <2>5. /\ ~Deciding(p)' /\ (Posts(p)' => Posts(p))
        /\ pc'[p] \notin {"drop", "insert", "lastCall", "unclaim"}
        /\ row.status = Absent => pc'[p] \in {"idle", "reminders", "due"}
    BY <1>37, Over DEF CountPanel, Goto, Deciding, Posts, Story, Begun, Absent, TasksTyped,
           RestTyped
  <2> QED
    BY <1>37, <2>1, <2>4, <2>5, Plain DEF CountPanel, outside
<1>38. ASSUME NEW p \in Procs, FetchMessage(p) PROVE Locks' /\ Story'
  <2>1. \A q \in Procs : q # p => Kept(q)
    BY <1>38 DEF FetchMessage, Goto, Kept, TasksTyped
  <2>2. Way(p)'
    BY <1>38, Over DEF FetchMessage, Goto, Locks, Paths, Way, TasksTyped, RestTyped
  <2>3. /\ lock'[p] \in Nat /\ lock'[p] <= gen' /\ gen' \in {gen, gen + 1}
        /\ Holds(p)' => lock'[p] = lock[p] /\ (Holds(p) \/ Free(p))
    BY <1>38 DEF FetchMessage, Goto, Locks, Numbered, Paths, Way, Holds, TasksTyped, RestTyped
  <2>4. Locks'
    BY <2>1, <2>2, <2>3, Others DEF RestTyped
  <2>5. /\ ~Deciding(p)' /\ (Posts(p)' => Posts(p))
        /\ pc'[p] \notin {"drop", "insert", "lastCall", "unclaim"}
        /\ row.status = Absent => pc'[p] \in {"idle", "reminders", "due"}
    BY <1>38, Over DEF FetchMessage, Goto, Deciding, Posts, Story, Begun, Absent, TasksTyped,
           RestTyped
  <2> QED
    BY <1>38, <2>1, <2>4, <2>5, Plain DEF FetchMessage, outside
<1>39. ASSUME NEW p \in Procs, NoMessage(p) PROVE Locks' /\ Story'
  <2>1. \A q \in Procs : q # p => Kept(q)
    BY <1>39 DEF NoMessage, Finish, Kept, TasksTyped
  <2>2. Way(p)'
    BY <1>39, Over DEF NoMessage, Finish, Locks, Paths, Way, TasksTyped, RestTyped
  <2>3. /\ lock'[p] \in Nat /\ lock'[p] <= gen' /\ gen' \in {gen, gen + 1}
        /\ Holds(p)' => lock'[p] = lock[p] /\ (Holds(p) \/ Free(p))
    BY <1>39 DEF NoMessage, Finish, Locks, Numbered, Paths, Way, Holds, TasksTyped, RestTyped
  <2>4. Locks'
    BY <2>1, <2>2, <2>3, Others DEF RestTyped
  <2>5. /\ ~Deciding(p)' /\ (Posts(p)' => Posts(p))
        /\ pc'[p] \notin {"drop", "insert", "lastCall", "unclaim"}
        /\ row.status = Absent => pc'[p] \in {"idle", "reminders", "due"}
    BY <1>39, Over DEF NoMessage, Finish, Deciding, Posts, Story, Begun, Absent, TasksTyped,
           RestTyped
  <2> QED
    BY <1>39, <2>1, <2>4, <2>5, Plain DEF NoMessage, outside
<1>36. CASE UNCHANGED vars
  BY <1>36, Same DEF vars
<1> QED
  BY <1>1, <1>2, <1>3, <1>4, <1>5, <1>6, <1>7, <1>8, <1>9, <1>10, <1>11, <1>12, <1>13, <1>14,
     <1>15, <1>16, <1>17, <1>18, <1>19, <1>20, <1>21, <1>22, <1>23, <1>24, <1>25, <1>26, <1>27,
     <1>28, <1>29, <1>30, <1>31, <1>32, <1>33, <1>34, <1>35, <1>36, <1>37, <1>38, <1>39
     DEF Next, Start, Proceed, Enter, Pass

\* The properties themselves.

\* However the steps come, the invariant holds.
THEOREM PollsSafe == Spec => []Safe
  BY SafeInit, SafeStep, PTL DEF Spec

\* Every variable has its type.
THEOREM PollsTyped == Spec => []TypeOK
<1>1. Safe => TypeOK
  BY DEF Safe
<1> QED
  BY <1>1, PollsSafe, PTL

\* A poll is approved once, and denied at most once before that.
THEOREM StaffDecideOnce == Spec => []DecidedOnce
<1>1. Safe => DecidedOnce
  BY DEF Safe, Story, Record
<1> QED
  BY <1>1, PollsSafe, PTL

\* A poll is posted once, and one held for review only when it was approved.
THEOREM APollIsPostedOnce == Spec => []PostedOnce
<1>1. Safe => PostedOnce
  BY DEF Safe, Story, Poster, Approval, PostedOnce
<1> QED
  BY <1>1, PollsSafe, PTL

\* Nobody is told twice that the poll is about to close.
THEOREM OneLastCall == Spec => []LastCallOnce
<1>1. Safe => LastCallOnce
  BY DEF Safe, Story, Reminder, LastCallOnce
<1> QED
  BY <1>1, PollsSafe, PTL

\* As long as there is one lock object, nobody has two answers.
THEOREM AnswersAreReplaced == Spec => []OneAnswerEach
<1>1. Safe => OneAnswerEach
  <2> SUFFICES ASSUME Safe, gen = 0, crashes = 0, NEW v \in Voters
               PROVE  Cardinality(AnswerOf(v)) <= 1
    BY DEF OneAnswerEach
  <2>1. \A x, y \in AnswerOf(v) : x = y
    BY DEF Safe, Story, Answered, Sole
  <2>2. CASE AnswerOf(v) = {}
    BY <2>2, FS_EmptySet
  <2>3. CASE AnswerOf(v) # {}
    <3>1. PICK x : AnswerOf(v) = {x}
      BY <2>1, <2>3
    <3> QED
      BY <3>1, FS_Singleton
  <2> QED
    BY <2>2, <2>3
<1> QED
  BY <1>1, PollsSafe, PTL

-------------------------------------------------------------------------------
(* A closed poll is counted.  The argument rests on the lock table only for the  *)
(* votes: whoever is between DELETE and INSERT when the first lock is taken out  *)
(* of the table would have to hold it, and whoever comes later is late.          *)

\* The task that closed the poll, before the results are there.
Writes(p) ==
    /\ op[p] = "close"
    /\ pc[p] \in IF row.surface = "panel" THEN {"drop", "count", "save"}
                                           ELSE {"drop", "fetch", "end", "save"}

\* The poll is closed for the first time, and its lock is gone.
ClosedOnce == /\ gen = 1 /\ row.status = "closed" /\ row.surface = "panel"
              /\ \A p \in Procs : pc[p] # "drop"

VotesOf(v, set) == {x \in set : x[1] = v}
InTime == Voters \ late

Fresh    == gen = 0 => /\ ~results.row
                       /\ \A p \in Procs : pc[p] \notin {"count", "save", "fetch", "end"}
Accounted == row.status = "closed" => \/ results.row
                                      \/ row.surface # "panel" /\ results.failed
                                      \/ \E p \in Procs : Writes(p)
Exact    == ClosedOnce =>
                /\ \A p \in Procs : pc[p] = "insert" => answer[p][1] \in late
                /\ \A p \in Procs : pc[p] = "save" =>
                      \A v \in InTime : VotesOf(v, tally[p]) = VotesOf(v, votes)
                /\ results.row =>
                      \A v \in InTime : VotesOf(v, results.votes) = VotesOf(v, votes)
Counted  == Fresh /\ Accounted /\ Exact
Counting == crashes = 0 => Counted

Stays(q) == Kept(q) /\ tally'[q] = tally[q]

\* A step of one task that neither closes the poll nor counts it.
LEMMA Apart ==
    ASSUME Counted, NEW p \in Procs, \A q \in Procs : q # p => Stays(q),
           UNCHANGED <<votes, results, late, gen>>,
           row'.status = "closed" => /\ row.status = "closed" /\ ~Writes(p)
                                     /\ row'.surface = row.surface,
           pc[p] # "drop",
           pc'[p] \notin {"drop", "count", "save", "fetch", "end", "insert"}
    PROVE  Counted'
<1>1. Fresh'
  BY DEF Counted, Fresh, Stays, Kept
<1>2. Accounted'
  <2> SUFFICES ASSUME row'.status = "closed", ~results.row,
                      ~(row.surface # "panel" /\ results.failed)
               PROVE  \E q \in Procs : Writes(q)'
    BY DEF Accounted
  <2>1. PICK q \in Procs : Writes(q)
    BY DEF Counted, Accounted
  <2>2. q # p
    BY <2>1
  <2> QED
    BY <2>1, <2>2 DEF Writes, Stays, Kept
<1>3. Exact'
  <2> SUFFICES ASSUME ClosedOnce' PROVE Exact'
    BY DEF Exact
  <2>1. ClosedOnce
    BY DEF ClosedOnce, Stays, Kept
  <2>2. \A q \in Procs : /\ pc'[q] = "insert" => pc[q] = "insert" /\ answer'[q] = answer[q]
                         /\ pc'[q] = "save" => pc[q] = "save" /\ tally'[q] = tally[q]
    BY DEF Stays, Kept
  <2> QED
    BY <2>1, <2>2 DEF Counted, Exact, InTime, VotesOf
<1> QED
  BY <1>1, <1>2, <1>3 DEF Counted

\* A step of one task that goes on counting: what it did not count it leaves alone.
LEMMA Along ==
    ASSUME Counted, NEW p \in Procs, \A q \in Procs : q # p => Stays(q),
           UNCHANGED <<row, votes, late, gen>>,
           pc[p] \in {"count", "save", "fetch", "end"}, pc'[p] \notin {"drop", "insert"},
           results.row => results'.row, results.failed => results'.failed,
           Writes(p) => \/ Writes(p)' \/ results'.row
                        \/ row.surface # "panel" /\ results'.failed,
           ClosedOnce => /\ pc'[p] = "save" => tally'[p] = votes
                         /\ \/ UNCHANGED results
                            \/ pc[p] = "save" /\ results'.votes = tally[p]
    PROVE  Counted'
<1>1. gen # 0
  BY DEF Counted, Fresh
<1>2. Fresh'
  BY <1>1 DEF Fresh
<1>3. Accounted'
  <2> SUFFICES ASSUME row.status = "closed", ~results'.row,
                      ~(row.surface # "panel" /\ results'.failed)
               PROVE  \E q \in Procs : Writes(q)'
    BY DEF Accounted
  <2>1. PICK q \in Procs : Writes(q)
    BY DEF Counted, Accounted
  <2>2. CASE q = p
    BY <2>1, <2>2
  <2>3. CASE q # p
    BY <2>1, <2>3 DEF Writes, Stays, Kept
  <2> QED
    BY <2>2, <2>3
<1>4. Exact'
  <2> SUFFICES ASSUME ClosedOnce' PROVE Exact'
    BY DEF Exact
  <2>1. ClosedOnce
    BY DEF ClosedOnce, Stays, Kept
  <2>2. \A q \in Procs : pc'[q] = "insert" => answer'[q][1] \in late
    BY <2>1 DEF Counted, Exact, Stays, Kept
  <2>3. ASSUME NEW q \in Procs, pc'[q] = "save", NEW v \in InTime
        PROVE  VotesOf(v, tally'[q]) = VotesOf(v, votes)
    <3>1. CASE q = p
      BY <2>1, <2>3, <3>1
    <3>2. CASE q # p
      BY <2>1, <2>3, <3>2 DEF Counted, Exact, Stays, Kept
    <3> QED
      BY <3>1, <3>2
  <2>4. ASSUME results'.row, NEW v \in InTime
        PROVE  VotesOf(v, results'.votes) = VotesOf(v, votes)
    <3>1. CASE UNCHANGED results
      BY <2>1, <2>4, <3>1 DEF Counted, Exact
    <3>2. CASE pc[p] = "save" /\ results'.votes = tally[p]
      BY <2>1, <2>4, <3>2 DEF Counted, Exact
    <3> QED
      BY <2>1, <3>1, <3>2
  <2> QED
    BY <2>2, <2>3, <2>4 DEF Exact, InTime, VotesOf
<1> QED
  BY <1>2, <1>3, <1>4 DEF Counted

\* A vote that is written after the lock is gone is a late one.
LEMMA Revoted ==
    ASSUME Counted, NEW p \in Procs, NEW v \in Voters,
           \A q \in Procs : q # p => Stays(q),
           UNCHANGED <<row, results, gen>>, late \subseteq late',
           pc[p] \in {"delete", "insert"}, op[p] = "vote", pc'[p] \in {"insert", "repaint"},
           \A w \in Voters : w # v => VotesOf(w, votes') = VotesOf(w, votes),
           ClosedOnce => v \in late' /\ (pc'[p] = "insert" => answer'[p][1] \in late')
    PROVE  Counted'
<1>1. Fresh'
  BY DEF Counted, Fresh, Stays, Kept
<1>2. Accounted'
  <2>1. \A q \in Procs : Writes(q) => q # p /\ Writes(q)'
    BY DEF Writes, Stays, Kept
  <2> QED
    BY <2>1 DEF Counted, Accounted
<1>3. Exact'
  <2> SUFFICES ASSUME ClosedOnce' PROVE Exact'
    BY DEF Exact
  <2>1. ClosedOnce
    BY DEF ClosedOnce, Stays, Kept
  <2>2. \A q \in Procs : pc'[q] = "insert" => answer'[q][1] \in late'
    BY <2>1 DEF Counted, Exact, Stays, Kept
  <2>3. \A w \in Voters \ late' : w \in InTime /\ VotesOf(w, votes') = VotesOf(w, votes)
    BY <2>1 DEF InTime
  <2>4. \A q \in Procs : pc'[q] = "save" =>
           \A w \in Voters \ late' : VotesOf(w, tally'[q]) = VotesOf(w, votes')
    BY <2>1, <2>3 DEF Counted, Exact, Stays, Kept
  <2>5. results'.row =>
           \A w \in Voters \ late' : VotesOf(w, results'.votes) = VotesOf(w, votes')
    BY <2>1, <2>3 DEF Counted, Exact
  <2> QED
    BY <2>2, <2>4, <2>5 DEF Exact, InTime, VotesOf
<1> QED
  BY <1>1, <1>2, <1>3 DEF Counted

LEMMA CountingInit == Init => Counting
  BY DEF Init, Counting, Counted, Fresh, Accounted, Exact, ClosedOnce, NoResults, NoPoll, Absent

\* Every step keeps the account.
LEMMA CountingStep == Safe /\ Counting /\ [Next]_vars => Counting'
<1> SUFFICES ASSUME TasksTyped, StoreTyped, RestTyped, Locks, Counted, [Next]_vars,
                    crashes' = crashes
             PROVE  Counted'
  <2>1. ASSUME NEW p \in Procs, Start(p) PROVE crashes' = crashes
    BY <2>1 DEF Start, Press, Create, PressVote
  <2>2. ASSUME NEW p \in Procs, Proceed(p) PROVE crashes' = crashes
    <3>1. CASE \/ SendCard(p) \/ CancelUnreviewed(p) \/ Send(p) \/ SendRefused(p)
               \/ SetPosted(p) \/ SetOpen(p) \/ CancelUnposted(p) \/ SetStatus(p)
      BY <3>1 DEF SendCard, CancelUnreviewed, Send, SendRefused, SetPosted, SetOpen,
                  CancelUnposted, SetStatus
    <3>2. CASE \/ Approved(p) \/ Denied(p) \/ DropLock(p) \/ CountPanel(p) \/ SaveResults(p)
               \/ FetchMessage(p) \/ NoMessage(p) \/ EndVote(p) \/ EndRefused(p)
      BY <3>2 DEF Approved, Denied, DropLock, CountPanel, SaveResults, FetchMessage, NoMessage,
                  EndVote, EndRefused
    <3>3. CASE CastVote(p) \/ DeleteVotes(p) \/ InsertVotes(p) \/ Repaint(p)
      BY <3>3 DEF CastVote, DeleteVotes, InsertVotes, Repaint
    <3> QED
      BY <2>2, <3>1, <3>2, <3>3 DEF Proceed
  <2>3. ASSUME NEW p \in Procs, Enter(p) PROVE crashes' = crashes
    BY <2>3 DEF Enter, Reread, TooLate, LockVote
  <2>4. ASSUME Pass PROVE crashes' = crashes
    BY <2>4 DEF Pass, BeginPass, RemindersDue, ClaimReminder, LastCall, LastCallRefused,
                ClearReminder, CloseDue, NothingDue, LoopGoto
  <2>5. Archive \/ Tick \/ UNCHANGED vars => crashes' = crashes
    BY DEF Archive, Tick, vars
  <2>6. [Next]_vars => crashes' = crashes \/ Crash
    BY <2>1, <2>2, <2>3, <2>4, <2>5 DEF Next
  <2>7. Safe /\ Crash => crashes' # 0
    <3>1. Safe => crashes \in Nat
      BY DEF Safe, TypeOK
    <3>2. Crash => crashes' = crashes + 1
      BY DEF Crash
    <3> QED
      BY <3>1, <3>2
  <2> QED
    BY <2>6, <2>7, TypeOKParts DEF Safe, Counting
<1>1. ASSUME NEW p \in Procs, NEW o \in Operations, Press(p, o) PROVE Counted'
  <2>1. \A q \in Procs : q # p => Stays(q)
    BY <1>1 DEF Press, Queue, Stays, Kept, TasksTyped
  <2>2. row' = row
    BY <1>1 DEF Press, Queue
  <2>3. /\ UNCHANGED <<votes, results, late, gen>> /\ pc[p] # "drop" /\ ~Writes(p)
        /\ pc'[p] \notin {"drop", "count", "save", "fetch", "end", "insert"}
    BY <1>1 DEF Press, Queue, Writes, TasksTyped
  <2> QED
    BY <2>1, <2>2, <2>3, Apart
<1>2. ASSUME NEW p \in Procs, Create(p) PROVE Counted'
  <2>1. \A q \in Procs : q # p => Stays(q)
    BY <1>2 DEF Create, Stays, Kept, TasksTyped
  <2>2. row'.status # "closed"
    BY <1>2 DEF Create, NoPoll
  <2>3. /\ UNCHANGED <<votes, results, late, gen>> /\ pc[p] # "drop" /\ ~Writes(p)
        /\ pc'[p] \notin {"drop", "count", "save", "fetch", "end", "insert"}
    BY <1>2 DEF Create, Writes, TasksTyped
  <2> QED
    BY <2>1, <2>2, <2>3, Apart
<1>3. ASSUME NEW p \in Procs, PressVote(p) PROVE Counted'
  <2>1. \A q \in Procs : q # p => Stays(q)
    BY <1>3 DEF PressVote, Goto, Stays, Kept, TasksTyped
  <2>2. row' = row
    BY <1>3 DEF PressVote, Goto
  <2>3. /\ UNCHANGED <<votes, results, late, gen>> /\ pc[p] # "drop" /\ ~Writes(p)
        /\ pc'[p] \notin {"drop", "count", "save", "fetch", "end", "insert"}
    BY <1>3 DEF PressVote, Goto, Writes, TasksTyped
  <2> QED
    BY <2>1, <2>2, <2>3, Apart
<1>4. ASSUME NEW p \in Procs, SendCard(p) PROVE Counted'
  <2>1. \A q \in Procs : q # p => Stays(q)
    BY <1>4 DEF SendCard, Finish, Stays, Kept, TasksTyped
  <2>2. row' = row
    BY <1>4 DEF SendCard, Finish
  <2>3. /\ UNCHANGED <<votes, results, late, gen>> /\ pc[p] # "drop" /\ ~Writes(p)
        /\ pc'[p] \notin {"drop", "count", "save", "fetch", "end", "insert"}
    BY <1>4 DEF SendCard, Finish, Writes, TasksTyped
  <2> QED
    BY <2>1, <2>2, <2>3, Apart
<1>5. ASSUME NEW p \in Procs, CancelUnreviewed(p) PROVE Counted'
  <2>1. \A q \in Procs : q # p => Stays(q)
    BY <1>5 DEF CancelUnreviewed, Finish, Stays, Kept, TasksTyped
  <2>2. row'.status # "closed"
    BY <1>5 DEF CancelUnreviewed, StoreTyped, Rows
  <2>3. /\ UNCHANGED <<votes, results, late, gen>> /\ pc[p] # "drop" /\ ~Writes(p)
        /\ pc'[p] \notin {"drop", "count", "save", "fetch", "end", "insert"}
    BY <1>5 DEF CancelUnreviewed, Finish, Writes, TasksTyped
  <2> QED
    BY <2>1, <2>2, <2>3, Apart
<1>6. ASSUME NEW p \in Procs, Send(p) PROVE Counted'
  <2>1. \A q \in Procs : q # p => Stays(q)
    BY <1>6 DEF Send, Goto, Stays, Kept, TasksTyped
  <2>2. row' = row
    BY <1>6 DEF Send, Goto
  <2>3. /\ UNCHANGED <<votes, results, late, gen>> /\ pc[p] # "drop" /\ ~Writes(p)
        /\ pc'[p] \notin {"drop", "count", "save", "fetch", "end", "insert"}
    BY <1>6 DEF Send, Goto, Writes, TasksTyped
  <2> QED
    BY <2>1, <2>2, <2>3, Apart
<1>7. ASSUME NEW p \in Procs, SendRefused(p) PROVE Counted'
  <2>1. \A q \in Procs : q # p => Stays(q)
    BY <1>7 DEF SendRefused, Goto, Stays, Kept, TasksTyped
  <2>2. row' = row
    BY <1>7 DEF SendRefused, Goto
  <2>3. /\ UNCHANGED <<votes, results, late, gen>> /\ pc[p] # "drop" /\ ~Writes(p)
        /\ pc'[p] \notin {"drop", "count", "save", "fetch", "end", "insert"}
    BY <1>7 DEF SendRefused, Goto, Writes, TasksTyped
  <2> QED
    BY <2>1, <2>2, <2>3, Apart
<1>8. ASSUME NEW p \in Procs, SetPosted(p) PROVE Counted'
  <2>1. \A q \in Procs : q # p => Stays(q)
    BY <1>8 DEF SetPosted, Goto, Stays, Kept, TasksTyped
  <2>2. row'.status = row.status /\ row'.surface = row.surface
    BY <1>8 DEF SetPosted, StoreTyped, Rows
  <2>3. /\ UNCHANGED <<votes, results, late, gen>> /\ pc[p] # "drop" /\ ~Writes(p)
        /\ pc'[p] \notin {"drop", "count", "save", "fetch", "end", "insert"}
    BY <1>8 DEF SetPosted, Goto, Writes, TasksTyped
  <2> QED
    BY <2>1, <2>2, <2>3, Apart
<1>9. ASSUME NEW p \in Procs, SetOpen(p) PROVE Counted'
  <2>1. \A q \in Procs : q # p => Stays(q)
    BY <1>9 DEF SetOpen, Finish, Stays, Kept, TasksTyped
  <2>2. row'.status # "closed"
    BY <1>9 DEF SetOpen, StoreTyped, Rows
  <2>3. /\ UNCHANGED <<votes, results, late, gen>> /\ pc[p] # "drop" /\ ~Writes(p)
        /\ pc'[p] \notin {"drop", "count", "save", "fetch", "end", "insert"}
    BY <1>9 DEF SetOpen, Finish, Writes, TasksTyped
  <2> QED
    BY <2>1, <2>2, <2>3, Apart
<1>10. ASSUME NEW p \in Procs, CancelUnposted(p) PROVE Counted'
  <2>1. \A q \in Procs : q # p => Stays(q)
    BY <1>10 DEF CancelUnposted, Finish, Stays, Kept, TasksTyped
  <2>2. row'.status # "closed"
    BY <1>10 DEF CancelUnposted, StoreTyped, Rows
  <2>3. /\ UNCHANGED <<votes, results, late, gen>> /\ pc[p] # "drop" /\ ~Writes(p)
        /\ pc'[p] \notin {"drop", "count", "save", "fetch", "end", "insert"}
    BY <1>10 DEF CancelUnposted, Finish, Writes, TasksTyped
  <2> QED
    BY <2>1, <2>2, <2>3, Apart
<1>11. ASSUME NEW p \in Procs, Approved(p) PROVE Counted'
  <2>1. \A q \in Procs : q # p => Stays(q)
    BY <1>11 DEF Approved, Stays, Kept, TasksTyped
  <2>2. row' = row
    BY <1>11 DEF Approved
  <2>3. /\ UNCHANGED <<votes, results, late, gen>> /\ pc[p] # "drop" /\ ~Writes(p)
        /\ pc'[p] \notin {"drop", "count", "save", "fetch", "end", "insert"}
    BY <1>11 DEF Approved, Writes, TasksTyped
  <2> QED
    BY <2>1, <2>2, <2>3, Apart
<1>12. ASSUME NEW p \in Procs, Denied(p) PROVE Counted'
  <2>1. \A q \in Procs : q # p => Stays(q)
    BY <1>12 DEF Denied, Finish, Stays, Kept, TasksTyped
  <2>2. row' = row
    BY <1>12 DEF Denied, Finish
  <2>3. /\ UNCHANGED <<votes, results, late, gen>> /\ pc[p] # "drop" /\ ~Writes(p)
        /\ pc'[p] \notin {"drop", "count", "save", "fetch", "end", "insert"}
    BY <1>12 DEF Denied, Finish, Writes, TasksTyped
  <2> QED
    BY <2>1, <2>2, <2>3, Apart
<1>13. ASSUME NEW p \in Procs, CastVote(p) PROVE Counted'
  <2>1. \A q \in Procs : q # p => Stays(q)
    BY <1>13 DEF CastVote, Queue, Stays, Kept, TasksTyped
  <2>2. row' = row
    BY <1>13 DEF CastVote, Queue
  <2>3. /\ UNCHANGED <<votes, results, late, gen>> /\ pc[p] # "drop" /\ ~Writes(p)
        /\ pc'[p] \notin {"drop", "count", "save", "fetch", "end", "insert"}
    BY <1>13 DEF CastVote, Queue, Writes, TasksTyped
  <2> QED
    BY <2>1, <2>2, <2>3, Apart
<1>14. ASSUME NEW p \in Procs, Repaint(p) PROVE Counted'
  <2>1. \A q \in Procs : q # p => Stays(q)
    BY <1>14 DEF Repaint, Finish, Stays, Kept, TasksTyped
  <2>2. row' = row
    BY <1>14 DEF Repaint, Finish
  <2>3. /\ UNCHANGED <<votes, results, late, gen>> /\ pc[p] # "drop" /\ ~Writes(p)
        /\ pc'[p] \notin {"drop", "count", "save", "fetch", "end", "insert"}
    BY <1>14 DEF Repaint, Finish, Writes, TasksTyped
  <2> QED
    BY <2>1, <2>2, <2>3, Apart
<1>15. ASSUME NEW p \in Procs, Reread(p) PROVE Counted'
  <2>1. \A q \in Procs : q # p => Stays(q)
    BY <1>15 DEF Reread, Goto, Stays, Kept, TasksTyped
  <2>2. row' = row
    BY <1>15 DEF Reread, Goto
  <2>3. /\ UNCHANGED <<votes, results, late, gen>> /\ pc[p] # "drop" /\ ~Writes(p)
        /\ pc'[p] \notin {"drop", "count", "save", "fetch", "end", "insert"}
    BY <1>15 DEF Reread, Goto, Writes, TasksTyped
  <2> QED
    BY <2>1, <2>2, <2>3, Apart
<1>16. ASSUME NEW p \in Procs, TooLate(p) PROVE Counted'
  <2>1. \A q \in Procs : q # p => Stays(q)
    BY <1>16 DEF TooLate, Finish, Stays, Kept, TasksTyped
  <2>2. row' = row
    BY <1>16 DEF TooLate, Finish
  <2>3. /\ UNCHANGED <<votes, results, late, gen>> /\ pc[p] # "drop" /\ ~Writes(p)
        /\ pc'[p] \notin {"drop", "count", "save", "fetch", "end", "insert"}
    BY <1>16 DEF TooLate, Finish, Writes, TasksTyped
  <2> QED
    BY <2>1, <2>2, <2>3, Apart
<1>17. ASSUME NEW p \in Procs, LockVote(p) PROVE Counted'
  <2>1. \A q \in Procs : q # p => Stays(q)
    BY <1>17 DEF LockVote, Goto, Stays, Kept, TasksTyped
  <2>2. row' = row
    BY <1>17 DEF LockVote, Goto
  <2>3. /\ UNCHANGED <<votes, results, late, gen>> /\ pc[p] # "drop" /\ ~Writes(p)
        /\ pc'[p] \notin {"drop", "count", "save", "fetch", "end", "insert"}
    BY <1>17 DEF LockVote, Goto, Writes, TasksTyped
  <2> QED
    BY <2>1, <2>2, <2>3, Apart
<1>18. ASSUME BeginPass PROVE Counted'
  <2>1. \A q \in Procs : q # Loop => Stays(q)
    BY <1>18 DEF BeginPass, Goto, Stays, Kept, TasksTyped
  <2>2. row' = row
    BY <1>18 DEF BeginPass, Goto
  <2>3. /\ UNCHANGED <<votes, results, late, gen>> /\ pc[Loop] # "drop" /\ ~Writes(Loop)
        /\ pc'[Loop] \notin {"drop", "count", "save", "fetch", "end", "insert"}
    BY <1>18, Names DEF BeginPass, Goto, Writes, TasksTyped
  <2> QED
    BY <2>1, <2>2, <2>3, Apart, Names
<1>19. ASSUME RemindersDue PROVE Counted'
  <2>1. \A q \in Procs : q # Loop => Stays(q)
    BY <1>19 DEF RemindersDue, Goto, LoopGoto, Stays, Kept, TasksTyped
  <2>2. row' = row
    BY <1>19 DEF RemindersDue, Goto, LoopGoto
  <2>3. /\ UNCHANGED <<votes, results, late, gen>> /\ pc[Loop] # "drop" /\ ~Writes(Loop)
        /\ pc'[Loop] \notin {"drop", "count", "save", "fetch", "end", "insert"}
    BY <1>19, Names DEF RemindersDue, Goto, LoopGoto, Writes, TasksTyped
  <2> QED
    BY <2>1, <2>2, <2>3, Apart, Names
<1>20. ASSUME ClaimReminder PROVE Counted'
  <2>1. \A q \in Procs : q # Loop => Stays(q)
    BY <1>20 DEF ClaimReminder, Goto, LoopGoto, Stays, Kept, TasksTyped
  <2>2. row'.status = row.status /\ row'.surface = row.surface
    BY <1>20 DEF ClaimReminder, StoreTyped, Rows
  <2>3. /\ UNCHANGED <<votes, results, late, gen>> /\ pc[Loop] # "drop" /\ ~Writes(Loop)
        /\ pc'[Loop] \notin {"drop", "count", "save", "fetch", "end", "insert"}
    BY <1>20, Names DEF ClaimReminder, Goto, LoopGoto, Writes, TasksTyped
  <2> QED
    BY <2>1, <2>2, <2>3, Apart, Names
<1>21. ASSUME LastCall PROVE Counted'
  <2>1. \A q \in Procs : q # Loop => Stays(q)
    BY <1>21 DEF LastCall, Goto, LoopGoto, Stays, Kept, TasksTyped
  <2>2. row' = row
    BY <1>21 DEF LastCall, Goto, LoopGoto
  <2>3. /\ UNCHANGED <<votes, results, late, gen>> /\ pc[Loop] # "drop" /\ ~Writes(Loop)
        /\ pc'[Loop] \notin {"drop", "count", "save", "fetch", "end", "insert"}
    BY <1>21, Names DEF LastCall, Goto, LoopGoto, Writes, TasksTyped
  <2> QED
    BY <2>1, <2>2, <2>3, Apart, Names
<1>22. ASSUME LastCallRefused PROVE Counted'
  <2>1. \A q \in Procs : q # Loop => Stays(q)
    BY <1>22 DEF LastCallRefused, Goto, LoopGoto, Stays, Kept, TasksTyped
  <2>2. row' = row
    BY <1>22 DEF LastCallRefused, Goto, LoopGoto
  <2>3. /\ UNCHANGED <<votes, results, late, gen>> /\ pc[Loop] # "drop" /\ ~Writes(Loop)
        /\ pc'[Loop] \notin {"drop", "count", "save", "fetch", "end", "insert"}
    BY <1>22, Names DEF LastCallRefused, Goto, LoopGoto, Writes, TasksTyped
  <2> QED
    BY <2>1, <2>2, <2>3, Apart, Names
<1>23. ASSUME ClearReminder PROVE Counted'
  <2>1. \A q \in Procs : q # Loop => Stays(q)
    BY <1>23 DEF ClearReminder, Goto, LoopGoto, Stays, Kept, TasksTyped
  <2>2. row'.status = row.status /\ row'.surface = row.surface
    BY <1>23 DEF ClearReminder, StoreTyped, Rows
  <2>3. /\ UNCHANGED <<votes, results, late, gen>> /\ pc[Loop] # "drop" /\ ~Writes(Loop)
        /\ pc'[Loop] \notin {"drop", "count", "save", "fetch", "end", "insert"}
    BY <1>23, Names DEF ClearReminder, Goto, LoopGoto, Writes, TasksTyped
  <2> QED
    BY <2>1, <2>2, <2>3, Apart, Names
<1>24. ASSUME CloseDue PROVE Counted'
  <2>1. \A q \in Procs : q # Loop => Stays(q)
    BY <1>24 DEF CloseDue, Queue, Stays, Kept, TasksTyped
  <2>2. row' = row
    BY <1>24 DEF CloseDue, Queue
  <2>3. /\ UNCHANGED <<votes, results, late, gen>> /\ pc[Loop] # "drop" /\ ~Writes(Loop)
        /\ pc'[Loop] \notin {"drop", "count", "save", "fetch", "end", "insert"}
    BY <1>24, Names DEF CloseDue, Queue, Writes, TasksTyped
  <2> QED
    BY <2>1, <2>2, <2>3, Apart, Names
<1>25. ASSUME NothingDue PROVE Counted'
  <2>1. \A q \in Procs : q # Loop => Stays(q)
    BY <1>25 DEF NothingDue, Finish, Stays, Kept, TasksTyped
  <2>2. row' = row
    BY <1>25 DEF NothingDue, Finish
  <2>3. /\ UNCHANGED <<votes, results, late, gen>> /\ pc[Loop] # "drop" /\ ~Writes(Loop)
        /\ pc'[Loop] \notin {"drop", "count", "save", "fetch", "end", "insert"}
    BY <1>25, Names DEF NothingDue, Finish, Writes, TasksTyped
  <2> QED
    BY <2>1, <2>2, <2>3, Apart, Names
<1>26. ASSUME NEW p \in Procs, SetStatus(p) PROVE Counted'
  <2>1. \A q \in Procs : q # p => Stays(q)
    BY <1>26 DEF SetStatus, Goto, Stays, Kept, TasksTyped
  <2>2. /\ pc[p] = "set" /\ pc'[p] \in {"release", "drop"} /\ op'[p] = op[p]
        /\ op[p] \in {"approve", "deny", "close", "cancel"}
        /\ UNCHANGED <<votes, results, late, gen>>
        /\ op[p] \notin {"approve", "deny"} => pc'[p] = "drop"
        /\ row'.status = Wanted(op[p]) /\ row'.surface = row.surface
    BY <1>26 DEF SetStatus, Goto, TasksTyped, StoreTyped, Rows, Locks, Paths, Way
  <2>3. CASE op[p] = "close"
    <3>1. pc'[p] = "drop" /\ Writes(p)'
      BY <2>2, <2>3 DEF Writes
    <3>2. Fresh'
      BY <2>1, <2>2 DEF Counted, Fresh, Stays, Kept
    <3> QED
      BY <3>1, <3>2 DEF Counted, Accounted, Exact, ClosedOnce
  <2>4. CASE op[p] # "close"
    <3>1. row'.status # "closed"
      BY <2>2, <2>4 DEF Wanted
    <3>2. Fresh'
      BY <2>1, <2>2 DEF Counted, Fresh, Stays, Kept
    <3> QED
      BY <3>1, <3>2 DEF Counted, Accounted, Exact, ClosedOnce
  <2> QED
    BY <2>3, <2>4
<1>27. ASSUME NEW p \in Procs, DropLock(p) PROVE Counted'
  <2>1. \A q \in Procs : q # p => Stays(q)
    BY <1>27 DEF DropLock, Finish, Goto, Stays, Kept, TasksTyped
  <2>2. /\ pc[p] = "drop" /\ gen' = gen + 1 /\ gen' # 0
        /\ UNCHANGED <<row, votes, results, late>>
    BY <1>27 DEF DropLock, RestTyped
  <2>3. pc'[p] \in {"count", "fetch", "idle"}
    BY <1>27 DEF DropLock, AfterDrop, Finish, Goto, TasksTyped
  <2>4. Accounted'
    <3> SUFFICES ASSUME row.status = "closed", ~results.row,
                        ~(row.surface # "panel" /\ results.failed)
                 PROVE  \E q \in Procs : Writes(q)'
      BY <2>2 DEF Accounted
    <3>1. PICK q \in Procs : Writes(q)
      BY DEF Counted, Accounted
    <3>2. CASE q = p
      BY <1>27, <2>2, <3>1, <3>2 DEF DropLock, AfterDrop, Goto, Writes, TasksTyped
    <3>3. CASE q # p
      BY <2>1, <2>2, <3>1, <3>3 DEF Writes, Stays, Kept
    <3> QED
      BY <3>2, <3>3
  <2>5. Exact'
    <3> SUFFICES ASSUME ClosedOnce' PROVE Exact'
      BY DEF Exact
    <3>1. gen = 0 /\ ~results.row
      BY <2>2 DEF ClosedOnce, RestTyped, Counted, Fresh
    <3>2. \A q \in Procs : lock[q] = 0
      BY <3>1 DEF Locks, Numbered, TasksTyped
    <3>3. \A q \in Procs : q # p => pc[q] \notin {"insert", "save"}
      BY <2>2, <3>1, <3>2 DEF Locks, Excluded, Holds, Counted, Fresh
    <3>4. \A q \in Procs : pc'[q] \notin {"insert", "save"}
      BY <2>1, <2>3, <3>3 DEF Stays, Kept
    <3> QED
      BY <2>2, <3>1, <3>4 DEF Exact
  <2> QED
    BY <2>2, <2>4, <2>5 DEF Counted, Fresh
<1>28. ASSUME NEW p \in Procs, CountPanel(p) PROVE Counted'
  <2>1. \A q \in Procs : q # p => Stays(q)
    BY <1>28 DEF CountPanel, Goto, Stays, Kept, TasksTyped
  <2>2. /\ pc[p] = "count" /\ pc'[p] = "save" /\ tally'[p] = votes /\ op'[p] = op[p]
        /\ UNCHANGED <<row, votes, results, late, gen>>
    BY <1>28 DEF CountPanel, Goto, TasksTyped
  <2>3. Writes(p) => Writes(p)'
    BY <2>2 DEF Writes
  <2> QED
    BY <2>1, <2>2, <2>3, Along
<1>29. ASSUME NEW p \in Procs, SaveResults(p) PROVE Counted'
  <2>1. \A q \in Procs : q # p => Stays(q)
    BY <1>29 DEF SaveResults, Finish, Goto, Stays, Kept, TasksTyped
  <2>2. /\ pc[p] = "save" /\ pc'[p] \in {"fetch", "idle"}
        /\ UNCHANGED <<row, votes, late, gen>>
    BY <1>29 DEF SaveResults, Finish, Goto, TasksTyped
  <2>3. results'.row /\ results'.failed = results.failed /\ results'.votes = tally[p]
    BY <1>29 DEF SaveResults, StoreTyped, Results
  <2> QED
    BY <2>1, <2>2, <2>3, Along
<1>30. ASSUME NEW p \in Procs, FetchMessage(p) PROVE Counted'
  <2>1. \A q \in Procs : q # p => Stays(q)
    BY <1>30 DEF FetchMessage, Goto, Stays, Kept, TasksTyped
  <2>2. /\ pc[p] = "fetch" /\ pc'[p] = "end" /\ op'[p] = op[p]
        /\ UNCHANGED <<row, votes, results, late, gen>>
    BY <1>30 DEF FetchMessage, Goto, TasksTyped
  <2>3. Writes(p) => Writes(p)'
    BY <2>2 DEF Writes
  <2> QED
    BY <2>1, <2>2, <2>3, Along
<1>31. ASSUME NEW p \in Procs, NoMessage(p) PROVE Counted'
  <2>1. \A q \in Procs : q # p => Stays(q)
    BY <1>31 DEF NoMessage, Finish, Stays, Kept, TasksTyped
  <2>2. /\ pc[p] = "fetch" /\ pc'[p] = "idle" /\ UNCHANGED <<row, votes, late, gen>>
    BY <1>31 DEF NoMessage, Finish, TasksTyped
  <2>3. /\ results'.row = results.row /\ results'.votes = results.votes
        /\ results'.failed = (results.failed \/ (op[p] = "close" /\ row.surface = "native"))
    BY <1>31 DEF NoMessage, StoreTyped, Results
  <2>4. Writes(p) => row.surface # "panel" /\ results'.failed
    BY <2>2, <2>3 DEF Writes, StoreTyped, Rows
  <2>5. ClosedOnce => UNCHANGED results
    BY <1>31 DEF NoMessage, ClosedOnce, StoreTyped, Results
  <2> QED
    BY <2>1, <2>2, <2>3, <2>4, <2>5, Along
<1>32. ASSUME NEW p \in Procs, EndVote(p) PROVE Counted'
  <2>1. \A q \in Procs : q # p => Stays(q)
    BY <1>32 DEF EndVote, AfterEnd, Finish, Goto, Stays, Kept, TasksTyped
  <2>2. /\ pc[p] = "end" /\ pc'[p] \in {"save", "idle"}
        /\ pc'[p] = "save" => row.surface = "native"
        /\ op[p] = "close" /\ row.surface = "native" => pc'[p] = "save" /\ op'[p] = op[p]
        /\ UNCHANGED <<row, votes, results, late, gen>>
    BY <1>32 DEF EndVote, AfterEnd, Finish, Goto, TasksTyped
  <2>3. Writes(p) => Writes(p)'
    BY <2>2 DEF Writes, StoreTyped, Rows
  <2>4. ClosedOnce => pc'[p] # "save"
    BY <2>2 DEF ClosedOnce
  <2> QED
    BY <2>1, <2>2, <2>3, <2>4, Along
<1>33. ASSUME NEW p \in Procs, EndRefused(p) PROVE Counted'
  <2>1. \A q \in Procs : q # p => Stays(q)
    BY <1>33 DEF EndRefused, AfterEnd, Finish, Goto, Stays, Kept, TasksTyped
  <2>2. /\ pc[p] = "end" /\ pc'[p] \in {"save", "idle"}
        /\ pc'[p] = "save" => row.surface = "native"
        /\ op[p] = "close" /\ row.surface = "native" => pc'[p] = "save" /\ op'[p] = op[p]
        /\ UNCHANGED <<row, votes, results, late, gen>>
    BY <1>33 DEF EndRefused, AfterEnd, Finish, Goto, TasksTyped
  <2>3. Writes(p) => Writes(p)'
    BY <2>2 DEF Writes, StoreTyped, Rows
  <2>4. ClosedOnce => pc'[p] # "save"
    BY <2>2 DEF ClosedOnce
  <2> QED
    BY <2>1, <2>2, <2>3, <2>4, Along
<1>34. ASSUME NEW p \in Procs, DeleteVotes(p) PROVE Counted'
  <2>1. \A q \in Procs : q # p => Stays(q)
    BY <1>34 DEF DeleteVotes, Goto, Stays, Kept, TasksTyped
  <2>2. /\ pc[p] = "delete" /\ pc'[p] = "insert" /\ op[p] = "vote"
        /\ answer'[p] = answer[p] /\ answer[p][1] \in Voters
        /\ UNCHANGED <<row, results, gen>>
    BY <1>34 DEF DeleteVotes, Goto, TasksTyped, Locks, Paths, Way
  <2>3. \A w \in Voters : w # answer[p][1] => VotesOf(w, votes') = VotesOf(w, votes)
    BY <1>34 DEF DeleteVotes, AnswerOf, VotesOf
  <2>4. late \subseteq late' /\ (ClosedOnce => answer[p][1] \in late')
    BY <1>34 DEF DeleteVotes, ClosedOnce
  <2> QED
    BY <2>1, <2>2, <2>3, <2>4, Revoted
<1>35. ASSUME NEW p \in Procs, InsertVotes(p) PROVE Counted'
  <2>1. \A q \in Procs : q # p => Stays(q)
    BY <1>35 DEF InsertVotes, Goto, Stays, Kept, TasksTyped
  <2>2. /\ pc[p] = "insert" /\ pc'[p] = "repaint" /\ op[p] = "vote"
        /\ answer[p][1] \in Voters /\ UNCHANGED <<row, results, late, gen>>
    BY <1>35 DEF InsertVotes, Goto, TasksTyped, Locks, Paths, Way
  <2>3. \A w \in Voters : w # answer[p][1] => VotesOf(w, votes') = VotesOf(w, votes)
    BY <1>35 DEF InsertVotes, VotesOf
  <2>4. ClosedOnce => answer[p][1] \in late
    BY <2>2 DEF Counted, Exact
  <2> QED
    BY <2>1, <2>2, <2>3, <2>4, Revoted
<1>36. ASSUME Archive PROVE Counted'
  <2>1. row'.status = "archived" /\ UNCHANGED <<results, gen, pc>>
    BY <1>36 DEF Archive, taskVars, StoreTyped, Rows
  <2> QED
    BY <2>1 DEF Counted, Fresh, Accounted, Exact, ClosedOnce
<1>37. CASE Tick \/ UNCHANGED vars
  <2>1. UNCHANGED <<row, votes, results, late, pc, op, gen, answer, tally>>
    BY <1>37 DEF Tick, vars, taskVars
  <2> QED
    BY <2>1 DEF Counted, Fresh, Accounted, Writes, Exact, ClosedOnce, InTime, VotesOf
<1>38. CASE Crash
  BY <1>38 DEF Crash, RestTyped
<1> QED
  BY <1>1, <1>2, <1>3, <1>4, <1>5, <1>6, <1>7, <1>8, <1>9, <1>10, <1>11, <1>12, <1>13, <1>14,
     <1>15, <1>16, <1>17, <1>18, <1>19, <1>20, <1>21, <1>22, <1>23, <1>24, <1>25, <1>26, <1>27,
     <1>28, <1>29, <1>30, <1>31, <1>32, <1>33, <1>34, <1>35, <1>36, <1>37, <1>38
     DEF Next, Start, Proceed, Enter, Pass

\* _write_results: when everyone is through with a closed poll, its results are there,
\* or, for Discord's own poll, the log says there was no message to count; the results
\* of a panel that was closed once hold the answers of all who were in time.
THEOREM AClosedPollIsCounted == Spec => []ClosedIsCounted
<1>1. Safe /\ Counting => ClosedIsCounted
  <2> SUFFICES ASSUME TypeOK, Counted, Quiet, row.status = "closed"
               PROVE  /\ results.row \/ (row.surface = "native" /\ results.failed)
                      /\ row.surface = "panel" /\ gen <= 1 =>
                            \A v \in Voters \ late :
                               {x \in results.votes : x[1] = v} = AnswerOf(v)
    BY DEF Safe, Counting, ClosedIsCounted
  <2>1. \A p \in Procs : ~Writes(p)
    BY DEF Quiet, Writes
  <2>2. results.row \/ (row.surface = "native" /\ results.failed)
    BY <2>1 DEF Counted, Accounted, TypeOK, Rows
  <2>3. ASSUME row.surface = "panel", gen <= 1, NEW v \in Voters \ late
        PROVE  {x \in results.votes : x[1] = v} = AnswerOf(v)
    <3>1. results.row
      BY <2>2, <2>3
    <3>2. gen = 1
      BY <2>3, <3>1 DEF Counted, Fresh, TypeOK
    <3>3. ClosedOnce
      BY <2>3, <3>2 DEF ClosedOnce, Quiet
    <3> QED
      BY <2>3, <3>1, <3>3 DEF Counted, Exact, InTime, VotesOf, AnswerOf
  <2> QED
    BY <2>2, <2>3
<1>2. Spec => []Counting
  <2>1. Spec => [](Safe /\ Counting)
    <3>1. Init => Safe /\ Counting
      BY SafeInit, CountingInit
    <3>2. Safe /\ Counting /\ [Next]_vars => Safe' /\ Counting'
      BY SafeStep, CountingStep
    <3> QED
      BY <3>1, <3>2, PTL DEF Spec
  <2> QED
    BY <2>1, PTL
<1> QED
  BY <1>1, <1>2, PollsSafe, PTL

================================================================================
