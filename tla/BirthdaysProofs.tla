---------------------------- MODULE BirthdaysProofs ----------------------------
(* What holds of a birthday however many buttons are pressed at once: the       *)
(* member's lock keeps the wishes apart, and what a task has read of the row    *)
(* under it is still so when it speaks.                                         *)
EXTENDS Birthdays, TLAPS

TasksTyped == /\ pc \in [Procs -> Labels]
              /\ op \in [Procs -> AllOperations \cup {"none", "sweep"}]
              /\ seen \in [Procs -> Sights] /\ stamp \in [Procs -> Days]

WorldTyped == /\ row \in Rows /\ out \in {"in", "self", "web"}
              /\ worn \in BOOLEAN /\ today \in Days
              /\ history \in [crashes : Nat, deleted : BOOLEAN, missed : BOOLEAN]

\* The types of what tasks remember, and of everything else.
LEMMA TypeOKParts == TypeOK <=> TasksTyped /\ WorldTyped
  BY DEF TypeOK, TasksTyped, WorldTyped

\* What a row that is gone and a task that is over look like.
LEMMA Empty == /\ NoBirthday \in Rows /\ ~NoBirthday.stored /\ ~NoBirthday.role
               /\ NoBirthday.announced = Never
               /\ Nothing \in Sights /\ ~Nothing.due
  BY BirthdaysAssumption DEF NoBirthday, Nothing, Rows, Sights, Dates, Days, Never

\* What the statements make of the row.
LEMMA Written ==
    ASSUME row \in Rows
    PROVE  /\ \A b \in BOOLEAN : [row EXCEPT !.role = b] \in Rows
           /\ \A b \in BOOLEAN : [row EXCEPT !.opted = b] \in Rows
           /\ \A d \in Days : [row EXCEPT !.announced = d] \in Rows
           /\ \A date \in Dates : [row EXCEPT !.stored = TRUE, !.date = date, !.opted = TRUE,
                                           !.announced = Never] \in Rows
  BY DEF Rows

\* The calendar has a first day.
LEMMA Zero == 0 \in Days
  BY BirthdaysAssumption DEF Days

\* A task that goes on keeps its types,
LEMMA GoTyped ==
    ASSUME TasksTyped, NEW p \in Procs, NEW label \in Labels, Goto(p, label),
           UNCHANGED <<op, seen, stamp>>
    PROVE  TasksTyped'
  BY DEF TasksTyped, Goto

\* and so does one that is over.
LEMMA FinishTyped == ASSUME TasksTyped, NEW p \in Procs, Finish(p) PROVE TasksTyped'
  BY Empty, Zero DEF TasksTyped, Finish, Labels

\* Everything is of its type to begin with,
LEMMA TypeOKInit == Init => TypeOK
<1> SUFFICES ASSUME Init PROVE TasksTyped /\ WorldTyped
  BY TypeOKParts
<1>1. TasksTyped
  BY Empty, Zero DEF Init, TasksTyped, Labels
<1>2. WorldTyped
  BY Empty, Zero DEF Init, WorldTyped
<1> QED
  BY <1>1, <1>2

\* and stays so.
LEMMA TypeOKStep == TypeOK /\ [Next]_vars => TypeOK'
<1> SUFFICES ASSUME TasksTyped, WorldTyped, [Next]_vars PROVE TasksTyped' /\ WorldTyped'
  BY DEF TypeOK, TasksTyped, WorldTyped
<1>1. ASSUME NEW p \in Procs, StartPostNow(p) PROVE TasksTyped' /\ WorldTyped'
  <2>1. TasksTyped'
    BY <1>1, BirthdaysAssumption DEF StartPostNow, TasksTyped, WorldTyped, Goto, Labels, Holding,
           Sights, Rows
  <2>2. WorldTyped'
    BY <1>1 DEF StartPostNow, WorldTyped
  <2> QED
    BY <2>1, <2>2
<1>2. ASSUME NEW p \in Procs, StartSet(p) PROVE TasksTyped' /\ WorldTyped'
  <2>1. TasksTyped'
    BY <1>2, BirthdaysAssumption DEF StartSet, TasksTyped, WorldTyped, Goto, Labels, Holding,
           Sights, Rows
  <2>2. WorldTyped'
    BY <1>2 DEF StartSet, WorldTyped
  <2> QED
    BY <2>1, <2>2
<1>3. ASSUME NEW p \in Procs, StartOpt(p) PROVE TasksTyped' /\ WorldTyped'
  <2>1. TasksTyped'
    BY <1>3, BirthdaysAssumption DEF StartOpt, TasksTyped, WorldTyped, Goto, Labels, Holding,
           Sights, Rows
  <2>2. WorldTyped'
    BY <1>3 DEF StartOpt, WorldTyped
  <2> QED
    BY <2>1, <2>2
<1>4. ASSUME NEW p \in Procs, WebOpt(p) PROVE TasksTyped' /\ WorldTyped'
  <2>1. TasksTyped'
    BY <1>4, BirthdaysAssumption DEF WebOpt, TasksTyped, WorldTyped, Goto, Labels, Holding
  <2>2. WorldTyped'
    BY <1>4 DEF WebOpt, WorldTyped
  <2> QED
    BY <2>1, <2>2
<1>5. ASSUME NEW p \in Procs, LockPostNow(p) PROVE TasksTyped' /\ WorldTyped'
  <2>1. TasksTyped'
    <3>1. Due(stamp[p], op[p] = "postAgain") \in BOOLEAN
      BY DEF Due, WorldTyped, Rows
    <3> QED
      BY <1>5, <3>1 DEF LockPostNow, TasksTyped, Goto, Labels, Holding, Sights
  <2>2. WorldTyped'
    BY <1>5 DEF LockPostNow, WorldTyped
  <2> QED
    BY <2>1, <2>2
<1>6. ASSUME NEW p \in Procs, Save(p) PROVE TasksTyped' /\ WorldTyped'
  <2>1. TasksTyped'
    BY <1>6, GoTyped, FinishTyped DEF Save
  <2>2. WorldTyped'
    <3>0. PICK date \in Dates : Saved(date)
      BY <1>6 DEF Save
    <3>1. row' \in Rows
      BY <3>0, Written DEF WorldTyped, Saved
    <3> QED
      BY <1>6, <3>1 DEF Save, WorldTyped, Saved
  <2> QED
    BY <2>1, <2>2
<1>7. ASSUME NEW p \in Procs, LockForget(p) PROVE TasksTyped' /\ WorldTyped'
  <2>1. TasksTyped'
    BY <1>7, GoTyped, FinishTyped DEF LockForget, Labels, Holding
  <2>2. WorldTyped'
    BY <1>7 DEF LockForget, WorldTyped
  <2> QED
    BY <2>1, <2>2
<1>8. ASSUME NEW p \in Procs, LockOpt(p) PROVE TasksTyped' /\ WorldTyped'
  <2>1. TasksTyped'
    BY <1>8, GoTyped, FinishTyped DEF LockOpt, Labels, Holding
  <2>2. WorldTyped'
    BY <1>8 DEF LockOpt, WorldTyped
  <2> QED
    BY <2>1, <2>2
<1>9. ASSUME NEW p \in Procs, PostNowWishes(p) PROVE TasksTyped' /\ WorldTyped'
  <2>1. TasksTyped'
    BY <1>9, GoTyped, FinishTyped DEF PostNowWishes, Wished, Labels, Holding
  <2>2. WorldTyped'
    BY <1>9 DEF PostNowWishes, WorldTyped
  <2> QED
    BY <2>1, <2>2
<1>10. ASSUME NEW p \in Procs, Post(p) PROVE TasksTyped' /\ WorldTyped'
  <2>1. TasksTyped'
    BY <1>10, GoTyped, FinishTyped DEF Post, Labels, Holding
  <2>2. WorldTyped'
    BY <1>10 DEF Post, WorldTyped
  <2> QED
    BY <2>1, <2>2
<1>11. ASSUME NEW p \in Procs, PostRefused(p) PROVE TasksTyped' /\ WorldTyped'
  <2>1. TasksTyped'
    BY <1>11, GoTyped, FinishTyped DEF PostRefused, Labels, Holding
  <2>2. WorldTyped'
    BY <1>11 DEF PostRefused, WorldTyped
  <2> QED
    BY <2>1, <2>2
<1>12. ASSUME NEW p \in Procs, Mark(p) PROVE TasksTyped' /\ WorldTyped'
  <2>1. TasksTyped'
    BY <1>12, GoTyped, FinishTyped DEF Mark, Labels, Holding
  <2>2. WorldTyped'
    <3>1. row' \in Rows
      BY <1>12, Written DEF Mark, WorldTyped, TasksTyped, Update
    <3> QED
      BY <1>12, <3>1 DEF Mark, WorldTyped
  <2> QED
    BY <2>1, <2>2
<1>13. ASSUME NEW p \in Procs, GiveRole(p) PROVE TasksTyped' /\ WorldTyped'
  <2>1. TasksTyped'
    BY <1>13, GoTyped, FinishTyped DEF GiveRole, Labels, Holding
  <2>2. WorldTyped'
    BY <1>13 DEF GiveRole, WorldTyped
  <2> QED
    BY <2>1, <2>2
<1>14. ASSUME NEW p \in Procs, RecordRole(p) PROVE TasksTyped' /\ WorldTyped'
  <2>1. TasksTyped'
    BY <1>14, GoTyped, FinishTyped DEF RecordRole
  <2>2. WorldTyped'
    <3>1. row' \in Rows
      BY <1>14, Written DEF RecordRole, WorldTyped, Update
    <3> QED
      BY <1>14, <3>1 DEF RecordRole, WorldTyped
  <2> QED
    BY <2>1, <2>2
<1>15. ASSUME NEW p \in Procs, Delete(p) PROVE TasksTyped' /\ WorldTyped'
  <2>1. TasksTyped'
    BY <1>15, GoTyped, FinishTyped DEF Delete
  <2>2. WorldTyped'
    BY <1>15, Empty DEF Delete, Orphaned, WorldTyped
  <2> QED
    BY <2>1, <2>2
<1>16. ASSUME NEW p \in Procs, SetColumn(p) PROVE TasksTyped' /\ WorldTyped'
  <2>1. TasksTyped'
    BY <1>16, GoTyped, FinishTyped DEF SetColumn, AfterOpt, Labels, Holding
  <2>2. WorldTyped'
    <3>0. In(op[p]) \in BOOLEAN
      BY DEF In
    <3>1. row' \in Rows
      BY <1>16, <3>0, Written DEF SetColumn, WorldTyped, Update
    <3> QED
      BY <1>16, <3>1 DEF SetColumn, WorldTyped
  <2> QED
    BY <2>1, <2>2
<1>17. ASSUME NEW p \in Procs, SetTable(p) PROVE TasksTyped' /\ WorldTyped'
  <2>1. TasksTyped'
    BY <1>17, GoTyped, FinishTyped DEF SetTable, AfterOpt, Labels, Holding
  <2>2. WorldTyped'
    BY <1>17 DEF SetTable, WorldTyped
  <2> QED
    BY <2>1, <2>2
<1>18. ASSUME NEW p \in Procs, ReturnRole(p) PROVE TasksTyped' /\ WorldTyped'
  <2>1. TasksTyped'
    BY <1>18, GoTyped, FinishTyped DEF ReturnRole, TakenOff, Labels, Holding
  <2>2. WorldTyped'
    BY <1>18 DEF ReturnRole, TakenOff, WorldTyped
  <2> QED
    BY <2>1, <2>2
<1>19. ASSUME NEW p \in Procs, ReturnRefused(p) PROVE TasksTyped' /\ WorldTyped'
  <2>1. TasksTyped'
    BY <1>19, GoTyped, FinishTyped DEF ReturnRefused, Labels, Holding
  <2>2. WorldTyped'
    BY <1>19 DEF ReturnRefused, WorldTyped
  <2> QED
    BY <2>1, <2>2
<1>20. ASSUME NEW p \in Procs, Unreturn(p) PROVE TasksTyped' /\ WorldTyped'
  <2>1. TasksTyped'
    BY <1>20, GoTyped, FinishTyped DEF Unreturn, Labels, Holding
  <2>2. WorldTyped'
    <3>1. row' \in Rows
      BY <1>20, Written DEF Unreturn, WorldTyped, Update
    <3> QED
      BY <1>20, <3>1 DEF Unreturn, WorldTyped
  <2> QED
    BY <2>1, <2>2
<1>21. ASSUME BeginSweep PROVE TasksTyped' /\ WorldTyped'
  <2>1. TasksTyped'
    BY <1>21, BirthdaysAssumption DEF BeginSweep, TasksTyped, WorldTyped, Goto, Labels, Holding,
           Sights, Rows, Due, Procs
  <2>2. WorldTyped'
    BY <1>21 DEF BeginSweep, WorldTyped
  <2> QED
    BY <2>1, <2>2
<1>22. ASSUME LockSweep PROVE TasksTyped' /\ WorldTyped'
  <2>1. TasksTyped'
    BY <1>22 DEF LockSweep, TasksTyped, Sights, Goto, Labels, Holding, Procs
  <2>2. WorldTyped'
    BY <1>22 DEF LockSweep, WorldTyped
  <2> QED
    BY <2>1, <2>2
<1>23. ASSUME TakeBack PROVE TasksTyped' /\ WorldTyped'
  <2>1. TasksTyped'
    BY <1>23, GoTyped, FinishTyped DEF TakeBack, TakenOff, Labels, Holding, Procs
  <2>2. WorldTyped'
    BY <1>23 DEF TakeBack, TakenOff, WorldTyped
  <2> QED
    BY <2>1, <2>2
<1>24. ASSUME TakeBackRefused PROVE TasksTyped' /\ WorldTyped'
  <2>1. TasksTyped'
    BY <1>24, GoTyped, FinishTyped DEF TakeBackRefused, Labels, Holding, Procs
  <2>2. WorldTyped'
    BY <1>24 DEF TakeBackRefused, WorldTyped
  <2> QED
    BY <2>1, <2>2
<1>25. ASSUME SweepWishes PROVE TasksTyped' /\ WorldTyped'
  <2>1. TasksTyped'
    BY <1>25, GoTyped, FinishTyped DEF SweepWishes, Wished, Labels, Holding, Procs
  <2>2. WorldTyped'
    BY <1>25 DEF SweepWishes, WorldTyped
  <2> QED
    BY <2>1, <2>2
<1>26. ASSUME Unrecord PROVE TasksTyped' /\ WorldTyped'
  <2>1. TasksTyped'
    BY <1>26, GoTyped, FinishTyped DEF Unrecord, Labels, Holding, Procs
  <2>2. WorldTyped'
    <3>1. row' \in Rows
      BY <1>26, Written DEF Unrecord, WorldTyped, Update
    <3> QED
      BY <1>26, <3>1 DEF Unrecord, WorldTyped
  <2> QED
    BY <2>1, <2>2
<1>27. ASSUME WebSet PROVE TasksTyped' /\ WorldTyped'
  <2>1. TasksTyped'
    BY <1>27 DEF WebSet, taskVars, TasksTyped
  <2>2. WorldTyped'
    <3>0. PICK date \in Dates : Saved(date)
      BY <1>27 DEF WebSet
    <3>1. row' \in Rows
      BY <3>0, Written DEF WorldTyped, Saved
    <3> QED
      BY <1>27, <3>1 DEF WebSet, WorldTyped, Saved
  <2> QED
    BY <2>1, <2>2
<1>28. ASSUME WebClear PROVE TasksTyped' /\ WorldTyped'
  <2>1. TasksTyped'
    BY <1>28 DEF WebClear, Orphaned, taskVars, TasksTyped
  <2>2. WorldTyped'
    BY <1>28, Empty DEF WebClear, Orphaned, WorldTyped
  <2> QED
    BY <2>1, <2>2
<1>29. ASSUME NextDay PROVE TasksTyped' /\ WorldTyped'
  <2>1. TasksTyped'
    BY <1>29 DEF NextDay, taskVars, TasksTyped
  <2>2. WorldTyped'
    BY <1>29, BirthdaysAssumption DEF NextDay, WorldTyped, Days
  <2> QED
    BY <2>1, <2>2
<1>30. ASSUME Crash PROVE TasksTyped' /\ WorldTyped'
  <2>1. TasksTyped'
    BY <1>30, Empty, Zero DEF Crash, TasksTyped, Labels
  <2>2. WorldTyped'
    BY <1>30 DEF Crash, WorldTyped
  <2> QED
    BY <2>1, <2>2
<1>32. ASSUME NEW p \in Procs, ReturnMissing(p) PROVE TasksTyped' /\ WorldTyped'
  <2>1. TasksTyped'
    BY <1>32, GoTyped, FinishTyped DEF ReturnMissing, Labels, Holding
  <2>2. WorldTyped'
    BY <1>32 DEF ReturnMissing, Missed, WorldTyped
  <2> QED
    BY <2>1, <2>2
<1>33. ASSUME TakeBackMissing PROVE TasksTyped' /\ WorldTyped'
  <2>1. TasksTyped'
    BY <1>33, GoTyped, FinishTyped DEF TakeBackMissing, Labels, Holding, Procs
  <2>2. WorldTyped'
    BY <1>33 DEF TakeBackMissing, Missed, WorldTyped
  <2> QED
    BY <2>1, <2>2
<1>34. ASSUME Leave PROVE TasksTyped' /\ WorldTyped'
  <2>1. TasksTyped'
    BY <1>34 DEF Leave, taskVars, TasksTyped
  <2>2. WorldTyped'
    BY <1>34 DEF Leave, TakenOff, WorldTyped
  <2> QED
    BY <2>1, <2>2
<1>31. CASE UNCHANGED vars
  BY <1>31 DEF vars, TasksTyped, WorldTyped
<1> QED
  BY <1>1, <1>2, <1>3, <1>4, <1>5, <1>6, <1>7, <1>8, <1>9, <1>10, <1>11, <1>12, <1>13, <1>14,
     <1>15, <1>16, <1>17, <1>18, <1>19, <1>20, <1>21, <1>22, <1>23, <1>24, <1>25, <1>26, <1>27,
     <1>28, <1>29, <1>30, <1>31, <1>32, <1>33, <1>34
     DEF Next, Start, Enter, Proceed, Refusal, SweepStep
-------------------------------------------------------------------------------
(* The lock, and what a task knows while it holds it.                           *)

\* What a task may be doing where it stands.
Path == \A p \in Procs :
    /\ p = Sweep /\ pc[p] # "idle" => op[p] = "sweep"
    /\ pc[p] \in {"takeBack", "unrecord"} => p = Sweep
    /\ pc[p] \in {"wish", "post", "mark", "give", "record"}
           => op[p] \in {"sweep", "postNow", "postAgain"}
    /\ pc[p] \in {"return", "unreturn", "delete"} => op[p] \in {"optOut", "forget"}

Locked == \A p, q \in Procs : Holds(p) /\ Holds(q) => p = q

\* A wish was due, of a birthday that is stored, or was until it was deleted.
Dued == \A p \in Procs :
    /\ pc[p] \in {"post", "mark", "give", "record"} => seen[p].due
    /\ seen[p].due => row.stored \/ history.deleted

\* What Post now saw of the stamp still holds when it speaks.
StillDue == \A p \in Procs :
    op[p] = "postNow" /\ pc[p] \in {"wish", "post"} /\ seen[p].due => row.announced # stamp[p]

\* Nobody opts out between the look at the table and the wish.
NotOut == \A p \in Procs : pc[p] = "post" => out # "self"

\* A role comes off before its record, and nobody gives it between the two; unless
\* the member is not seen.
OffFirst == \A p \in Procs : pc[p] \in {"unrecord", "unreturn"} => ~worn \/ history.missed

\* A role is on record, or about to be.
OnRecord == worn /\ history.crashes = 0 /\ ~history.deleted /\ ~history.missed
                => row.role \/ \E p \in Procs : pc[p] = "record"

LockInv == TypeOK /\ Path /\ Locked

Promises == Dued /\ StillDue /\ NotOut /\ OffFirst /\ OnRecord

Others(p) == \A q \in Procs \ {p} : /\ pc'[q] = pc[q] /\ op'[q] = op[q]
                                    /\ seen'[q] = seen[q] /\ stamp'[q] = stamp[q]

\* Two tasks that hold the lock are the same.
LEMMA Alone ==
    ASSUME Locked, NEW p \in Procs, NEW q \in Procs, Holds(p), Holds(q)
    PROVE  p = q
  BY DEF Locked

\* A step of one task keeps the lock in one hand if it took the lock free or had it.
LEMMA OneHand ==
    ASSUME Locked, NEW p \in Procs, Others(p), Holds(p)' => Holds(p) \/ Free
    PROVE  Locked'
<1>1. \A q \in Procs \ {p} : Holds(q)' <=> Holds(q)
  BY DEF Others, Holds
<1> QED
  BY <1>1 DEF Locked, Free

\* Whoever celebrates holds the lock, and so does who takes a role back.
LEMMA Holders ==
    ASSUME Path, NEW p \in Procs,
           \/ pc[p] \in {"takeBack", "unrecord", "wish", "post", "mark", "give", "record",
                         "return", "unreturn", "delete"}
           \/ pc[p] = "table" /\ op[p] = "optOut"
    PROVE  Holds(p)
  BY DEF Path, Holds, Holding

\* The lock is in one hand at most, whatever is pressed.
LEMMA LockStep == LockInv /\ [Next]_vars => LockInv'
<1> SUFFICES ASSUME LockInv, [Next]_vars PROVE Path' /\ Locked'
  BY TypeOKStep DEF LockInv
<1> USE DEF LockInv
<1>0. TasksTyped
  BY TypeOKParts
<1>s. Sweep \in Procs
  BY DEF Procs
<1>1. ASSUME NEW p \in Procs, StartPostNow(p) PROVE Path' /\ Locked'
  <2>1. Others(p) /\ (Holds(p)' => Holds(p) \/ Free)
    BY <1>1, <1>0 DEF StartPostNow, Others, TasksTyped, Goto, Holds, Holding, Path
  <2>2. Path'
    BY <1>1, <1>0, <2>1, BirthdaysAssumption DEF StartPostNow, Others, TasksTyped, Goto, Path
  <2> QED
    BY <2>1, <2>2, <1>s, OneHand
<1>2. ASSUME NEW p \in Procs, StartSet(p) PROVE Path' /\ Locked'
  <2>1. Others(p) /\ (Holds(p)' => Holds(p) \/ Free)
    BY <1>2, <1>0 DEF StartSet, Others, TasksTyped, Goto, Holds, Holding, Path
  <2>2. Path'
    BY <1>2, <1>0, <2>1, BirthdaysAssumption DEF StartSet, Others, TasksTyped, Goto, Path
  <2> QED
    BY <2>1, <2>2, <1>s, OneHand
<1>3. ASSUME NEW p \in Procs, StartOpt(p) PROVE Path' /\ Locked'
  <2>1. Others(p) /\ (Holds(p)' => Holds(p) \/ Free)
    BY <1>3, <1>0 DEF StartOpt, Others, TasksTyped, Goto, Holds, Holding, Path
  <2>2. Path'
    BY <1>3, <1>0, <2>1, BirthdaysAssumption DEF StartOpt, Others, TasksTyped, Goto, Path
  <2> QED
    BY <2>1, <2>2, <1>s, OneHand
<1>4. ASSUME NEW p \in Procs, WebOpt(p) PROVE Path' /\ Locked'
  <2>1. Others(p) /\ (Holds(p)' => Holds(p) \/ Free)
    BY <1>4, <1>0 DEF WebOpt, Others, TasksTyped, Goto, Holds, Holding, Path
  <2>2. Path'
    BY <1>4, <1>0, <2>1, BirthdaysAssumption DEF WebOpt, Others, TasksTyped, Goto, Path
  <2> QED
    BY <2>1, <2>2, <1>s, OneHand
<1>5. ASSUME NEW p \in Procs, LockPostNow(p) PROVE Path' /\ Locked'
  <2>1. Others(p) /\ (Holds(p)' => Holds(p) \/ Free)
    BY <1>5, <1>0 DEF LockPostNow, Others, TasksTyped, Goto, Holds, Holding, Path
  <2>2. Path'
    BY <1>5, <1>0, <2>1 DEF LockPostNow, Others, TasksTyped, Goto, Path
  <2> QED
    BY <2>1, <2>2, <1>s, OneHand
<1>6. ASSUME NEW p \in Procs, Save(p) PROVE Path' /\ Locked'
  <2>1. Others(p) /\ (Holds(p)' => Holds(p) \/ Free)
    BY <1>6, <1>0 DEF Save, Others, TasksTyped, Finish, Holds, Holding, Path
  <2>2. Path'
    BY <1>6, <1>0, <2>1 DEF Save, Others, TasksTyped, Finish, Path
  <2> QED
    BY <2>1, <2>2, <1>s, OneHand
<1>7. ASSUME NEW p \in Procs, LockForget(p) PROVE Path' /\ Locked'
  <2>1. Others(p) /\ (Holds(p)' => Holds(p) \/ Free)
    BY <1>7, <1>0 DEF LockForget, Others, TasksTyped, Goto, Finish, Holds, Holding, Path
  <2>2. Path'
    BY <1>7, <1>0, <2>1 DEF LockForget, Others, TasksTyped, Goto, Finish, Path
  <2> QED
    BY <2>1, <2>2, <1>s, OneHand
<1>8. ASSUME NEW p \in Procs, LockOpt(p) PROVE Path' /\ Locked'
  <2>1. Others(p) /\ (Holds(p)' => Holds(p) \/ Free)
    BY <1>8, <1>0 DEF LockOpt, Others, TasksTyped, Goto, Holds, Holding, Path
  <2>2. Path'
    BY <1>8, <1>0, <2>1 DEF LockOpt, Others, TasksTyped, Goto, Path
  <2> QED
    BY <2>1, <2>2, <1>s, OneHand
<1>9. ASSUME NEW p \in Procs, PostNowWishes(p) PROVE Path' /\ Locked'
  <2>1. Others(p) /\ (Holds(p)' => Holds(p) \/ Free)
    BY <1>9, <1>0 DEF PostNowWishes, Wished, Others, TasksTyped, Goto, Finish, Holds, Holding, Path
  <2>2. Path'
    BY <1>9, <1>0, <2>1, BirthdaysAssumption
       DEF PostNowWishes, Wished, Others, TasksTyped, Goto, Finish, Path
  <2> QED
    BY <2>1, <2>2, <1>s, OneHand
<1>10. ASSUME NEW p \in Procs, Post(p) PROVE Path' /\ Locked'
  <2>1. Others(p) /\ (Holds(p)' => Holds(p) \/ Free)
    BY <1>10, <1>0 DEF Post, Others, TasksTyped, Goto, Holds, Holding, Path
  <2>2. Path'
    BY <1>10, <1>0, <2>1 DEF Post, Others, TasksTyped, Goto, Path
  <2> QED
    BY <2>1, <2>2, <1>s, OneHand
<1>11. ASSUME NEW p \in Procs, Mark(p) PROVE Path' /\ Locked'
  <2>1. Others(p) /\ (Holds(p)' => Holds(p) \/ Free)
    BY <1>11, <1>0 DEF Mark, Others, TasksTyped, Goto, Holds, Holding, Path
  <2>2. Path'
    BY <1>11, <1>0, <2>1 DEF Mark, Others, TasksTyped, Goto, Path
  <2> QED
    BY <2>1, <2>2, <1>s, OneHand
<1>12. ASSUME NEW p \in Procs, GiveRole(p) PROVE Path' /\ Locked'
  <2>1. Others(p) /\ (Holds(p)' => Holds(p) \/ Free)
    BY <1>12, <1>0 DEF GiveRole, Others, TasksTyped, Goto, Finish, Holds, Holding, Path
  <2>2. Path'
    BY <1>12, <1>0, <2>1 DEF GiveRole, Others, TasksTyped, Goto, Finish, Path
  <2> QED
    BY <2>1, <2>2, <1>s, OneHand
<1>13. ASSUME NEW p \in Procs, RecordRole(p) PROVE Path' /\ Locked'
  <2>1. Others(p) /\ (Holds(p)' => Holds(p) \/ Free)
    BY <1>13, <1>0 DEF RecordRole, Others, TasksTyped, Finish, Holds, Holding, Path
  <2>2. Path'
    BY <1>13, <1>0, <2>1 DEF RecordRole, Others, TasksTyped, Finish, Path
  <2> QED
    BY <2>1, <2>2, <1>s, OneHand
<1>14. ASSUME NEW p \in Procs, Delete(p) PROVE Path' /\ Locked'
  <2>1. Others(p) /\ (Holds(p)' => Holds(p) \/ Free)
    BY <1>14, <1>0 DEF Delete, Orphaned, Others, TasksTyped, Finish, Holds, Holding, Path
  <2>2. Path'
    BY <1>14, <1>0, <2>1 DEF Delete, Orphaned, Others, TasksTyped, Finish, Path
  <2> QED
    BY <2>1, <2>2, <1>s, OneHand
<1>15. ASSUME NEW p \in Procs, SetColumn(p) PROVE Path' /\ Locked'
  <2>1. Others(p) /\ (Holds(p)' => Holds(p) \/ Free)
    BY <1>15, <1>0 DEF SetColumn, Others, TasksTyped, Goto, Finish, AfterOpt, Holds, Holding, Path
  <2>2. Path'
    BY <1>15, <1>0, <2>1 DEF SetColumn, Others, TasksTyped, Goto, Finish, AfterOpt, Path
  <2> QED
    BY <2>1, <2>2, <1>s, OneHand
<1>16. ASSUME NEW p \in Procs, SetTable(p) PROVE Path' /\ Locked'
  <2>1. Others(p) /\ (Holds(p)' => Holds(p) \/ Free)
    BY <1>16, <1>0 DEF SetTable, Others, TasksTyped, Goto, Finish, AfterOpt, Holds, Holding, Path
  <2>2. Path'
    BY <1>16, <1>0, <2>1 DEF SetTable, Others, TasksTyped, Goto, Finish, AfterOpt, Path
  <2> QED
    BY <2>1, <2>2, <1>s, OneHand
<1>17. ASSUME NEW p \in Procs, ReturnRole(p) PROVE Path' /\ Locked'
  <2>1. Others(p) /\ (Holds(p)' => Holds(p) \/ Free)
    BY <1>17, <1>0 DEF ReturnRole, TakenOff, Others, TasksTyped, Goto, Holds, Holding, Path
  <2>2. Path'
    BY <1>17, <1>0, <2>1 DEF ReturnRole, TakenOff, Others, TasksTyped, Goto, Path
  <2> QED
    BY <2>1, <2>2, <1>s, OneHand
<1>18. ASSUME NEW p \in Procs, Unreturn(p) PROVE Path' /\ Locked'
  <2>1. Others(p) /\ (Holds(p)' => Holds(p) \/ Free)
    BY <1>18, <1>0 DEF Unreturn, Others, TasksTyped, Goto, Finish, Holds, Holding, Path
  <2>2. Path'
    BY <1>18, <1>0, <2>1 DEF Unreturn, Others, TasksTyped, Goto, Finish, Path
  <2> QED
    BY <2>1, <2>2, <1>s, OneHand
<1>19. ASSUME NEW p \in Procs, PostRefused(p) PROVE Path' /\ Locked'
  <2>1. Others(p) /\ (Holds(p)' => Holds(p) \/ Free)
    BY <1>19, <1>0 DEF PostRefused, Others, TasksTyped, Finish, Holds, Holding, Path
  <2>2. Path'
    BY <1>19, <1>0, <2>1 DEF PostRefused, Others, TasksTyped, Finish, Path
  <2> QED
    BY <2>1, <2>2, <1>s, OneHand
<1>20. ASSUME NEW p \in Procs, ReturnRefused(p) PROVE Path' /\ Locked'
  <2>1. Others(p) /\ (Holds(p)' => Holds(p) \/ Free)
    BY <1>20, <1>0 DEF ReturnRefused, Others, TasksTyped, Goto, Finish, Holds, Holding, Path
  <2>2. Path'
    BY <1>20, <1>0, <2>1 DEF ReturnRefused, Others, TasksTyped, Goto, Finish, Path
  <2> QED
    BY <2>1, <2>2, <1>s, OneHand
<1>21. ASSUME BeginSweep PROVE Path' /\ Locked'
  <2>1. Others(Sweep) /\ (Holds(Sweep)' => Holds(Sweep) \/ Free)
    BY <1>21, <1>0, <1>s DEF BeginSweep, Others, TasksTyped, Goto, Holds, Holding, Path
  <2>2. Path'
    BY <1>21, <1>0, <1>s, <2>1 DEF BeginSweep, Others, TasksTyped, Goto, Path
  <2> QED
    BY <2>1, <2>2, <1>s, OneHand
<1>22. ASSUME LockSweep PROVE Path' /\ Locked'
  <2>1. Others(Sweep) /\ (Holds(Sweep)' => Holds(Sweep) \/ Free)
    BY <1>22, <1>0, <1>s DEF LockSweep, Others, TasksTyped, Goto, Holds, Holding, Path
  <2>2. Path'
    BY <1>22, <1>0, <1>s, <2>1 DEF LockSweep, Others, TasksTyped, Goto, Path
  <2> QED
    BY <2>1, <2>2, <1>s, OneHand
<1>23. ASSUME TakeBack PROVE Path' /\ Locked'
  <2>1. Others(Sweep) /\ (Holds(Sweep)' => Holds(Sweep) \/ Free)
    BY <1>23, <1>0, <1>s DEF TakeBack, TakenOff, Others, TasksTyped, Goto, Holds, Holding, Path
  <2>2. Path'
    BY <1>23, <1>0, <1>s, <2>1 DEF TakeBack, TakenOff, Others, TasksTyped, Goto, Path
  <2> QED
    BY <2>1, <2>2, <1>s, OneHand
<1>24. ASSUME TakeBackRefused PROVE Path' /\ Locked'
  <2>1. Others(Sweep) /\ (Holds(Sweep)' => Holds(Sweep) \/ Free)
    BY <1>24, <1>0, <1>s DEF TakeBackRefused, Others, TasksTyped, Goto, Finish, Holds, Holding, Path
  <2>2. Path'
    BY <1>24, <1>0, <1>s, <2>1 DEF TakeBackRefused, Others, TasksTyped, Goto, Finish, Path
  <2> QED
    BY <2>1, <2>2, <1>s, OneHand
<1>25. ASSUME Unrecord PROVE Path' /\ Locked'
  <2>1. Others(Sweep) /\ (Holds(Sweep)' => Holds(Sweep) \/ Free)
    BY <1>25, <1>0, <1>s DEF Unrecord, Others, TasksTyped, Goto, Holds, Holding, Path
  <2>2. Path'
    BY <1>25, <1>0, <1>s, <2>1 DEF Unrecord, Others, TasksTyped, Goto, Path
  <2> QED
    BY <2>1, <2>2, <1>s, OneHand
<1>26. ASSUME SweepWishes PROVE Path' /\ Locked'
  <2>1. Others(Sweep) /\ (Holds(Sweep)' => Holds(Sweep) \/ Free)
    BY <1>26, <1>0, <1>s DEF SweepWishes, Wished, Others, TasksTyped, Goto, Finish, Holds,
           Holding, Path
  <2>2. Path'
    BY <1>26, <1>0, <1>s, <2>1 DEF SweepWishes, Wished, Others, TasksTyped, Goto, Finish, Path
  <2> QED
    BY <2>1, <2>2, <1>s, OneHand
<1>27. ASSUME WebSet PROVE Path' /\ Locked'
  BY <1>27 DEF WebSet, taskVars, Path, Locked, Holds
<1>28. ASSUME WebClear PROVE Path' /\ Locked'
  BY <1>28 DEF WebClear, Orphaned, taskVars, Path, Locked, Holds
<1>29. ASSUME NextDay PROVE Path' /\ Locked'
  BY <1>29 DEF NextDay, taskVars, Path, Locked, Holds
<1>30. ASSUME Crash PROVE Path' /\ Locked'
  BY <1>30 DEF Crash, Path, Locked, Holds, Holding
<1>32. ASSUME NEW p \in Procs, ReturnMissing(p) PROVE Path' /\ Locked'
  <2>1. Others(p) /\ (Holds(p)' => Holds(p) \/ Free)
    BY <1>32, <1>0 DEF ReturnMissing, Others, TasksTyped, Goto, Holds, Holding, Path
  <2>2. Path'
    BY <1>32, <1>0, <2>1 DEF ReturnMissing, Others, TasksTyped, Goto, Path
  <2> QED
    BY <2>1, <2>2, <1>s, OneHand
<1>33. ASSUME TakeBackMissing PROVE Path' /\ Locked'
  <2>1. Others(Sweep) /\ (Holds(Sweep)' => Holds(Sweep) \/ Free)
    BY <1>33, <1>0, <1>s DEF TakeBackMissing, Others, TasksTyped, Goto, Holds, Holding, Path
  <2>2. Path'
    BY <1>33, <1>0, <1>s, <2>1 DEF TakeBackMissing, Others, TasksTyped, Goto, Path
  <2> QED
    BY <2>1, <2>2, <1>s, OneHand
<1>34. ASSUME Leave PROVE Path' /\ Locked'
  BY <1>34 DEF Leave, taskVars, Path, Locked, Holds
<1>31. CASE UNCHANGED vars
  BY <1>31 DEF vars, Path, Locked, Holds
<1> QED
  BY <1>1, <1>2, <1>3, <1>4, <1>5, <1>6, <1>7, <1>8, <1>9, <1>10, <1>11, <1>12, <1>13, <1>14,
     <1>15, <1>16, <1>17, <1>18, <1>19, <1>20, <1>21, <1>22, <1>23, <1>24, <1>25, <1>26, <1>27,
     <1>28, <1>29, <1>30, <1>31, <1>32, <1>33, <1>34
     DEF Next, Start, Enter, Proceed, Refusal, SweepStep
\* While one task holds the lock, no other is anywhere between its look and its record.
LEMMA Excluded ==
    ASSUME LockInv, NEW p \in Procs, Holds(p), NEW q \in Procs \ {p}
    PROVE  /\ pc[q] \notin {"takeBack", "unrecord", "wish", "post", "mark", "give", "record",
                            "return", "unreturn", "delete"}
           /\ ~(pc[q] = "table" /\ op[q] = "optOut")
  BY Holders, Alone DEF LockInv

\* What a task knows under the lock stays so until it has spoken or written.
LEMMA PromisesStep == LockInv /\ Promises /\ [Next]_vars => Promises'
<1> SUFFICES ASSUME LockInv, Promises, [Next]_vars PROVE Promises'
  OBVIOUS
<1>0. TasksTyped /\ WorldTyped /\ Path /\ Locked
  BY TypeOKParts DEF LockInv
<1>s. Sweep \in Procs
  BY DEF Procs
<1> USE DEF Promises
<1>1. ASSUME NEW p \in Procs, StartPostNow(p) PROVE Promises'
  <2>1. Others(p)
    BY <1>1, <1>0 DEF StartPostNow, Others, TasksTyped, Goto
  <2> QED
    BY <1>1, <1>0, <2>1
       DEF StartPostNow, Others, TasksTyped, Goto, Dued, StillDue, NotOut, OffFirst, OnRecord
<1>2. ASSUME NEW p \in Procs, StartSet(p) PROVE Promises'
  <2>1. Others(p)
    BY <1>2, <1>0 DEF StartSet, Others, TasksTyped, Goto
  <2> QED
    BY <1>2, <1>0, <2>1
       DEF StartSet, Others, TasksTyped, Goto, Dued, StillDue, NotOut, OffFirst, OnRecord
<1>3. ASSUME NEW p \in Procs, StartOpt(p) PROVE Promises'
  <2>1. Others(p)
    BY <1>3, <1>0 DEF StartOpt, Others, TasksTyped, Goto
  <2> QED
    BY <1>3, <1>0, <2>1
       DEF StartOpt, Others, TasksTyped, Sights, Goto, Dued, StillDue, NotOut, OffFirst, OnRecord
<1>4. ASSUME NEW p \in Procs, WebOpt(p) PROVE Promises'
  <2>1. Others(p)
    BY <1>4, <1>0 DEF WebOpt, Others, TasksTyped, Goto
  <2> QED
    BY <1>4, <1>0, <2>1 DEF WebOpt, Others, TasksTyped, Goto, Dued, StillDue, NotOut, OffFirst,
           OnRecord
<1>5. ASSUME NEW p \in Procs, LockPostNow(p) PROVE Promises'
  <2>1. Others(p)
    BY <1>5, <1>0 DEF LockPostNow, Others, TasksTyped, Goto
  <2>2. Dued' /\ NotOut' /\ OffFirst' /\ OnRecord'
    BY <1>5, <1>0, <2>1
       DEF LockPostNow, Others, TasksTyped, WorldTyped, Rows, Sights, Goto, Due, Dued, NotOut, OffFirst,
           OnRecord
  <2>3. StillDue'
    <3>1. op[p] = "postNow" => seen'[p].due = Due(stamp[p], FALSE)
      BY <1>5, <1>0 DEF LockPostNow, TasksTyped, Sights
    <3>2. Due(stamp[p], FALSE) => row.announced # stamp[p]
      BY DEF Due
    <3>3. op' = op /\ stamp' = stamp /\ row' = row
      BY <1>5 DEF LockPostNow
    <3> QED
      BY <2>1, <3>1, <3>2, <3>3 DEF Others, StillDue
  <2> QED
    BY <2>2, <2>3
<1>6. ASSUME NEW p \in Procs, Save(p) PROVE Promises'
  <2>1. Others(p)
    BY <1>6, <1>0 DEF Save, Others, TasksTyped, Finish
  <2>2. Dued' /\ NotOut' /\ OffFirst' /\ OnRecord'
    BY <1>6, <1>0, <2>1, Excluded, Holders, Empty
       DEF Save, Others, TasksTyped, WorldTyped, Rows, Finish, Saved, Dued, NotOut, OffFirst, OnRecord
  <2>3. StillDue'
    <3>1. row'.announced = Never
      BY <1>6, <1>0 DEF Save, Saved, WorldTyped, Rows
    <3>2. \A q \in Procs : stamp'[q] # Never
      BY <1>6, <1>0, FinishTyped, BirthdaysAssumption DEF Save, TasksTyped, Days, Never
    <3> QED
      BY <3>1, <3>2 DEF StillDue
  <2> QED
    BY <2>2, <2>3
<1>7. ASSUME NEW p \in Procs, LockForget(p) PROVE Promises'
  <2>1. Others(p)
    BY <1>7, <1>0 DEF LockForget, Others, TasksTyped, Goto, Finish
  <2> QED
    BY <1>7, <1>0, <2>1, Empty
       DEF LockForget, Others, TasksTyped, Goto, Finish, Dued, StillDue, NotOut, OffFirst, OnRecord
<1>8. ASSUME NEW p \in Procs, LockOpt(p) PROVE Promises'
  <2>1. Others(p)
    BY <1>8, <1>0 DEF LockOpt, Others, TasksTyped, Goto
  <2> QED
    BY <1>8, <1>0, <2>1 DEF LockOpt, Others, TasksTyped, Goto, Dued, StillDue, NotOut, OffFirst,
           OnRecord
<1>9. ASSUME NEW p \in Procs, PostNowWishes(p) PROVE Promises'
  <2>1. Others(p)
    BY <1>9, <1>0 DEF PostNowWishes, Wished, Others, TasksTyped, Goto, Finish
  <2> QED
    BY <1>9, <1>0, <2>1, Empty
       DEF PostNowWishes, Wished, Others, TasksTyped, Goto, Finish, Out, Dued, StillDue, NotOut, OffFirst,
           OnRecord
<1>10. ASSUME NEW p \in Procs, Post(p) PROVE Promises'
  <2>1. Others(p)
    BY <1>10, <1>0 DEF Post, Others, TasksTyped, Goto
  <2> QED
    BY <1>10, <1>0, <2>1 DEF Post, Others, TasksTyped, Goto, Dued, StillDue, NotOut, OffFirst,
           OnRecord
<1>11. ASSUME NEW p \in Procs, Mark(p) PROVE Promises'
  <2>1. Others(p)
    BY <1>11, <1>0 DEF Mark, Others, TasksTyped, Goto
  <2> QED
    BY <1>11, <1>0, <2>1, Excluded, Holders
       DEF Mark, Others, TasksTyped, WorldTyped, Rows, Goto, Update, Dued, StillDue, NotOut, OffFirst,
           OnRecord
<1>12. ASSUME NEW p \in Procs, GiveRole(p) PROVE Promises'
  <2>1. Others(p)
    BY <1>12, <1>0 DEF GiveRole, Others, TasksTyped, Goto, Finish
  <2> QED
    BY <1>12, <1>0, <2>1, Excluded, Holders, Empty
       DEF GiveRole, Others, TasksTyped, Goto, Finish, Dued, StillDue, NotOut, OffFirst, OnRecord
<1>13. ASSUME NEW p \in Procs, RecordRole(p) PROVE Promises'
  <2>1. Others(p)
    BY <1>13, <1>0 DEF RecordRole, Others, TasksTyped, Finish
  <2> QED
    BY <1>13, <1>0, <2>1, Excluded, Holders, Empty
       DEF RecordRole, Others, TasksTyped, WorldTyped, Rows, Finish, Update, Dued, StillDue, NotOut,
           OffFirst, OnRecord
<1>14. ASSUME NEW p \in Procs, Delete(p) PROVE Promises'
  <2>1. Others(p)
    BY <1>14, <1>0 DEF Delete, Others, TasksTyped, Finish
  <2>2. history'.deleted = (history.deleted \/ worn \/ \E q \in Procs : seen[q].due)
        /\ history'.missed = history.missed /\ history'.crashes = history.crashes
    BY <1>14, <1>0 DEF Delete, Orphaned, WorldTyped
  <2>3. \A q \in Procs : seen'[q].due => history'.deleted
    BY <1>14, <1>0, <2>1, <2>2, Empty DEF Delete, Finish, Others, TasksTyped
  <2>4. pc[p] = "delete" /\ pc'[p] = "idle" /\ op'[p] = "none" /\ ~seen'[p].due
        /\ row' = NoBirthday /\ out' = "in" /\ worn' = worn
    BY <1>14, <1>0, Empty DEF Delete, TasksTyped, Finish
  <2>5. Dued' /\ NotOut'
    BY <2>1, <2>3, <2>4 DEF Others, Dued, NotOut
  <2>6. StillDue'
    <3>1. \A q \in Procs : op'[q] = "postNow" => stamp'[q] # Never
      BY <1>0, <2>1, <2>4, BirthdaysAssumption DEF Others, TasksTyped, Days, Never
    <3> QED
      BY <2>4, <3>1, Empty DEF StillDue
  <2>7. OffFirst'
    BY <2>1, <2>2, <2>4 DEF Others, OffFirst
  <2>8. OnRecord'
    BY <2>2, <2>4 DEF OnRecord
  <2> QED
    BY <2>5, <2>6, <2>7, <2>8
<1>15. ASSUME NEW p \in Procs, SetColumn(p) PROVE Promises'
  <2>1. Others(p)
    BY <1>15, <1>0 DEF SetColumn, Others, TasksTyped, Goto, Finish, AfterOpt
  <2> QED
    BY <1>15, <1>0, <2>1, Excluded, Holders, Empty
       DEF SetColumn, Others, TasksTyped, WorldTyped, Rows, Goto, Finish, AfterOpt, Update, In, Dued,
           StillDue, NotOut, OffFirst, OnRecord
<1>16. ASSUME NEW p \in Procs, SetTable(p) PROVE Promises'
  <2>1. Others(p)
    BY <1>16, <1>0 DEF SetTable, Others, TasksTyped, Goto, Finish, AfterOpt
  <2> QED
    BY <1>16, <1>0, <2>1, Excluded, Holders, Empty
       DEF SetTable, Others, TasksTyped, Goto, Finish, AfterOpt, Out, In, Dued, StillDue, NotOut,
           OffFirst, OnRecord
<1>17. ASSUME NEW p \in Procs, ReturnRole(p) PROVE Promises'
  <2>1. Others(p)
    BY <1>17, <1>0 DEF ReturnRole, TakenOff, Others, TasksTyped, Goto
  <2> QED
    BY <1>17, <1>0, <2>1, Excluded, Holders
       DEF ReturnRole, TakenOff, Others, TasksTyped, Goto, Dued, StillDue, NotOut, OffFirst, OnRecord
<1>18. ASSUME NEW p \in Procs, Unreturn(p) PROVE Promises'
  <2>1. Others(p)
    BY <1>18, <1>0 DEF Unreturn, Others, TasksTyped, Goto, Finish
  <2> QED
    BY <1>18, <1>0, <2>1, Excluded, Holders, Empty
       DEF Unreturn, Others, TasksTyped, WorldTyped, Rows, Goto, Finish, Update, Dued, StillDue, NotOut,
           OffFirst, OnRecord
<1>19. ASSUME NEW p \in Procs, PostRefused(p) PROVE Promises'
  <2>1. Others(p)
    BY <1>19, <1>0 DEF PostRefused, Others, TasksTyped, Finish
  <2> QED
    BY <1>19, <1>0, <2>1, Empty
       DEF PostRefused, Others, TasksTyped, Finish, Dued, StillDue, NotOut, OffFirst, OnRecord
<1>20. ASSUME NEW p \in Procs, ReturnRefused(p) PROVE Promises'
  <2>1. Others(p)
    BY <1>20, <1>0 DEF ReturnRefused, Others, TasksTyped, Goto, Finish
  <2> QED
    BY <1>20, <1>0, <2>1, Empty
       DEF ReturnRefused, Others, TasksTyped, Goto, Finish, Dued, StillDue, NotOut, OffFirst, OnRecord
<1>21. ASSUME BeginSweep PROVE Promises'
  <2>1. Others(Sweep)
    BY <1>21, <1>0, <1>s DEF BeginSweep, Others, TasksTyped, Goto
  <2> QED
    BY <1>21, <1>0, <1>s, <2>1
       DEF BeginSweep, Others, TasksTyped, WorldTyped, Rows, Sights, Goto, Due, Dued, StillDue, NotOut,
           OffFirst, OnRecord
<1>22. ASSUME LockSweep PROVE Promises'
  <2>1. Others(Sweep)
    BY <1>22, <1>0, <1>s DEF LockSweep, Others, TasksTyped, Goto
  <2> QED
    BY <1>22, <1>0, <1>s, <2>1
       DEF LockSweep, Others, TasksTyped, Sights, Path, Goto, Dued, StillDue, NotOut, OffFirst, OnRecord
<1>23. ASSUME TakeBack PROVE Promises'
  <2>1. Others(Sweep)
    BY <1>23, <1>0, <1>s DEF TakeBack, TakenOff, Others, TasksTyped, Goto
  <2> QED
    BY <1>23, <1>0, <1>s, <2>1, Excluded, Holders
       DEF TakeBack, TakenOff, Others, TasksTyped, Path, Goto, Dued, StillDue, NotOut, OffFirst, OnRecord
<1>24. ASSUME TakeBackRefused PROVE Promises'
  <2>1. Others(Sweep)
    BY <1>24, <1>0, <1>s DEF TakeBackRefused, Others, TasksTyped, Goto, Finish
  <2>2. \/ pc'[Sweep] = "wish" /\ UNCHANGED <<op, seen, stamp>>
        \/ pc'[Sweep] = "idle" /\ ~seen'[Sweep].due
    BY <1>24, <1>0, <1>s, Empty DEF TakeBackRefused, TasksTyped, Goto, Finish
  <2>3. pc[Sweep] = "takeBack" /\ UNCHANGED <<row, out, worn, history>>
    BY <1>24 DEF TakeBackRefused
  <2>4. op[Sweep] = "sweep" /\ op'[Sweep] # "postNow"
    BY <1>24, <1>0, <1>s, <2>3, BirthdaysAssumption
       DEF TakeBackRefused, TasksTyped, Path, Goto, Finish
  <2> QED
    BY <1>0, <1>s, <2>1, <2>2, <2>3, <2>4
       DEF TakeBackRefused, Others, TasksTyped, Path, Goto, Dued, StillDue, NotOut, OffFirst, OnRecord
<1>25. ASSUME Unrecord PROVE Promises'
  <2>1. Others(Sweep)
    BY <1>25, <1>0, <1>s DEF Unrecord, Others, TasksTyped, Goto
  <2>2. Dued' /\ NotOut' /\ OffFirst' /\ StillDue'
    BY <1>25, <1>0, <1>s, <2>1, Excluded, Holders
       DEF Unrecord, Others, TasksTyped, WorldTyped, Rows, Path, Goto, Update, Dued, NotOut, OffFirst,
           StillDue
  <2>3. OnRecord'
    <3>1. ~worn \/ history.missed
      BY <1>25, <1>s DEF Unrecord, OffFirst
    <3>2. worn' = worn /\ history' = history
      BY <1>25 DEF Unrecord
    <3> QED
      BY <3>1, <3>2 DEF OnRecord
  <2> QED
    BY <2>2, <2>3
<1>26. ASSUME SweepWishes PROVE Promises'
  <2>1. Others(Sweep)
    BY <1>26, <1>0, <1>s DEF SweepWishes, Wished, Others, TasksTyped, Goto, Finish
  <2> QED
    BY <1>26, <1>0, <1>s, <2>1, Empty
       DEF SweepWishes, Wished, Others, TasksTyped, Goto, Finish, Out, Dued, StillDue, NotOut, OffFirst,
           OnRecord
<1>27. ASSUME WebSet PROVE Promises'
  BY <1>27, <1>0
     DEF WebSet, taskVars, TasksTyped, WorldTyped, Rows, Saved, Days, Never, Dued, StillDue, NotOut,
         OffFirst, OnRecord
<1>28. ASSUME WebClear PROVE Promises'
  BY <1>28, <1>0, Empty
     DEF WebClear, Orphaned, taskVars, TasksTyped, WorldTyped, Rows, Saved, Days, Never, Dued, StillDue, NotOut,
         OffFirst, OnRecord
<1>29. ASSUME NextDay PROVE Promises'
  BY <1>29, <1>0 DEF NextDay, taskVars, Dued, StillDue, NotOut, OffFirst, OnRecord
<1>30. ASSUME Crash PROVE Promises'
  BY <1>30, <1>0, Empty DEF Crash, WorldTyped, Dued, StillDue, NotOut, OffFirst, OnRecord
<1>32. ASSUME NEW p \in Procs, ReturnMissing(p) PROVE Promises'
  <2>1. Others(p)
    BY <1>32, <1>0 DEF ReturnMissing, Others, TasksTyped, Goto
  <2>2. history'.missed = (history.missed \/ worn) /\ history'.deleted = history.deleted
        /\ history'.crashes = history.crashes
    BY <1>32, <1>0 DEF ReturnMissing, Missed, WorldTyped
  <2> QED
    BY <1>32, <1>0, <2>1, <2>2, Excluded, Holders
       DEF ReturnMissing, Others, TasksTyped, Path, Goto, Dued, StillDue, NotOut, OffFirst, OnRecord
<1>33. ASSUME TakeBackMissing PROVE Promises'
  <2>1. Others(Sweep)
    BY <1>33, <1>0, <1>s DEF TakeBackMissing, Others, TasksTyped, Goto
  <2>2. history'.missed = (history.missed \/ worn) /\ history'.deleted = history.deleted
        /\ history'.crashes = history.crashes
    BY <1>33, <1>0 DEF TakeBackMissing, Missed, WorldTyped
  <2> QED
    BY <1>33, <1>0, <1>s, <2>1, <2>2, Excluded, Holders
       DEF TakeBackMissing, Others, TasksTyped, Path, Goto, Dued, StillDue, NotOut, OffFirst, OnRecord
<1>34. ASSUME Leave PROVE Promises'
  BY <1>34, <1>0 DEF Leave, TakenOff, WorldTyped, taskVars, Dued, StillDue, NotOut, OffFirst,
         OnRecord
<1>31. CASE UNCHANGED vars
  BY <1>31 DEF vars, Dued, StillDue, NotOut, OffFirst, OnRecord
<1> QED
  BY <1>1, <1>2, <1>3, <1>4, <1>5, <1>6, <1>7, <1>8, <1>9, <1>10, <1>11, <1>12, <1>13, <1>14,
     <1>15, <1>16, <1>17, <1>18, <1>19, <1>20, <1>21, <1>22, <1>23, <1>24, <1>25, <1>26, <1>27,
     <1>28, <1>29, <1>30, <1>31, <1>32, <1>33, <1>34
     DEF Next, Start, Enter, Proceed, Refusal, SweepStep

\* All of it holds to begin with,
LEMMA InvInit == Init => LockInv /\ Promises
<1> SUFFICES ASSUME Init PROVE LockInv /\ Promises
  OBVIOUS
<1>1. TypeOK
  BY TypeOKInit
<1>2. Path /\ Locked
  BY DEF Init, Path, Locked, Holds, Holding
<1>3. Promises
  BY Empty DEF Init, Promises, Dued, StillDue, NotOut, OffFirst, OnRecord
<1> QED
  BY <1>1, <1>2, <1>3 DEF LockInv

\* and always.
LEMMA InvHolds == Spec => [](LockInv /\ Promises)
<1>1. LockInv /\ Promises /\ [Next]_vars => (LockInv /\ Promises)'
  BY LockStep, PromisesStep
<1> QED
  BY InvInit, <1>1, PTL DEF Spec

-------------------------------------------------------------------------------
\* Every variable of Birthdays keeps its kind of value, for any tasks and calendar.
THEOREM BirthdaysTyped == Spec => []TypeOK
  BY TypeOKInit, TypeOKStep, PTL DEF Spec

\* A role that is worn is on record, however many buttons are pressed beside the sweep:
\* unless the program died, or the row was deleted, or the record was cleared of a member
\* who was not in the cache.
THEOREM WornIsRecorded == Spec => []RoleIsRecorded
<1>1. LockInv /\ Promises => RoleIsRecorded
  BY DEF Promises, OnRecord, RoleIsRecorded, Quiet
<1> QED
  BY <1>1, InvHolds, PTL

\* Post now never repeats a wish that was marked since it looked, whoever marked it.
THEOREM NoneIsWishedTwice == Spec => PostNowSeesTheSweep
<1> DEFINE Seen == \A p \in Tasks : Wishes(p) /\ op[p] = "postNow" => row.announced # stamp[p]
<1>1. LockInv /\ Promises => Seen
  BY DEF Promises, Dued, StillDue, Wishes, Procs
<1>2. Spec => [][Seen]_vars
  BY <1>1, InvHolds, PTL
<1> QED
  BY <1>2 DEF PostNowSeesTheSweep

\* Nobody who opted out in Discord is wished, however late in a pass they did.
THEOREM NobodyIsWishedWhoIsOut == Spec => OutIsNotWished
<1> DEFINE StillIn == \A p \in Procs : Wishes(p) => out # "self"
<1>1. LockInv /\ Promises => StillIn
  BY DEF Promises, NotOut, Wishes
<1>2. Spec => [][StillIn]_vars
  BY <1>1, InvHolds, PTL
<1> QED
  BY <1>2 DEF OutIsNotWished
================================================================================
