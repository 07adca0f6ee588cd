---------------------------- MODULE EventsProofs ----------------------------
(* Types, the lock discipline and the lifecycle of Events, for every instance.  *)
(* The argument of the last two: as long as no terminal status is written the   *)
(* table hands out one lock object, so the handlers that may still move the     *)
(* event exclude each other; once one is written every check fails, and a       *)
(* second object does no harm.                                                  *)
EXTENDS Events, TLAPS

\* What a task keeps in got depends on where it stands: a place Discord made, an id of a scheduled
\* event, or a time a website edit asks for.
GotKinds ==
    \A p \in Procs :
        /\ pc[p] \in {"review", "card", "setCard"} => got[p] \in Places
        /\ pc[p] \in {"setScheduled", "edit"} => got[p] \in Nat

\* The type invariant of what the tasks keep, GotKinds included.
TaskTyped ==
    /\ pc \in [Procs -> Labels]
    /\ op \in [Procs -> Ops]
    /\ lock \in [Procs -> Nat]
    /\ seen \in [Procs -> Rows]
    /\ got \in [Procs -> Places \cup {Nowhere} \cup Nat]
    /\ stamp \in [Procs -> Nat]
    /\ GotKinds

\* The type invariant of everything else.
WorldTyped ==
    /\ row \in Rows
    /\ gen \in Nat
    /\ missing \in BOOLEAN
    /\ rested \in BOOLEAN
    /\ places \in [Places -> {"unused", "there", "gone"}]
    /\ calendar \in [made : Nat, up : SUBSET Nat]
    /\ public \in [advert : {"none", "up", "calledOff"}, announced : Nat, started : Nat]
    /\ now \in Nat
    /\ faults \in [crashes : Nat, refused : BOOLEAN]

\* TypeOK made inductive: got is written to the row, so its kind has to be known at each label.
TypeInv == TaskTyped /\ WorldTyped

\* The inductive invariant contains the type invariant of the module.
LEMMA TypeInvImplies == TypeInv => TypeOK
BY DEF TypeInv, TypeOK, TaskTyped, WorldTyped

\* The row that is not there has the shape of a row.
LEMMA NoRowTyped == NoRow \in Rows
BY DEF NoRow, Rows, Absent

\* Whatever a locked operation writes is a status.
LEMMA WritesTyped == \A p : Writes(p) \in Statuses
BY DEF Writes, Wanted, Statuses, Missed

\* A task that ends leaves every task variable typed.
LEMMA FinishTyped == ASSUME TaskTyped, NEW p \in Procs, Finish(p) PROVE TaskTyped'
BY NoRowTyped DEF TaskTyped, Finish, GotKinds, Labels, Ops

\* So does a task that queues for the lock.
LEMMA QueueTyped ==
    ASSUME TaskTyped, gen \in Nat, NEW p \in Procs, NEW o \in Ops,
           Queue(p, o), UNCHANGED <<seen, got, stamp>>
    PROVE  TaskTyped'
BY DEF TaskTyped, Queue, GotKinds, Labels

\* So does a task that lets the lock go, whether it is over or has more to do.
LEMMA LeaveTyped == ASSUME TaskTyped, NEW p \in Procs, Leave(p) PROVE TaskTyped'
<1>1. CASE AfterLock(op[p]) = "idle"
  BY <1>1, FinishTyped DEF Leave
<1>2. CASE AfterLock(op[p]) # "idle"
  <2>1. AfterLock(op[p]) \in {"dueLive", "deletePlace", "swept", "idle"}
    BY DEF AfterLock
  <2> QED BY <1>2, <2>1, NoRowTyped DEF TaskTyped, Leave, GotKinds, Labels, Goto
<1> QED BY <1>1, <1>2

\* The program starts typed.
LEMMA TypeInit == Init => TypeInv
<1> SUFFICES ASSUME Init PROVE TypeInv
  OBVIOUS
<1>1. TaskTyped
  BY NoRowTyped DEF Init, TaskTyped, GotKinds, Labels, Ops
<1>2. WorldTyped
  BY NoRowTyped DEF Init, WorldTyped
<1> QED BY <1>1, <1>2 DEF TypeInv

\* No handler, loop, listener, crash or tick breaks the types of what tasks keep.
LEMMA TaskTypedStep == TypeInv /\ [Next]_vars => TaskTyped'
<1> SUFFICES ASSUME TypeInv, [Next]_vars PROVE TaskTyped'
  OBVIOUS
<1> USE DEF TypeInv
<1>1. ASSUME NEW p \in Procs, StartDecision(p) PROVE TaskTyped'
  BY <1>1
     DEF TaskTyped, GotKinds, Labels, Queue, Ops, AllOperations, Cancelling, WorldTyped,
         StartDecision
<1>2. ASSUME NEW p \in Procs, StartCancel(p) PROVE TaskTyped'
  BY <1>2
     DEF TaskTyped, GotKinds, Labels, Queue, Ops, AllOperations, Cancelling, WorldTyped,
         StartCancel
<1>3. ASSUME NEW p \in Procs, StartDeleteRoom(p) PROVE TaskTyped'
  BY <1>3
     DEF TaskTyped, GotKinds, Labels, LockedPcs, Goto, StartDeleteRoom, Queue, Ops,
         AllOperations, Cancelling, Resolves, WorldTyped
<1>4. ASSUME NEW p \in Procs, StartPropose(p) PROVE TaskTyped'
  BY <1>4, OperationsAssumption
     DEF TaskTyped, GotKinds, Labels, LockedPcs, Goto, StartPropose, Ops, AllOperations
<1>5. ASSUME NEW p \in Procs, StartAutomatic(p) PROVE TaskTyped'
  BY <1>5, OperationsAssumption
     DEF TaskTyped, GotKinds, Labels, LockedPcs, Goto, StartAutomatic, Ops, AllOperations
<1>6. ASSUME NEW p \in Procs, StartMove(p) PROVE TaskTyped'
  BY <1>6, NoRowTyped
     DEF TaskTyped, GotKinds, Labels, LockedPcs, Goto, StartMove, Ops, AllOperations,
         WorldTyped
<1>7. ASSUME NEW p \in Procs, StartEdit(p) PROVE TaskTyped'
  BY <1>7, TimesAssumption
     DEF TaskTyped, GotKinds, Labels, LockedPcs, Goto, StartEdit, Ops, AllOperations,
         StartTimes, Time
<1>8. ASSUME NEW p \in Procs, GoLiveTick(p) PROVE TaskTyped'
  BY <1>8 DEF TaskTyped, GotKinds, Labels, LockedPcs, Goto, GoLiveTick, WorldTyped
<1>9. ASSUME NEW p \in Procs, SweepTick(p) PROVE TaskTyped'
  BY <1>9 DEF TaskTyped, GotKinds, Labels, LockedPcs, Goto, SweepTick, WorldTyped
<1>10. ASSUME NEW p \in Procs, Lock(p) PROVE TaskTyped'
  BY <1>10 DEF TaskTyped, GotKinds, Labels, LockedPcs, Goto, Lock
<1>11. ASSUME NEW p \in Procs, Reread(p) PROVE TaskTyped'
  BY <1>11 DEF TaskTyped, GotKinds, Labels, LockedPcs, Goto, Reread, WorldTyped
<1>12. ASSUME NEW p \in Procs, TooLate(p) PROVE TaskTyped'
  BY <1>12, LeaveTyped DEF TooLate
<1>13. ASSUME NEW p \in Procs, SetStatus(p) PROVE TaskTyped'
  BY <1>13 DEF TaskTyped, GotKinds, Labels, LockedPcs, Goto, SetStatus
<1>14. ASSUME NEW p \in Procs, DropLock(p) PROVE TaskTyped'
  BY <1>14 DEF TaskTyped, GotKinds, Labels, LockedPcs, Goto, DropLock
<1>15. ASSUME NEW p \in Procs, Tell(p) PROVE TaskTyped'
  BY <1>15, LeaveTyped DEF Tell
<1>16. ASSUME NEW p \in Procs, NoCalendar(p) PROVE TaskTyped'
  BY <1>16, FinishTyped
     DEF TaskTyped, GotKinds, Labels, LockedPcs, Goto, NoCalendar, WorldTyped, Resolves, Rows
<1>17. ASSUME NEW p \in Procs, CreateScheduled(p) PROVE TaskTyped'
  BY <1>17 DEF TaskTyped, GotKinds, Labels, LockedPcs, Goto, CreateScheduled, WorldTyped
<1>18. ASSUME NEW p \in Procs, SetScheduled(p) PROVE TaskTyped'
  <2>1. CASE op[p] = "automatic"
    BY <1>18, <2>1, FinishTyped DEF SetScheduled
  <2>2. CASE op[p] # "automatic"
    BY <1>18, <2>2 DEF TaskTyped, GotKinds, Labels, LockedPcs, Goto, SetScheduled
  <2> QED BY <2>1, <2>2
<1>19. ASSUME NEW p \in Procs, NoAnnouncement(p) PROVE TaskTyped'
  BY <1>19 DEF TaskTyped, GotKinds, Labels, LockedPcs, Goto, NoAnnouncement
<1>20. ASSUME NEW p \in Procs, Announce(p) PROVE TaskTyped'
  BY <1>20 DEF TaskTyped, GotKinds, Labels, LockedPcs, Goto, Announce
<1>21. ASSUME NEW p \in Procs, SetAnnounced(p) PROVE TaskTyped'
  BY <1>21 DEF TaskTyped, GotKinds, Labels, LockedPcs, Goto, SetAnnounced
<1>22. ASSUME NEW p \in Procs, Uncalendar(p) PROVE TaskTyped'
  BY <1>22 DEF TaskTyped, GotKinds, Labels, LockedPcs, Goto, Uncalendar
<1>23. ASSUME NEW p \in Procs, Unannounce(p) PROVE TaskTyped'
  BY <1>23 DEF TaskTyped, GotKinds, Labels, LockedPcs, Goto, Unannounce
<1>24. ASSUME NEW p \in Procs, AutoApprove(p) PROVE TaskTyped'
  BY <1>24 DEF TaskTyped, GotKinds, Labels, LockedPcs, Goto, AutoApprove
<1>25. ASSUME NEW p \in Procs, UpdateEvent(p) PROVE TaskTyped'
  BY <1>25, FinishTyped DEF UpdateEvent
<1>26. ASSUME NEW p \in Procs, MakePlace(p) PROVE TaskTyped'
  BY <1>26 DEF TaskTyped, GotKinds, Labels, LockedPcs, Goto, MakePlace
<1>27. ASSUME NEW p \in Procs, PlaceRefused(p) PROVE TaskTyped'
  <2>1. CASE Finish(p)
    BY <2>1, FinishTyped
  <2>2. CASE Goto(p, "placeFailed") /\ UNCHANGED <<op, lock, seen, got, stamp>>
    BY <2>2 DEF TaskTyped, GotKinds, Labels, Goto
  <2> QED
    BY <1>27, <2>1, <2>2 DEF PlaceRefused
<1>28. ASSUME NEW p \in Procs, CancelUnplaced(p) PROVE TaskTyped'
  BY <1>28, FinishTyped DEF CancelUnplaced
<1>29. ASSUME NEW p \in Procs, SetReview(p) PROVE TaskTyped'
  BY <1>29 DEF TaskTyped, GotKinds, Labels, LockedPcs, Goto, SetReview
<1>30. ASSUME NEW p \in Procs, SetReviewKind(p) PROVE TaskTyped'
  <2>1. CASE Finish(p)
    BY <2>1, FinishTyped
  <2>2. CASE ~Finish(p)
    <3>1. /\ seen[p].review \in Places /\ got' = [got EXCEPT ![p] = seen[p].review]
          /\ Goto(p, "deletePlace") /\ UNCHANGED <<op, lock, seen, stamp>>
      BY <1>30, <2>2 DEF SetReviewKind
    <3> QED
      BY <3>1 DEF TaskTyped, GotKinds, Labels, Goto
  <2> QED
    BY <2>1, <2>2
<1>31. ASSUME NEW p \in Procs, PostCard(p) PROVE TaskTyped'
  BY <1>31, FinishTyped
     DEF TaskTyped, GotKinds, Labels, LockedPcs, Goto, PostCard, WorldTyped, Resolves, Rows
<1>32. ASSUME NEW p \in Procs, SetCard(p) PROVE TaskTyped'
  BY <1>32, FinishTyped DEF SetCard
<1>33. ASSUME NEW p \in Procs, DeletePlace(p) PROVE TaskTyped'
  BY <1>33 DEF TaskTyped, GotKinds, Labels, LockedPcs, Goto, DeletePlace
<1>34. ASSUME NEW p \in Procs, DeleteRefused(p) PROVE TaskTyped'
  BY <1>34, FinishTyped DEF DeleteRefused
<1>35. ASSUME NEW p \in Procs, Forget(p) PROVE TaskTyped'
  BY <1>35, FinishTyped DEF Forget
<1>36. ASSUME NEW p \in Procs, DueLive(p) PROVE TaskTyped'
  <2>1. CASE row.status = Live /\ Ends(row) <= stamp[p]
    BY <1>36, <2>1 DEF TaskTyped, GotKinds, Labels, LockedPcs, Goto, DueLive
  <2>2. CASE ~(row.status = Live /\ Ends(row) <= stamp[p])
    BY <1>36, <2>2, FinishTyped DEF DueLive
  <2> QED BY <2>1, <2>2
<1>46. ASSUME NEW p \in Procs, TakeUp(p) PROVE TaskTyped'
  BY <1>46 DEF TaskTyped, GotKinds, Labels, LockedPcs, TakeUp, Queue, Ops, WorldTyped
<1>37. ASSUME NEW p \in Procs, NoGoLivePost(p) PROVE TaskTyped'
  BY <1>37, LeaveTyped DEF NoGoLivePost
<1>38. ASSUME NEW p \in Procs, GoLivePost(p) PROVE TaskTyped'
  BY <1>38, LeaveTyped DEF GoLivePost
<1>39. ASSUME NEW p \in Procs, Recheck(p) PROVE TaskTyped'
  BY <1>39
     DEF TaskTyped, GotKinds, Labels, LockedPcs, Goto, Recheck, Queue, Ops, Cancelling,
         WorldTyped
<1>40. ASSUME NEW p \in Procs, Tidy(p) PROVE TaskTyped'
  <2>1. CASE Finish(p)
    BY <2>1, FinishTyped
  <2>2. CASE /\ row.review # Nowhere
             /\ got' = [got EXCEPT ![p] = row.review]
             /\ Goto(p, "deletePlace")
             /\ UNCHANGED <<op, lock, seen, stamp>>
    BY <2>2 DEF TaskTyped, GotKinds, Labels, Goto, WorldTyped, Rows
  <2>3. CASE Goto(p, "forget") /\ UNCHANGED <<op, lock, seen, got, stamp>>
    BY <2>3 DEF TaskTyped, GotKinds, Labels, Goto
  <2> QED BY <1>40, <2>1, <2>2, <2>3 DEF Tidy
<1>41. ASSUME NEW pl \in Places, HandDelete(pl) PROVE TaskTyped'
  BY <1>41 DEF TaskTyped, GotKinds, Labels, Goto, HandDelete
<1>42. ASSUME NEW pl \in Places, Hear(pl) PROVE TaskTyped'
  BY <1>42, FinishTyped
     DEF TaskTyped, GotKinds, Labels, Goto, Queue, Ops, Cancelling, Procs, WorldTyped, Hear
<1>43. CASE Crash
  BY <1>43, NoRowTyped DEF TaskTyped, GotKinds, Labels, Ops, Crash
<1>44. CASE Tick
  BY <1>44 DEF TaskTyped, GotKinds, Tick
<1>45. CASE UNCHANGED vars
  BY <1>45 DEF TaskTyped, GotKinds, vars
<1> QED
  BY <1>1, <1>2, <1>3, <1>4, <1>5, <1>6, <1>7, <1>8, <1>9, <1>10, <1>11, <1>12, <1>13, <1>14,
     <1>15, <1>16, <1>17, <1>18, <1>19, <1>20, <1>21, <1>22, <1>23, <1>24, <1>25, <1>26, <1>27,
     <1>28, <1>29, <1>30, <1>31, <1>32, <1>33, <1>34, <1>35, <1>36, <1>37, <1>38, <1>39, <1>40,
     <1>41, <1>42, <1>43, <1>44, <1>45, <1>46
  DEF Next, Start, Pass, Continue

\* None breaks the types of the row, of Discord's side or of the clock.
LEMMA WorldTypedStep == TypeInv /\ [Next]_vars => WorldTyped'
<1> SUFFICES ASSUME TypeInv, [Next]_vars PROVE WorldTyped'
  OBVIOUS
<1> USE DEF TypeInv
<1>1. ASSUME NEW p \in Procs,
            \/ StartDecision(p) \/ StartCancel(p) \/ StartDeleteRoom(p) \/ StartMove(p)
            \/ StartEdit(p) \/ GoLiveTick(p)
            \/ Lock(p) \/ Reread(p) \/ TooLate(p) \/ Tell(p) \/ NoCalendar(p) \/ NoAnnouncement(p)
            \/ PlaceRefused(p) \/ PostCard(p) \/ DueLive(p) \/ TakeUp(p) \/ NoGoLivePost(p)
            \/ Tidy(p)
     PROVE WorldTyped'
  BY <1>1
     DEF WorldTyped, discordVars, StartDecision, StartCancel, StartDeleteRoom, StartMove,
         StartEdit, GoLiveTick, Lock, Reread,
            TooLate, Tell, NoCalendar, NoAnnouncement, PlaceRefused, PostCard, DueLive,
            TakeUp, NoGoLivePost, Tidy
<1>2. ASSUME NEW p \in Procs, StartPropose(p) PROVE WorldTyped'
  <2>1. PICK t \in StartTimes :
           row' = [NoRow EXCEPT !.status = Pending, !.starts = t, !.created = now]
    BY <1>2 DEF StartPropose
  <2>2. t \in Nat
    BY TimesAssumption DEF StartTimes, Time
  <2>3. row' \in Rows
    BY <2>1, <2>2 DEF NoRow, Rows, WorldTyped, Statuses
  <2> QED BY <1>2, <2>3 DEF WorldTyped, StartPropose, discordVars
<1>3. ASSUME NEW p \in Procs, StartAutomatic(p) PROVE WorldTyped'
  <2>1. PICK t \in StartTimes :
           row' = [NoRow EXCEPT !.status = Pending, !.starts = t, !.created = now]
    BY <1>3 DEF StartAutomatic
  <2>2. t \in Nat
    BY TimesAssumption DEF StartTimes, Time
  <2>3. row' \in Rows
    BY <2>1, <2>2 DEF NoRow, Rows, WorldTyped, Statuses
  <2> QED BY <1>3, <2>3 DEF WorldTyped, StartAutomatic, discordVars
<1>4. ASSUME NEW p \in Procs, SetStatus(p) PROVE WorldTyped'
  BY <1>4, WritesTyped DEF WorldTyped, Rows, Statuses, discordVars, SetStatus
<1>5. ASSUME NEW p \in Procs, SetScheduled(p) PROVE WorldTyped'
  BY <1>5 DEF TaskTyped, GotKinds, WorldTyped, Rows, Statuses, discordVars, SetScheduled
<1>6. ASSUME NEW p \in Procs, SetAnnounced(p) PROVE WorldTyped'
  BY <1>6 DEF WorldTyped, Rows, Statuses, discordVars, SetAnnounced
<1>7. ASSUME NEW p \in Procs, AutoApprove(p) PROVE WorldTyped'
  BY <1>7 DEF WorldTyped, Rows, Statuses, discordVars, AutoApprove
<1>8. ASSUME NEW p \in Procs, UpdateEvent(p) PROVE WorldTyped'
  BY <1>8 DEF TaskTyped, GotKinds, WorldTyped, Rows, Statuses, discordVars, UpdateEvent
<1>9. ASSUME NEW p \in Procs, CancelUnplaced(p) PROVE WorldTyped'
  BY <1>9 DEF WorldTyped, Rows, Statuses, discordVars, CancelUnplaced
<1>10. ASSUME NEW p \in Procs, SetReview(p) PROVE WorldTyped'
  BY <1>10 DEF TaskTyped, GotKinds, WorldTyped, Rows, Statuses, discordVars, SetReview
<1>11. ASSUME NEW p \in Procs, SetReviewKind(p) PROVE WorldTyped'
  BY <1>11 DEF WorldTyped, Rows, Statuses, discordVars, SetReviewKind
<1>12. ASSUME NEW p \in Procs, SetCard(p) PROVE WorldTyped'
  BY <1>12 DEF TaskTyped, GotKinds, WorldTyped, Rows, Statuses, discordVars, SetCard
<1>13. ASSUME NEW p \in Procs, Forget(p) PROVE WorldTyped'
  BY <1>13 DEF WorldTyped, Rows, Statuses, discordVars, Forget
<1>14. ASSUME NEW p \in Procs, DropLock(p) PROVE WorldTyped'
  BY <1>14 DEF WorldTyped, discordVars, DropLock
<1>15. ASSUME NEW p \in Procs, CreateScheduled(p) PROVE WorldTyped'
  BY <1>15 DEF WorldTyped, discordVars, CreateScheduled
<1>16. ASSUME NEW p \in Procs, Uncalendar(p) PROVE WorldTyped'
  <2>1. calendar' \in [made : Nat, up : SUBSET Nat]
    BY <1>16 DEF WorldTyped, Uncalendar
  <2>2. faults' \in [crashes : Nat, refused : BOOLEAN]
    BY <1>16 DEF WorldTyped, Uncalendar
  <2> QED
    BY <1>16, <2>1, <2>2 DEF WorldTyped, Uncalendar
<1>17. ASSUME NEW p \in Procs, Announce(p) PROVE WorldTyped'
  <2>1. public' = [advert |-> "up", announced |-> public.announced + 1, started |-> public.started]
    BY <1>17 DEF WorldTyped, Announce
  <2> QED BY <1>17, <2>1 DEF WorldTyped, Announce
<1>18. ASSUME NEW p \in Procs, Unannounce(p) PROVE WorldTyped'
  BY <1>18 DEF WorldTyped, discordVars, Unannounce
<1>19. ASSUME NEW p \in Procs, GoLivePost(p) PROVE WorldTyped'
  BY <1>19 DEF WorldTyped, discordVars, GoLivePost
<1>20. ASSUME NEW p \in Procs, MakePlace(p) PROVE WorldTyped'
  BY <1>20 DEF WorldTyped, discordVars, MakePlace
<1>21. ASSUME NEW p \in Procs, DeletePlace(p) PROVE WorldTyped'
  BY <1>21 DEF WorldTyped, discordVars, DeletePlace, Gone
<1>22. ASSUME NEW p \in Procs, DeleteRefused(p) PROVE WorldTyped'
  BY <1>22 DEF WorldTyped, discordVars, DeleteRefused
<1>23. ASSUME NEW p \in Procs, Recheck(p) PROVE WorldTyped'
  BY <1>23 DEF WorldTyped, discordVars, Recheck
<1>24. ASSUME NEW p \in Procs, SweepTick(p) PROVE WorldTyped'
  BY <1>24 DEF WorldTyped, discordVars, SweepTick
<1>25. ASSUME NEW pl \in Places, HandDelete(pl) \/ Hear(pl) PROVE WorldTyped'
  BY <1>25 DEF WorldTyped, discordVars, HandDelete, Hear, Gone
<1>26. CASE Crash
  <2>1. faults' \in [crashes : Nat, refused : BOOLEAN]
    BY <1>26 DEF WorldTyped, Crash
  <2>2. UNCHANGED <<row, places, calendar, public, now>>
    BY <1>26 DEF Crash, discordVars
  <2>3. gen' = 0 /\ missing' = FALSE /\ rested' = TRUE
    BY <1>26 DEF Crash
  <2> QED BY <2>1, <2>2, <2>3 DEF WorldTyped
<1>27. CASE Tick
  BY <1>27, TimesAssumption DEF WorldTyped, discordVars, Tick
<1>28. CASE UNCHANGED vars
  BY <1>28 DEF WorldTyped, vars
<1> QED
  BY <1>1, <1>2, <1>3, <1>4, <1>5, <1>6, <1>7, <1>8, <1>9, <1>10, <1>11, <1>12, <1>13, <1>14,
     <1>15, <1>16, <1>17, <1>18, <1>19, <1>20, <1>21, <1>22, <1>23, <1>24, <1>25, <1>26, <1>27,
     <1>28
  DEF Next, Start, Pass, Continue

\* Every variable keeps its kind of value, for any number of buttons, rooms, posts and restarts.
THEOREM TypeCorrect == Spec => []TypeOK
<1>1. Init => TypeInv
  BY TypeInit
<1>2. TypeInv /\ [Next]_vars => TypeInv'
  BY TaskTypedStep, WorldTypedStep DEF TypeInv
<1>3. TypeInv => TypeOK
  BY TypeInvImplies
<1> QED
  BY <1>1, <1>2, <1>3, PTL DEF Spec

\* The handlers that write a status without the lock are out: approved_from, and the record of a
\* review place Discord refused.
EveryWriterLocks == "automatic" \notin Operations /\ ~PlaceMayFail

\* No task is in one of those handlers.
NoBareWriter ==
    \A p \in Procs : pc[p] \notin {"autoApprove", "placeFailed"} /\ op[p] # "automatic"

\* The inductive invariant: types, no bare writer, and the lock discipline.
LInv == TypeInv /\ NoBareWriter /\ LockInv

\* A status that something may follow is not terminal.
LEMMA MovableIsNotTerminal ==
    \A s, t : CanTransition(s, t) => s \notin TerminalStatuses
BY DEF CanTransition, TerminalStatuses

\* _go_live was allowed to write live; when it turns to _missed it writes done, and the table
\* allows that as well.
LEMMA WritesAllowed ==
    \A p : CanTransition(row.status, Wanted(op[p])) => CanTransition(row.status, Writes(p))
BY DEF CanTransition, Writes, Missed, Wanted, Transitions, Statuses, Pending, Approved, Denied,
       Live, Done, Cancelled

\* A task that ends and leaves the status alone keeps the lock discipline.
LEMMA FinishLocks ==
    ASSUME LInv, NEW p \in Procs, Finish(p), gen' = gen, row'.status = row.status
    PROVE  LockInv' /\ NoBareWriter'
BY DEF LInv, TypeInv, TaskTyped, WorldTyped, NoBareWriter, LockInv, OneHolder, NoNewerLock,
       DroppedWhenSettled, DecisionStillAllowed, Holds, LockedPcs, Finish

\* So does a task that queues: the object it is given is the table's.
LEMMA QueueLocks ==
    ASSUME LInv, NEW p \in Procs, NEW o \in Ops \ {"automatic"}, Queue(p, o),
           gen' = gen, row'.status = row.status, seen' = seen
    PROVE  LockInv' /\ NoBareWriter'
BY DEF LInv, TypeInv, TaskTyped, WorldTyped, NoBareWriter, LockInv, OneHolder, NoNewerLock,
       DroppedWhenSettled, DecisionStillAllowed, Holds, LockedPcs, Queue

\* So does a task that lets the lock go.
LEMMA LeaveLocks ==
    ASSUME LInv, NEW p \in Procs, Leave(p), gen' = gen, row'.status = row.status
    PROVE  LockInv' /\ NoBareWriter'
<1>1. CASE AfterLock(op[p]) = "idle"
  BY <1>1, FinishLocks DEF Leave
<1>2. CASE AfterLock(op[p]) # "idle"
  <2>1. AfterLock(op[p]) \in {"dueLive", "deletePlace", "swept", "idle"}
    BY DEF AfterLock
  <2> QED
    BY <1>2, <2>1
       DEF LInv, TypeInv, TaskTyped, WorldTyped, NoBareWriter, LockInv, OneHolder, NoNewerLock,
           DroppedWhenSettled, DecisionStillAllowed, Holds, LockedPcs, Leave, Goto
<1> QED BY <1>1, <1>2

\* So does a task that goes on outside the writing labels without taking a lock.
LEMMA GoOnLocks ==
    ASSUME LInv, NEW p \in Procs,
           NEW label \in Labels \ {"set", "drop", "autoApprove", "placeFailed"},
           Goto(p, label), label \in LockedPcs => pc[p] \in LockedPcs,
           op'[p] # "automatic",
           \A q \in Procs \ {p} : op'[q] = op[q] /\ seen'[q] = seen[q],
           lock' = lock, gen' = gen, row'.status = row.status
    PROVE  LockInv' /\ NoBareWriter'
<1>1. pc' \in [Procs -> Labels] /\ pc'[p] = label /\ \A q \in Procs \ {p} : pc'[q] = pc[q]
  BY DEF LInv, TypeInv, TaskTyped, Goto
<1>2. NoBareWriter'
  BY <1>1 DEF LInv, NoBareWriter
<1>3. \A q \in Procs : Holds(q)' => Holds(q)
  BY <1>1 DEF LInv, NoBareWriter, Holds
<1>4. OneHolder' /\ NoNewerLock'
  BY <1>3 DEF LInv, LockInv, OneHolder, NoNewerLock
<1>5. DroppedWhenSettled' /\ DecisionStillAllowed'
  <2>1. \A q \in Procs : pc'[q] \in {"set", "drop"} => q # p /\ pc'[q] = pc[q]
    BY <1>1
  <2>2. DroppedWhenSettled'
    BY <2>1 DEF LInv, LockInv, DroppedWhenSettled
  <2>3. DecisionStillAllowed'
    BY <2>1 DEF LInv, LockInv, DecisionStillAllowed
  <2> QED BY <2>2, <2>3
<1> QED BY <1>2, <1>4, <1>5 DEF LockInv

\* No step breaks the lock discipline.  The three steps that matter are Reread (what was read is
\* still there, and the object is the first one), SetStatus (nobody else is deciding, and a terminal
\* status is written before the lock is dropped) and DropLock (from then on nothing is allowed, so
\* the second object guards nothing).
LEMMA LockStep == ASSUME EveryWriterLocks, LInv, [Next]_vars PROVE LockInv' /\ NoBareWriter'
<1> DEFINE Goal == LockInv' /\ NoBareWriter'
<1> USE DEF LInv, TypeInv
<1>1. ASSUME NEW p \in Procs, StartDecision(p) PROVE Goal
  BY <1>1, QueueLocks DEF Ops, AllOperations, Cancelling, StartDecision
<1>2. ASSUME NEW p \in Procs, StartCancel(p) PROVE Goal
  BY <1>2, QueueLocks DEF Ops, AllOperations, Cancelling, StartCancel
<1>3. ASSUME NEW p \in Procs, StartDeleteRoom(p) PROVE Goal
  BY <1>3, QueueLocks, GoOnLocks
     DEF Ops, AllOperations, Cancelling, Labels, LockedPcs, NoBareWriter, TaskTyped,
         StartDeleteRoom
<1>4. ASSUME NEW p \in Procs, StartPropose(p) PROVE Goal
  <2>1. row.status = Absent /\ row'.status = Pending
    BY <1>4 DEF StartPropose, NoRow
  <2>2. row.status \notin TerminalStatuses /\ \A s : ~CanTransition(row.status, s)
    BY <2>1
       DEF TerminalStatuses, CanTransition, Statuses, Absent, Pending, Approved, Denied, Live,
           Done, Cancelled
  <2>3. gen = 0 /\ \A q \in Procs : pc[q] \notin {"set", "drop"}
    BY <2>2 DEF LockInv, DroppedWhenSettled, DecisionStillAllowed, WorldTyped
  <2>4. /\ pc' \in [Procs -> Labels] /\ pc'[p] \in {"makeRoom", "makePost"}
        /\ \A q \in Procs \ {p} : pc'[q] = pc[q]
    BY <1>4, OperationsAssumption DEF StartPropose, Goto, TaskTyped, Labels
  <2>5. /\ op'[p] = "propose" /\ \A q \in Procs \ {p} : op'[q] = op[q]
        /\ UNCHANGED <<lock, gen, seen>>
    BY <1>4 DEF StartPropose, TaskTyped
  <2>6. \A q \in Procs : Holds(q)' => Holds(q)
    BY <2>4, <2>5 DEF Holds, LockedPcs
  <2>7. LockInv'
    BY <2>3, <2>4, <2>5, <2>6
       DEF LockInv, OneHolder, NoNewerLock, DroppedWhenSettled, DecisionStillAllowed
  <2>8. NoBareWriter'
    BY <2>4, <2>5 DEF NoBareWriter
  <2> QED BY <2>7, <2>8
<1>5. ASSUME NEW p \in Procs, StartAutomatic(p) PROVE Goal
  BY <1>5 DEF EveryWriterLocks, Idle, NoBareWriter, StartAutomatic
<1>6. ASSUME NEW p \in Procs, StartMove(p) PROVE Goal
  BY <1>6, GoOnLocks DEF Labels, LockedPcs, NoBareWriter, TaskTyped, StartMove
<1>7. ASSUME NEW p \in Procs, StartEdit(p) PROVE Goal
  BY <1>7, GoOnLocks DEF Labels, LockedPcs, NoBareWriter, TaskTyped, StartEdit
<1>8. ASSUME NEW p \in Procs, GoLiveTick(p) PROVE Goal
  BY <1>8, GoOnLocks DEF Labels, LockedPcs, NoBareWriter, TaskTyped, GoLiveTick
<1>9. ASSUME NEW p \in Procs, SweepTick(p) PROVE Goal
  BY <1>9, GoOnLocks DEF Labels, LockedPcs, NoBareWriter, TaskTyped, SweepTick
<1>10. ASSUME NEW p \in Procs, Lock(p) PROVE Goal
  <2>1. pc' = [pc EXCEPT ![p] = "read"] /\ UNCHANGED <<row, op, lock, gen, seen>>
    BY <1>10 DEF Lock, Goto
  <2>2. \A q \in Procs \ {p} : ~(Holds(q) /\ lock[q] = lock[p])
    BY <1>10 DEF Lock
  <2>3. \A q \in Procs \ {p} : Holds(q)' = Holds(q)
    BY <2>1 DEF Holds, TaskTyped
  <2>4. OneHolder' /\ NoNewerLock'
    BY <2>1, <2>2, <2>3 DEF LockInv, OneHolder, NoNewerLock
  <2>5. DroppedWhenSettled' /\ DecisionStillAllowed' /\ NoBareWriter'
    BY <2>1 DEF LockInv, DroppedWhenSettled, DecisionStillAllowed, NoBareWriter, TaskTyped
  <2> QED BY <2>4, <2>5 DEF LockInv
<1>11. ASSUME NEW p \in Procs, Reread(p) PROVE Goal
  <2>1. row.status \notin TerminalStatuses
    BY <1>11, MovableIsNotTerminal DEF Reread
  <2>2. gen = 0 /\ lock[p] = 0
    BY <2>1 DEF LockInv, DroppedWhenSettled, NoNewerLock, TaskTyped, WorldTyped
  <2>3. pc' = [pc EXCEPT ![p] = "set"] /\ UNCHANGED <<row, op, lock, gen>>
    BY <1>11 DEF Reread, Goto
  <2>4. \A q \in Procs : Holds(q)' = Holds(q)
    BY <1>11, <2>3 DEF Reread, Holds, LockedPcs, TaskTyped
  <2>5. DecisionStillAllowed'
    BY <1>11, <2>2, <2>3 DEF Reread, LockInv, DecisionStillAllowed, TaskTyped
  <2>6. OneHolder' /\ NoNewerLock' /\ DroppedWhenSettled'
    BY <2>3, <2>4 DEF LockInv, OneHolder, NoNewerLock, DroppedWhenSettled, TaskTyped
  <2>7. NoBareWriter'
    BY <2>3 DEF NoBareWriter, TaskTyped
  <2> QED BY <2>5, <2>6, <2>7 DEF LockInv
<1>12. ASSUME NEW p \in Procs, TooLate(p) PROVE Goal
  BY <1>12, LeaveLocks DEF TooLate
<1>13. ASSUME NEW p \in Procs, SetStatus(p) PROVE Goal
  <2>1. /\ pc[p] = "set" /\ Holds(p) /\ lock[p] = 0
        /\ CanTransition(row.status, Wanted(op[p]))
    BY <1>13 DEF SetStatus, Holds, LockedPcs, NoBareWriter, LockInv, DecisionStillAllowed
  <2>2. gen = 0 /\ \A q \in Procs : pc[q] # "drop"
    BY <2>1, MovableIsNotTerminal DEF LockInv, DroppedWhenSettled, WorldTyped
  <2>3. \A q \in Procs \ {p} : pc[q] # "set"
    BY <2>1 DEF LockInv, OneHolder, DecisionStillAllowed, Holds, LockedPcs, NoBareWriter
  <2>4. row'.status = Writes(p) /\ UNCHANGED <<op, lock, gen, seen>>
    BY <1>13 DEF SetStatus, WorldTyped, Rows
  <2>5. /\ \A q \in Procs \ {p} : pc'[q] = pc[q]
        /\ pc'[p] \in {"drop", "calendar", "goLivePost", "tell"}
        /\ pc'[p] = "drop" => Writes(p) \in TerminalStatuses
    BY <1>13 DEF SetStatus, Goto, TaskTyped
  <2>6. \A q \in Procs : Holds(q)' = Holds(q)
    BY <2>1, <2>4, <2>5 DEF Holds, LockedPcs
  <2>7. OneHolder' /\ NoNewerLock'
    BY <2>4, <2>6 DEF LockInv, OneHolder, NoNewerLock
  <2>8. DroppedWhenSettled'
    BY <2>2, <2>4, <2>5 DEF DroppedWhenSettled
  <2>9. DecisionStillAllowed'
    BY <2>3, <2>5 DEF DecisionStillAllowed
  <2>10. NoBareWriter'
    BY <2>4, <2>5 DEF NoBareWriter
  <2> QED BY <2>7, <2>8, <2>9, <2>10 DEF LockInv
<1>14. ASSUME NEW p \in Procs, DropLock(p) PROVE Goal
  <2>1. /\ pc[p] = "drop" /\ gen' = gen + 1 /\ UNCHANGED <<row, op, lock, seen>>
        /\ Goto(p, IF Writes(p) = Cancelled THEN "uncalendar" ELSE "tell")
    BY <1>14 DEF DropLock
  <2>2. /\ \A q \in Procs \ {p} : pc'[q] = pc[q]
        /\ pc'[p] \in {"uncalendar", "tell"}
    BY <2>1 DEF Goto, TaskTyped
  <2>3. \A q \in Procs : Holds(q)' = Holds(q)
    BY <2>1, <2>2 DEF Holds, LockedPcs
  <2>4. OneHolder' /\ NoNewerLock'
    BY <2>1, <2>3 DEF LockInv, OneHolder, NoNewerLock, TaskTyped, WorldTyped
  <2>5. DroppedWhenSettled' /\ DecisionStillAllowed' /\ NoBareWriter'
    BY <2>1, <2>2 DEF LockInv, DroppedWhenSettled, DecisionStillAllowed, NoBareWriter
  <2> QED BY <2>4, <2>5 DEF LockInv
<1>15. ASSUME NEW p \in Procs, Tell(p) PROVE Goal
  BY <1>15, LeaveLocks DEF Tell
<1>16. ASSUME NEW p \in Procs, NoCalendar(p) PROVE Goal
  BY <1>16, FinishLocks, GoOnLocks DEF Labels, LockedPcs, NoBareWriter, TaskTyped, NoCalendar
<1>17. ASSUME NEW p \in Procs, CreateScheduled(p) PROVE Goal
  BY <1>17, GoOnLocks DEF Labels, LockedPcs, NoBareWriter, TaskTyped, CreateScheduled
<1>18. ASSUME NEW p \in Procs, SetScheduled(p) PROVE Goal
  BY <1>18, FinishLocks, GoOnLocks
     DEF Labels, LockedPcs, NoBareWriter, TaskTyped, WorldTyped, Rows, SetScheduled
<1>19. ASSUME NEW p \in Procs, NoAnnouncement(p) PROVE Goal
  BY <1>19, GoOnLocks DEF Labels, LockedPcs, NoBareWriter, TaskTyped, NoAnnouncement
<1>20. ASSUME NEW p \in Procs, Announce(p) PROVE Goal
  BY <1>20, GoOnLocks DEF Labels, LockedPcs, NoBareWriter, TaskTyped, Announce
<1>21. ASSUME NEW p \in Procs, SetAnnounced(p) PROVE Goal
  BY <1>21, GoOnLocks
     DEF Labels, LockedPcs, NoBareWriter, TaskTyped, WorldTyped, Rows, SetAnnounced
<1>22. ASSUME NEW p \in Procs, Uncalendar(p) PROVE Goal
  BY <1>22, GoOnLocks DEF Labels, LockedPcs, NoBareWriter, TaskTyped, Uncalendar
<1>23. ASSUME NEW p \in Procs, Unannounce(p) PROVE Goal
  BY <1>23, GoOnLocks DEF Labels, LockedPcs, NoBareWriter, TaskTyped, Unannounce
<1>24. ASSUME NEW p \in Procs, AutoApprove(p) PROVE Goal
  BY <1>24 DEF EveryWriterLocks, Idle, NoBareWriter, AutoApprove
<1>25. ASSUME NEW p \in Procs, UpdateEvent(p) PROVE Goal
  BY <1>25, FinishLocks DEF UpdateEvent, WorldTyped, Rows
<1>26. ASSUME NEW p \in Procs, MakePlace(p) PROVE Goal
  BY <1>26, GoOnLocks DEF Labels, LockedPcs, NoBareWriter, TaskTyped, MakePlace
<1>27. ASSUME NEW p \in Procs, PlaceRefused(p) PROVE Goal
  BY <1>27 DEF EveryWriterLocks, PlaceRefused
<1>28. ASSUME NEW p \in Procs, CancelUnplaced(p) PROVE Goal
  BY <1>28 DEF EveryWriterLocks, Idle, NoBareWriter, CancelUnplaced
<1>29. ASSUME NEW p \in Procs, SetReview(p) PROVE Goal
  BY <1>29, GoOnLocks
     DEF Labels, LockedPcs, NoBareWriter, TaskTyped, WorldTyped, Rows, SetReview
<1>30. ASSUME NEW p \in Procs, SetReviewKind(p) PROVE Goal
  BY <1>30, FinishLocks, GoOnLocks
     DEF Labels, LockedPcs, NoBareWriter, TaskTyped, WorldTyped, Rows, SetReviewKind
<1>31. ASSUME NEW p \in Procs, PostCard(p) PROVE Goal
  BY <1>31, FinishLocks, GoOnLocks DEF Labels, LockedPcs, NoBareWriter, TaskTyped, PostCard
<1>32. ASSUME NEW p \in Procs, SetCard(p) PROVE Goal
  BY <1>32, FinishLocks DEF SetCard, WorldTyped, Rows
<1>33. ASSUME NEW p \in Procs, DeletePlace(p) PROVE Goal
  <2>1. /\ pc' = [pc EXCEPT ![got[p]] = "heard", ![p] = "forget"]
        /\ UNCHANGED <<row, op, lock, gen, seen>>
    BY <1>33 DEF DeletePlace
  <2>2. \A q \in Procs : pc'[q] = pc[q] \/ pc'[q] \in {"heard", "forget"}
    BY <2>1 DEF TaskTyped
  <2>3. \A q \in Procs : Holds(q)' => Holds(q)
    BY <2>1, <2>2 DEF Holds, LockedPcs
  <2>4. OneHolder' /\ NoNewerLock'
    BY <2>1, <2>3 DEF LockInv, OneHolder, NoNewerLock
  <2>5. DroppedWhenSettled' /\ DecisionStillAllowed' /\ NoBareWriter'
    BY <2>1, <2>2 DEF LockInv, DroppedWhenSettled, DecisionStillAllowed, NoBareWriter
  <2> QED BY <2>4, <2>5 DEF LockInv
<1>34. ASSUME NEW p \in Procs, DeleteRefused(p) PROVE Goal
  BY <1>34, FinishLocks DEF DeleteRefused, WorldTyped, Rows
<1>35. ASSUME NEW p \in Procs, Forget(p) PROVE Goal
  BY <1>35, FinishLocks DEF Forget, WorldTyped, Rows
<1>36. ASSUME NEW p \in Procs, DueLive(p) PROVE Goal
  BY <1>36, FinishLocks, GoOnLocks DEF Labels, LockedPcs, NoBareWriter, TaskTyped, DueLive
<1>45. ASSUME NEW p \in Procs, TakeUp(p) PROVE Goal
  BY <1>45, QueueLocks DEF Ops, TakeUp
<1>37. ASSUME NEW p \in Procs, NoGoLivePost(p) PROVE Goal
  BY <1>37, LeaveLocks DEF NoGoLivePost
<1>38. ASSUME NEW p \in Procs, GoLivePost(p) PROVE Goal
  BY <1>38, LeaveLocks DEF GoLivePost
<1>39. ASSUME NEW p \in Procs, Recheck(p) PROVE Goal
  BY <1>39, QueueLocks, GoOnLocks
     DEF Ops, Cancelling, Labels, LockedPcs, NoBareWriter, TaskTyped, Recheck
<1>40. ASSUME NEW p \in Procs, Tidy(p) PROVE Goal
  BY <1>40, FinishLocks, GoOnLocks DEF Labels, LockedPcs, NoBareWriter, TaskTyped, Tidy
<1>41. ASSUME NEW pl \in Places, HandDelete(pl) PROVE Goal
  BY <1>41, GoOnLocks DEF Labels, LockedPcs, NoBareWriter, Procs, HandDelete
<1>42. ASSUME NEW pl \in Places, Hear(pl) PROVE Goal
  BY <1>42, QueueLocks, FinishLocks, GoOnLocks
     DEF Ops, Cancelling, Labels, LockedPcs, NoBareWriter, Procs, Hear
<1>43. CASE Crash
  <2>1. gen' = 0 /\ \A q \in Procs : pc'[q] = "idle" /\ op'[q] = "none" /\ lock'[q] = 0
    BY <1>43 DEF Crash
  <2> QED
    BY <2>1 DEF LockInv, OneHolder, NoNewerLock, DroppedWhenSettled, DecisionStillAllowed,
                Holds, LockedPcs, NoBareWriter
<1>44. CASE Tick \/ UNCHANGED vars
  <2>1. UNCHANGED <<row, pc, op, lock, gen, seen>>
    BY <1>44 DEF Tick, vars
  <2> QED
    BY <2>1 DEF LockInv, OneHolder, NoNewerLock, DroppedWhenSettled, DecisionStillAllowed,
                Holds, NoBareWriter
<1> QED
  BY <1>1, <1>2, <1>3, <1>4, <1>5, <1>6, <1>7, <1>8, <1>9, <1>10, <1>11, <1>12, <1>13, <1>14,
     <1>15, <1>16, <1>17, <1>18, <1>19, <1>20, <1>21, <1>22, <1>23, <1>24, <1>25, <1>26, <1>27,
     <1>28, <1>29, <1>30, <1>31, <1>32, <1>33, <1>34, <1>35, <1>36, <1>37, <1>38, <1>39, <1>40,
     <1>41, <1>42, <1>43, <1>44, <1>45
  DEF Next, Start, Pass, Continue

\* At the start nobody holds or waits for anything.
LEMMA LockInvInit == Init => LockInv /\ NoBareWriter
BY DEF Init, NoBareWriter, LockInv, OneHolder, NoNewerLock, DroppedWhenSettled,
       DecisionStillAllowed, Holds, LockedPcs

\* All deciders hold object 0, and an object has one holder.
LEMMA LockInvMeansSingleDecider == LInv => SingleDecider
BY DEF LInv, LockInv, OneHolder, DecisionStillAllowed, SingleDecider, Holds, LockedPcs,
       NoBareWriter

\* The inductive invariant holds throughout.
LEMMA LInvHolds == ASSUME EveryWriterLocks PROVE Spec => []LInv
<1>1. Init => LInv
  BY TypeInit, LockInvInit DEF LInv
<1>2. LInv /\ [Next]_vars => LInv'
  BY LockStep, TaskTypedStep, WorldTypedStep DEF LInv, TypeInv
<1> QED BY <1>1, <1>2, PTL DEF Spec

\* "Approve or deny, once, whoever gets the lock first": although drop_lock lets a second lock
\* object appear next to one that is still held and waited for, no two handlers are ever between
\* their check and their write.
THEOREM OneDeciderAtATime == ASSUME EveryWriterLocks PROVE Spec => [](LockInv /\ SingleDecider)
<1>1. LInv => LockInv /\ SingleDecider
  BY LockInvMeansSingleDecider DEF LInv
<1> QED BY <1>1, LInvHolds, PTL

\* The abstract specification's table is the detailed one's.
LEMMA SameTable ==
    /\ Lifecycle!Statuses = Statuses
    /\ \A s, t : Lifecycle!CanTransition(s, t) <=> CanTransition(s, t)
BY DEF Statuses, Lifecycle!Statuses, CanTransition, Lifecycle!CanTransition, Transitions,
       Lifecycle!Transitions,
   Pending, Approved, Denied, Live, Done, Cancelled, Lifecycle!Pending,
   Lifecycle!Approved, Lifecycle!Denied, Lifecycle!Live, Lifecycle!Done, Lifecycle!Cancelled

\* Every step of the program files the event, moves it along the table, or leaves its status.
LEMMA StatusStep ==
    ASSUME EveryWriterLocks, LInv, [Next]_vars
    PROVE [Lifecycle!Next]_(row.status)
<1> DEFINE Goal == [Lifecycle!Next]_(row.status)
<1>1. ASSUME NEW p \in Procs, StartPropose(p) PROVE Goal
  <2>1. row.status = Absent /\ row'.status = Pending
    BY <1>1 DEF StartPropose, NoRow
  <2> QED
    BY <2>1
       DEF Lifecycle!Next, Lifecycle!File, Lifecycle!Absent, Lifecycle!Pending, Absent, Pending
<1>2. ASSUME NEW p \in Procs, SetStatus(p) PROVE Goal
  <2>1. CanTransition(row.status, Writes(p))
    BY <1>2, WritesAllowed DEF SetStatus, LInv, LockInv, DecisionStillAllowed
  <2>2. row'.status = Writes(p)
    BY <1>2 DEF SetStatus, LInv, TypeInv, WorldTyped, Rows
  <2> QED
    BY <2>1, <2>2, WritesTyped, SameTable DEF Lifecycle!Next, Lifecycle!Move
<1>3. ASSUME NEW p \in Procs, StartAutomatic(p) \/ AutoApprove(p) \/ CancelUnplaced(p)
    PROVE Goal
  BY <1>3
     DEF StartAutomatic, AutoApprove, CancelUnplaced, Idle, EveryWriterLocks, LInv,
         NoBareWriter
<1>4. ASSUME NEW p \in Procs,
             \/ SetScheduled(p) \/ SetAnnounced(p) \/ UpdateEvent(p) \/ SetReview(p)
             \/ SetReviewKind(p) \/ SetCard(p) \/ Forget(p)
      PROVE row'.status = row.status
  BY <1>4
     DEF SetScheduled, SetAnnounced, UpdateEvent, SetReview, SetReviewKind, SetCard, Forget,
         LInv, TypeInv, WorldTyped, Rows
<1>5. ASSUME NEW p \in Procs,
             \/ StartDecision(p) \/ StartCancel(p) \/ StartDeleteRoom(p) \/ StartMove(p)
             \/ StartEdit(p) \/ Pass(p) \/ Lock(p) \/ Reread(p) \/ TooLate(p) \/ DropLock(p)
             \/ Tell(p) \/ NoCalendar(p) \/ CreateScheduled(p) \/ NoAnnouncement(p)
             \/ Announce(p) \/ Uncalendar(p) \/ Unannounce(p) \/ MakePlace(p)
             \/ PlaceRefused(p) \/ PostCard(p) \/ DeletePlace(p) \/ DeleteRefused(p)
             \/ DueLive(p) \/ TakeUp(p) \/ NoGoLivePost(p) \/ GoLivePost(p) \/ Recheck(p)
             \/ Tidy(p)
      PROVE row' = row
  BY <1>5
     DEF StartDecision, StartCancel, StartDeleteRoom, StartMove, StartEdit, Pass, GoLiveTick,
         SweepTick,
     Lock, Reread, TooLate, DropLock, Tell, NoCalendar, CreateScheduled, NoAnnouncement,
     Announce, Uncalendar, Unannounce, MakePlace, PlaceRefused, PostCard, DeletePlace,
     DeleteRefused,
     DueLive, TakeUp, NoGoLivePost, GoLivePost, Recheck, Tidy
<1>6. ASSUME NEW pl \in Places, HandDelete(pl) \/ Hear(pl) PROVE row' = row
  BY <1>6 DEF HandDelete, Hear
<1>7. CASE Crash \/ Tick \/ UNCHANGED vars
  BY <1>7 DEF Crash, Tick, vars
<1> QED
  BY <1>1, <1>2, <1>3, <1>4, <1>5, <1>6, <1>7 DEF Next, Start, Continue

\* The events feature implements the lifecycle it promises: the status is filed as pending and
\* then only moves along TRANSITIONS, for any number of racing buttons, loops and restarts.
THEOREM ImplementsLifecycle == ASSUME EveryWriterLocks PROVE Spec => FollowsLifecycle
<1>1. Init => Lifecycle!Init
  BY DEF Init, Lifecycle!Init, NoRow, Lifecycle!Absent, Absent
<1>2. LInv /\ [Next]_vars => [Lifecycle!Next]_(row.status)
  BY StatusStep
<1> QED BY <1>1, <1>2, LInvHolds, PTL DEF Spec, FollowsLifecycle, Lifecycle!Spec
=============================================================================
