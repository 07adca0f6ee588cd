------------------------- MODULE EventsOutcomeProofs --------------------------
(* What an event leaves behind: no room that no row names, nothing told twice,  *)
(* nothing of a cancelled event on the calendar or in the announce channel, and *)
(* no decision where somebody only moved its room.                              *)
EXTENDS EventsProofs

\* A step leaves another task as it was.
Stays(q) == /\ pc'[q] = pc[q] /\ op'[q] = op[q] /\ lock'[q] = lock[q]
            /\ seen'[q] = seen[q] /\ got'[q] = got[q] /\ stamp'[q] = stamp[q]

\* A step of a task touches no other one, except that a deletion wakes the place's listener.
LEMMA Alone ==
    ASSUME TypeInv, NEW p \in Procs, Start(p) \/ Pass(p) \/ Lock(p) \/ Continue(p)
    PROVE  DeletePlace(p) \/ \A q \in Procs : q # p => Stays(q)
<1> USE DEF TypeInv
<1> DEFINE Goal == DeletePlace(p) \/ \A q \in Procs : q # p => Stays(q)
<1>1. ASSUME StartDecision(p) PROVE Goal
  BY <1>1 DEF StartDecision, Queue, Stays, TaskTyped
<1>2. ASSUME StartCancel(p) PROVE Goal
  BY <1>2 DEF StartCancel, Queue, Stays, TaskTyped
<1>3. ASSUME StartDeleteRoom(p) PROVE Goal
  BY <1>3 DEF StartDeleteRoom, Goto, Queue, Stays, TaskTyped
<1>4. ASSUME StartPropose(p) PROVE Goal
  BY <1>4 DEF StartPropose, Goto, Stays, TaskTyped
<1>5. ASSUME StartAutomatic(p) PROVE Goal
  BY <1>5 DEF StartAutomatic, Goto, Stays, TaskTyped
<1>6. ASSUME StartMove(p) PROVE Goal
  BY <1>6 DEF StartMove, Goto, Stays, TaskTyped
<1>7. ASSUME StartEdit(p) PROVE Goal
  BY <1>7 DEF StartEdit, Goto, Stays, TaskTyped
<1>8. ASSUME GoLiveTick(p) PROVE Goal
  BY <1>8 DEF GoLiveTick, Goto, Stays, TaskTyped
<1>9. ASSUME SweepTick(p) PROVE Goal
  BY <1>9 DEF SweepTick, Goto, Stays, TaskTyped
<1>10. ASSUME Lock(p) PROVE Goal
  BY <1>10 DEF Lock, Goto, Stays, TaskTyped
<1>11. ASSUME Reread(p) PROVE Goal
  BY <1>11 DEF Reread, Goto, Stays, TaskTyped
<1>12. ASSUME TooLate(p) PROVE Goal
  BY <1>12 DEF TooLate, Goto, Finish, Leave, Stays, TaskTyped
<1>13. ASSUME SetStatus(p) PROVE Goal
  BY <1>13 DEF SetStatus, Goto, Stays, TaskTyped
<1>14. ASSUME DropLock(p) PROVE Goal
  BY <1>14 DEF DropLock, Goto, Stays, TaskTyped
<1>15. ASSUME Tell(p) PROVE Goal
  BY <1>15 DEF Tell, Goto, Finish, Leave, Stays, TaskTyped
<1>16. ASSUME NoCalendar(p) PROVE Goal
  BY <1>16 DEF NoCalendar, Goto, Finish, Stays, TaskTyped
<1>17. ASSUME CreateScheduled(p) PROVE Goal
  BY <1>17 DEF CreateScheduled, Goto, Stays, TaskTyped
<1>18. ASSUME SetScheduled(p) PROVE Goal
  BY <1>18 DEF SetScheduled, Goto, Finish, Stays, TaskTyped
<1>19. ASSUME NoAnnouncement(p) PROVE Goal
  BY <1>19 DEF NoAnnouncement, Goto, Stays, TaskTyped
<1>20. ASSUME Announce(p) PROVE Goal
  BY <1>20 DEF Announce, Goto, Stays, TaskTyped
<1>21. ASSUME SetAnnounced(p) PROVE Goal
  BY <1>21 DEF SetAnnounced, Goto, Stays, TaskTyped
<1>22. ASSUME Uncalendar(p) PROVE Goal
  BY <1>22 DEF Uncalendar, Goto, Stays, TaskTyped
<1>23. ASSUME Unannounce(p) PROVE Goal
  BY <1>23 DEF Unannounce, Goto, Stays, TaskTyped
<1>24. ASSUME AutoApprove(p) PROVE Goal
  BY <1>24 DEF AutoApprove, Goto, Stays, TaskTyped
<1>25. ASSUME UpdateEvent(p) PROVE Goal
  BY <1>25 DEF UpdateEvent, Finish, Stays, TaskTyped
<1>26. ASSUME MakePlace(p) PROVE Goal
  BY <1>26 DEF MakePlace, Goto, Stays, TaskTyped
<1>27. ASSUME PlaceRefused(p) PROVE Goal
  BY <1>27 DEF PlaceRefused, Goto, Finish, Stays, TaskTyped
<1>28. ASSUME CancelUnplaced(p) PROVE Goal
  BY <1>28 DEF CancelUnplaced, Finish, Stays, TaskTyped
<1>29. ASSUME SetReview(p) PROVE Goal
  BY <1>29 DEF SetReview, Goto, Stays, TaskTyped
<1>30. ASSUME SetReviewKind(p) PROVE Goal
  BY <1>30 DEF SetReviewKind, Goto, Finish, Stays, TaskTyped
<1>31. ASSUME PostCard(p) PROVE Goal
  BY <1>31 DEF PostCard, Goto, Finish, Stays, TaskTyped
<1>32. ASSUME SetCard(p) PROVE Goal
  BY <1>32 DEF SetCard, Finish, Stays, TaskTyped
<1>33. ASSUME DeleteRefused(p) PROVE Goal
  BY <1>33 DEF DeleteRefused, Finish, Stays, TaskTyped
<1>34. ASSUME Forget(p) PROVE Goal
  BY <1>34 DEF Forget, Finish, Stays, TaskTyped
<1>35. ASSUME DueLive(p) PROVE Goal
  BY <1>35 DEF DueLive, Goto, Finish, Stays, TaskTyped
<1>41. ASSUME TakeUp(p) PROVE Goal
  BY <1>41 DEF TakeUp, Queue, Stays, TaskTyped
<1>36. ASSUME NoGoLivePost(p) PROVE Goal
  BY <1>36 DEF NoGoLivePost, Goto, Finish, Leave, Stays, TaskTyped
<1>37. ASSUME GoLivePost(p) PROVE Goal
  BY <1>37 DEF GoLivePost, Goto, Finish, Leave, Stays, TaskTyped
<1>38. ASSUME Recheck(p) PROVE Goal
  BY <1>38 DEF Recheck, Goto, Queue, Stays, TaskTyped
<1>39. ASSUME Tidy(p) PROVE Goal
  BY <1>39 DEF Tidy, Goto, Finish, Stays, TaskTyped
<1>40. ASSUME DeletePlace(p) PROVE Goal
  BY <1>40
<1> QED
  BY <1>1, <1>2, <1>3, <1>4, <1>5, <1>6, <1>7, <1>8, <1>9, <1>10, <1>11, <1>12, <1>13, <1>14,
     <1>15, <1>16, <1>17, <1>18, <1>19, <1>20, <1>21, <1>22, <1>23, <1>24, <1>25, <1>26, <1>27,
     <1>28, <1>29, <1>30, <1>31, <1>32, <1>33, <1>34, <1>35, <1>36, <1>37, <1>38, <1>39, <1>40,
     <1>41
  DEF Start, Pass, Continue

\* A place that is gone stays gone, and one that was handed out is never handed out again.
LEMMA PlacesGoOn ==
    ASSUME TypeInv, [Next]_vars
    PROVE  \A pl \in Places : /\ places[pl] = "gone" => places'[pl] = "gone"
                              /\ places[pl] # "unused" => places'[pl] # "unused"
<1> DEFINE Goal == \A pl \in Places : /\ places[pl] = "gone" => places'[pl] = "gone"
                                      /\ places[pl] # "unused" => places'[pl] # "unused"
<1> USE DEF TypeInv
<1>1. ASSUME NEW p \in Procs, MakePlace(p) PROVE Goal
  BY <1>1 DEF MakePlace, WorldTyped
<1>2. ASSUME NEW p \in Procs, DeletePlace(p) PROVE Goal
  BY <1>2 DEF DeletePlace, Gone, WorldTyped
<1>3. ASSUME NEW pl \in Places, HandDelete(pl) PROVE Goal
  BY <1>3 DEF HandDelete, Gone, WorldTyped
<1>4. ASSUME NEW p \in Procs,
            \/ StartDecision(p) \/ StartCancel(p) \/ StartDeleteRoom(p) \/ StartPropose(p)
            \/ StartAutomatic(p) \/ StartMove(p) \/ StartEdit(p) \/ GoLiveTick(p)
            \/ SweepTick(p) \/ Lock(p)
     PROVE  places' = places
  BY <1>4 DEF StartDecision, StartCancel, StartDeleteRoom, StartPropose, StartAutomatic,
         StartMove, StartEdit, GoLiveTick, SweepTick, Lock, discordVars
<1>5. ASSUME NEW p \in Procs,
            \/ Reread(p) \/ TooLate(p) \/ SetStatus(p) \/ DropLock(p) \/ Tell(p)
            \/ NoCalendar(p) \/ CreateScheduled(p) \/ SetScheduled(p) \/ NoAnnouncement(p)
            \/ Announce(p)
     PROVE  places' = places
  BY <1>5 DEF Reread, TooLate, SetStatus, DropLock, Tell, NoCalendar, CreateScheduled,
         SetScheduled, NoAnnouncement, Announce, discordVars
<1>6. ASSUME NEW p \in Procs,
            \/ SetAnnounced(p) \/ Uncalendar(p) \/ Unannounce(p) \/ AutoApprove(p)
            \/ UpdateEvent(p) \/ PlaceRefused(p) \/ CancelUnplaced(p) \/ SetReview(p)
            \/ SetReviewKind(p) \/ PostCard(p)
     PROVE  places' = places
  BY <1>6 DEF SetAnnounced, Uncalendar, Unannounce, AutoApprove, UpdateEvent, PlaceRefused,
         CancelUnplaced, SetReview, SetReviewKind, PostCard, discordVars
<1>7. ASSUME NEW p \in Procs,
            \/ SetCard(p) \/ DeleteRefused(p) \/ Forget(p) \/ DueLive(p) \/ TakeUp(p)
            \/ NoGoLivePost(p) \/ GoLivePost(p) \/ Recheck(p) \/ Tidy(p)
     PROVE  places' = places
  BY <1>7 DEF SetCard, DeleteRefused, Forget, DueLive, TakeUp, NoGoLivePost, GoLivePost, Recheck,
         Tidy, discordVars
<1>8. ASSUME NEW pl \in Places, Hear(pl) PROVE places' = places
  BY <1>8 DEF Hear, discordVars
<1>9. CASE Crash \/ Tick \/ UNCHANGED vars
  BY <1>9 DEF Crash, Tick, vars, discordVars
<1> QED
  BY <1>1, <1>2, <1>3, <1>4, <1>5, <1>6, <1>7, <1>8, <1>9
  DEF Next, Start, Pass, Continue

-------------------------------------------------------------------------------
(* What a task has in its hands, and which listeners have heard something.     *)

\* Whoever deletes a place has one in its hands, through a cancelled section as well; nobody is
\* told of the deletion of a place that was not deleted.
Way(p) == /\ pc[p] = "deletePlace" => got[p] \in Places
          /\ op[p] = "deleteRoom" /\ pc[p] \in LockedPcs \cup {"wait"} => got[p] \in Places
          /\ pc[p] \in {"autoApprove", "calendar", "setScheduled"} => op[p] # "deleteRoom"
          /\ p \in Places /\ places[p] # "gone" => pc[p] = "idle"
Paths == \A p \in Procs : Way(p)

\* A place has no button and is no loop.
LEMMA PlaceIsNoTask ==
    \A pl \in Places : pl \notin Tasks \cup {GoLiveLoop, ReconcileLoop} /\ pl \in Procs
BY ProcsAssumption DEF Procs

\* What nobody but its own task touches stays on its way,
LEMMA OthersWay ==
    ASSUME TypeInv, Paths, [Next]_vars, NEW p \in Procs,
           \A q \in Procs : q # p => Stays(q), Way(p)'
    PROVE  Paths'
<1> SUFFICES ASSUME NEW q \in Procs, q # p PROVE Way(q)'
  BY DEF Paths
<1>1. Stays(q) /\ Way(q)
  BY DEF Paths
<1>2. q \in Places /\ places[q] = "gone" => places'[q] = "gone"
  BY PlacesGoOn
<1> QED
  BY <1>1, <1>2 DEF Way, Stays

\* and so does a task that is over.
LEMMA FinishedWay == ASSUME TypeInv, NEW p \in Procs, Finish(p) PROVE Way(p)'
BY DEF Finish, Way, TypeInv, TaskTyped, LockedPcs

\* A task leaves a section with what it brought.
LEMMA LeaveWay == ASSUME TypeInv, Paths, [Next]_vars, NEW p \in Procs,
                         pc[p] \in LockedPcs, Leave(p)
                  PROVE  Way(p)'
<1>1. CASE AfterLock(op[p]) = "idle"
  BY <1>1, FinishedWay DEF Leave
<1>2. CASE AfterLock(op[p]) # "idle"
  <2>1. /\ AfterLock(op[p]) \in {"dueLive", "deletePlace", "swept"}
        /\ AfterLock(op[p]) = "deletePlace" => op[p] = "deleteRoom"
    BY <1>2 DEF AfterLock
  <2>2. /\ pc'[p] = AfterLock(op[p]) /\ op'[p] = op[p] /\ got'[p] = got[p]
    BY <1>2 DEF Leave, Goto, TypeInv, TaskTyped
  <2>3. p \in Places => places'[p] = "gone"
    BY PlacesGoOn DEF Paths, Way, LockedPcs
  <2> QED
    BY <2>1, <2>2, <2>3 DEF Way, Paths, LockedPcs
<1> QED
  BY <1>1, <1>2

LEMMA PathsInit == Init => Paths
BY DEF Init, Paths, Way, LockedPcs

\* No step leads a task off its way.
LEMMA PathsStep == ASSUME TypeInv, Paths, [Next]_vars PROVE Paths'
<1>1. ASSUME NEW p \in Procs, Start(p) \/ Pass(p) \/ Lock(p) \/ Continue(p), ~DeletePlace(p)
      PROVE  Way(p)'
  <2> USE DEF TypeInv
  <2>0. p \in Places => (places[p] = "gone" /\ places'[p] = "gone") \/ pc[p] = "idle"
    BY PlacesGoOn DEF Paths, Way
  <2>1. ASSUME StartDecision(p) PROVE Way(p)'
    BY <2>1, <2>0, PlaceIsNoTask DEF StartDecision, Queue, Way, Paths, TaskTyped, LockedPcs, Idle
  <2>2. ASSUME StartCancel(p) PROVE Way(p)'
    BY <2>2, <2>0, PlaceIsNoTask DEF StartCancel, Queue, Way, Paths, TaskTyped, LockedPcs, Idle
  <2>3. ASSUME StartDeleteRoom(p) PROVE Way(p)'
    BY <2>3, <2>0, PlaceIsNoTask DEF StartDeleteRoom, Goto, Queue, Way, Paths, TaskTyped,
           LockedPcs, Idle, Resolves
  <2>4. ASSUME StartPropose(p) PROVE Way(p)'
    BY <2>4, <2>0, PlaceIsNoTask, OperationsAssumption
       DEF StartPropose, Goto, Way, Paths, TaskTyped, LockedPcs, Idle
  <2>5. ASSUME StartAutomatic(p) PROVE Way(p)'
    BY <2>5, <2>0, PlaceIsNoTask DEF StartAutomatic, Goto, Way, Paths, TaskTyped, LockedPcs, Idle
  <2>6. ASSUME StartMove(p) PROVE Way(p)'
    BY <2>6, <2>0, PlaceIsNoTask DEF StartMove, Goto, Way, Paths, TaskTyped, LockedPcs, Idle
  <2>7. ASSUME StartEdit(p) PROVE Way(p)'
    BY <2>7, <2>0, PlaceIsNoTask DEF StartEdit, Goto, Way, Paths, TaskTyped, LockedPcs, Idle
  <2>8. ASSUME GoLiveTick(p) PROVE Way(p)'
    BY <2>8, <2>0, PlaceIsNoTask DEF GoLiveTick, Goto, Way, Paths, TaskTyped, LockedPcs
  <2>9. ASSUME SweepTick(p) PROVE Way(p)'
    BY <2>9, <2>0, PlaceIsNoTask DEF SweepTick, Goto, Way, Paths, TaskTyped, LockedPcs
  <2>10. ASSUME Lock(p) PROVE Way(p)'
    BY <2>10, <2>0 DEF Lock, Goto, Way, Paths, TaskTyped, LockedPcs
  <2>11. ASSUME Reread(p) PROVE Way(p)'
    BY <2>11, <2>0 DEF Reread, Goto, Way, Paths, TaskTyped, LockedPcs
  <2>12. ASSUME TooLate(p) PROVE Way(p)'
    BY <2>12, LeaveWay DEF TooLate, LockedPcs
  <2>13. ASSUME SetStatus(p) PROVE Way(p)'
    <3>1. Writes(p) = Approved => op[p] # "deleteRoom"
      BY DEF Writes, Missed, Wanted, Approved, Denied, Live, Done, Cancelled
    <3>2. /\ pc[p] = "set" /\ pc'[p] \in {"drop", "calendar", "goLivePost", "tell"}
          /\ pc'[p] = "calendar" => Writes(p) = Approved
          /\ UNCHANGED <<op, got>>
      BY <2>13 DEF SetStatus, Goto, TaskTyped
    <3> QED
      BY <2>0, <3>1, <3>2 DEF Way, Paths, LockedPcs
  <2>14. ASSUME DropLock(p) PROVE Way(p)'
    BY <2>14, <2>0 DEF DropLock, Goto, Way, Paths, TaskTyped, LockedPcs
  <2>15. ASSUME Tell(p) PROVE Way(p)'
    BY <2>15, LeaveWay DEF Tell, LockedPcs
  <2>16. ASSUME NoCalendar(p) PROVE Way(p)'
    BY <2>16, <2>0, FinishedWay DEF NoCalendar, Goto, Way, Paths, TaskTyped, LockedPcs
  <2>17. ASSUME CreateScheduled(p) PROVE Way(p)'
    BY <2>17, <2>0 DEF CreateScheduled, Goto, Way, Paths, TaskTyped, LockedPcs
  <2>18. ASSUME SetScheduled(p) PROVE Way(p)'
    BY <2>18, <2>0, FinishedWay DEF SetScheduled, Goto, Way, Paths, TaskTyped, LockedPcs
  <2>19. ASSUME NoAnnouncement(p) PROVE Way(p)'
    BY <2>19, <2>0 DEF NoAnnouncement, Goto, Way, Paths, TaskTyped, LockedPcs
  <2>20. ASSUME Announce(p) PROVE Way(p)'
    BY <2>20, <2>0 DEF Announce, Goto, Way, Paths, TaskTyped, LockedPcs
  <2>21. ASSUME SetAnnounced(p) PROVE Way(p)'
    BY <2>21, <2>0 DEF SetAnnounced, Goto, Way, Paths, TaskTyped, LockedPcs
  <2>22. ASSUME Uncalendar(p) PROVE Way(p)'
    BY <2>22, <2>0 DEF Uncalendar, Goto, Way, Paths, TaskTyped, LockedPcs
  <2>23. ASSUME Unannounce(p) PROVE Way(p)'
    BY <2>23, <2>0 DEF Unannounce, Goto, Way, Paths, TaskTyped, LockedPcs
  <2>24. ASSUME AutoApprove(p) PROVE Way(p)'
    BY <2>24, <2>0 DEF AutoApprove, Goto, Way, Paths, TaskTyped, LockedPcs
  <2>25. ASSUME UpdateEvent(p) PROVE Way(p)'
    BY <2>25, <2>0, FinishedWay DEF UpdateEvent, Way, Paths, TaskTyped, LockedPcs
  <2>26. ASSUME MakePlace(p) PROVE Way(p)'
    BY <2>26, <2>0 DEF MakePlace, Goto, Way, Paths, TaskTyped, LockedPcs
  <2>27. ASSUME PlaceRefused(p) PROVE Way(p)'
    BY <2>27, <2>0, FinishedWay DEF PlaceRefused, Goto, Way, Paths, TaskTyped, LockedPcs
  <2>28. ASSUME CancelUnplaced(p) PROVE Way(p)'
    BY <2>28, <2>0, FinishedWay DEF CancelUnplaced, Way, Paths, TaskTyped, LockedPcs
  <2>29. ASSUME SetReview(p) PROVE Way(p)'
    BY <2>29, <2>0 DEF SetReview, Goto, Way, Paths, TaskTyped, LockedPcs
  <2>30. ASSUME SetReviewKind(p) PROVE Way(p)'
    BY <2>30, <2>0, FinishedWay DEF SetReviewKind, Goto, Way, Paths, TaskTyped, LockedPcs
  <2>31. ASSUME PostCard(p) PROVE Way(p)'
    BY <2>31, <2>0, FinishedWay DEF PostCard, Goto, Way, Paths, TaskTyped, LockedPcs
  <2>32. ASSUME SetCard(p) PROVE Way(p)'
    BY <2>32, <2>0, FinishedWay DEF SetCard, Way, Paths, TaskTyped, LockedPcs
  <2>33. ASSUME DeleteRefused(p) PROVE Way(p)'
    BY <2>33, <2>0, FinishedWay DEF DeleteRefused, Way, Paths, TaskTyped, LockedPcs
  <2>34. ASSUME Forget(p) PROVE Way(p)'
    BY <2>34, <2>0, FinishedWay DEF Forget, Way, Paths, TaskTyped, LockedPcs
  <2>35. ASSUME DueLive(p) PROVE Way(p)'
    BY <2>35, <2>0, FinishedWay DEF DueLive, Goto, Way, Paths, TaskTyped, LockedPcs
  <2>40. ASSUME TakeUp(p) PROVE Way(p)'
    BY <2>40, <2>0 DEF TakeUp, Queue, Way, Paths, TaskTyped, LockedPcs
  <2>36. ASSUME NoGoLivePost(p) PROVE Way(p)'
    BY <2>36, LeaveWay DEF NoGoLivePost, LockedPcs
  <2>37. ASSUME GoLivePost(p) PROVE Way(p)'
    BY <2>37, LeaveWay DEF GoLivePost, LockedPcs
  <2>38. ASSUME Recheck(p) PROVE Way(p)'
    BY <2>38, <2>0 DEF Recheck, Goto, Queue, Way, Paths, TaskTyped, LockedPcs
  <2>39. ASSUME Tidy(p) PROVE Way(p)'
    BY <2>39, <2>0, FinishedWay DEF Tidy, Goto, Way, Paths, TaskTyped, LockedPcs, Resolves
  <2> QED
    BY <1>1, <2>1, <2>2, <2>3, <2>4, <2>5, <2>6, <2>7, <2>8, <2>9, <2>10, <2>11, <2>12, <2>13,
       <2>14, <2>15, <2>16, <2>17, <2>18, <2>19, <2>20, <2>21, <2>22, <2>23, <2>24, <2>25, <2>26,
       <2>27, <2>28, <2>29, <2>30, <2>31, <2>32, <2>33, <2>34, <2>35, <2>36, <2>37, <2>38,
       <2>39, <2>40 DEF Start, Pass, Continue
<1>2. ASSUME NEW p \in Procs, DeletePlace(p) PROVE Paths'
  <2>1. got[p] \in Places /\ places[got[p]] = "there" /\ pc[p] = "deletePlace"
    BY <1>2 DEF DeletePlace, Paths, Way
  <2>2. pc[got[p]] = "idle" /\ got[p] # p /\ got[p] \in Procs
    BY <2>1, PlaceIsNoTask DEF Paths, Way
  <2>3. /\ pc' = [pc EXCEPT ![got[p]] = "heard", ![p] = "forget"]
        /\ places' = [places EXCEPT ![got[p]] = "gone"] /\ UNCHANGED <<op, got>>
    BY <1>2 DEF DeletePlace, Gone
  <2>4. ASSUME NEW q \in Procs PROVE Way(q)'
    <3>1. Way(q) /\ Way(p) /\ pc \in [Procs -> Labels]
      BY DEF Paths, TypeInv, TaskTyped
    <3>2. CASE q = p
      BY <2>1, <2>2, <2>3, <3>1, <3>2 DEF Way, LockedPcs, TypeInv, WorldTyped
    <3>3. CASE q = got[p]
      BY <2>1, <2>2, <2>3, <3>1, <3>3 DEF Way, LockedPcs, TypeInv, WorldTyped
    <3>4. CASE q # p /\ q # got[p]
      BY <2>1, <2>2, <2>3, <3>1, <3>4 DEF Way, LockedPcs, TypeInv, WorldTyped
    <3> QED
      BY <3>2, <3>3, <3>4
  <2> QED
    BY <2>4 DEF Paths
<1>3. ASSUME NEW pl \in Places, HandDelete(pl) PROVE Paths'
  <2>1. /\ pl \in Procs /\ \A q \in Procs : q # pl => Stays(q)
        /\ pc'[pl] = "heard" /\ places'[pl] = "gone" /\ UNCHANGED <<op, got>>
    BY <1>3, PlaceIsNoTask DEF HandDelete, Goto, Gone, Stays, TypeInv, TaskTyped, WorldTyped
  <2>2. Way(pl)'
    BY <2>1 DEF Way, LockedPcs
  <2> QED
    BY <2>1, <2>2, OthersWay
<1>4. ASSUME NEW pl \in Places, Hear(pl) PROVE Paths'
  <2>1. /\ pl \in Procs /\ \A q \in Procs : q # pl => Stays(q)
        /\ places[pl] = "gone" /\ places' = places
    BY <1>4, PlaceIsNoTask
       DEF Hear, Goto, Finish, Queue, Stays, TypeInv, TaskTyped, Paths, Way, discordVars
  <2>2. \/ Finish(pl)
        \/ pc'[pl] \in {"wait", "forget"} /\ op'[pl] # "deleteRoom"
        \/ pc'[pl] = "forget"
    BY <1>4, <2>1 DEF Hear, Goto, Queue, TypeInv, TaskTyped
  <2>3. Way(pl)'
    BY <2>1, <2>2, FinishedWay DEF Way, LockedPcs
  <2> QED
    BY <2>1, <2>3, OthersWay
<1>5. CASE Crash
  BY <1>5 DEF Crash, Paths, Way, LockedPcs
<1>6. CASE Tick \/ UNCHANGED vars
  BY <1>6 DEF Tick, vars, discordVars, Paths, Way
<1>7. ASSUME NEW p \in Procs, Start(p) \/ Pass(p) \/ Lock(p) \/ Continue(p), ~DeletePlace(p)
      PROVE  Paths'
  BY <1>7, <1>1, Alone, OthersWay
<1> QED
  BY <1>2, <1>3, <1>4, <1>5, <1>6, <1>7 DEF Next

-------------------------------------------------------------------------------
(* Rooms.  Without posts an event gets one room at most, so what a task has to  *)
(* know of it is whether it is made, named by the row, or gone.                 *)

Used(pl) == places[pl] # "unused"

OneRoomMade == \A a, b \in Places : Used(a) /\ Used(b) => a = b
NothingYet == row.status = Absent => /\ \A p \in Procs : pc[p] # "makeRoom"
                                     /\ \A pl \in Places : ~Used(pl)
Hands(p) == /\ pc[p] = "makeRoom" => /\ \A pl \in Places : ~Used(pl)
                                     /\ \A q \in Procs : pc[q] = "makeRoom" => q = p
            /\ pc[p] \in {"review", "card", "setCard"} => got[p] \in Places /\ Used(got[p])
            /\ pc[p] = "forget" => \E pl \in Places : places[pl] = "gone"
RowNamesAPlace == row.review \in Places => Used(row.review)
RoomIsKnown ==
    faults.crashes = 0 =>
        \A pl \in Places : places[pl] = "there" =>
            row.review = pl \/ \E p \in Procs : pc[p] = "review" /\ got[p] = pl
RoomsInv == /\ OneRoomMade /\ NothingYet /\ RowNamesAPlace /\ RoomIsKnown
            /\ \A p \in Procs : Hands(p)

\* The labels at which a task has a room to make, to name or to forget.
Carrying == {"makeRoom", "review", "card", "setCard", "forget"}

\* What a step may not touch if it is to say nothing about rooms.
Aside(p) == /\ places' = places /\ row'.review = row.review
            /\ row'.status = Absent => row.status = Absent
            /\ faults'.crashes = faults.crashes
            /\ pc'[p] \notin Carrying /\ pc[p] # "review"

\* Such a step keeps the rooms as they are known.
LEMMA AsideKeeps ==
    ASSUME TypeInv, RoomsInv, NEW p \in Procs, Aside(p), \A q \in Procs : q # p => Stays(q)
    PROVE  RoomsInv'
<1>1. OneRoomMade' /\ RowNamesAPlace'
  BY DEF RoomsInv, OneRoomMade, RowNamesAPlace, Aside, Used
<1>2. \A q \in Procs : pc'[q] \in Carrying => pc'[q] = pc[q] /\ got'[q] = got[q]
  BY DEF Aside, Stays
<1>3. NothingYet'
  BY <1>2 DEF RoomsInv, NothingYet, Aside, Used, Carrying
<1>4. \A q \in Procs : Hands(q)'
  BY <1>2 DEF RoomsInv, Hands, Aside, Used, Carrying
<1>5. RoomIsKnown'
  BY DEF RoomsInv, RoomIsKnown, Aside, Stays
<1> QED
  BY <1>1, <1>3, <1>4, <1>5 DEF RoomsInv

\* Where a task can be when it has let the lock go.
LEMMA LeaveTo ==
    ASSUME TypeInv, NEW p \in Procs, Leave(p)
    PROVE  pc'[p] \in {"idle", "dueLive", "deletePlace", "swept"}
<1>1. AfterLock(op[p]) \in {"idle", "dueLive", "deletePlace", "swept"}
  BY DEF AfterLock
<1> QED
  BY <1>1 DEF Leave, Finish, Goto, TypeInv, TaskTyped

\* Most steps of a task have nothing to do with rooms.
LEMMA MostStepAside ==
    ASSUME TypeInv, Posts = {}, NEW p \in Procs, Start(p) \/ Pass(p) \/ Lock(p) \/ Continue(p)
    PROVE  \/ Aside(p)
           \/ StartPropose(p) \/ StartAutomatic(p) \/ MakePlace(p) \/ SetReview(p) \/ PostCard(p)
           \/ SetCard(p) \/ DeletePlace(p) \/ Forget(p) \/ Tidy(p)
<1> USE DEF TypeInv
<1> DEFINE Goal == Aside(p)
<1>1. ASSUME StartDecision(p) PROVE Goal
  BY <1>1 DEF StartDecision, Queue, Aside, Carrying, TaskTyped, WorldTyped, Rows, discordVars, Idle
<1>2. ASSUME StartCancel(p) PROVE Goal
  BY <1>2 DEF StartCancel, Queue, Aside, Carrying, TaskTyped, WorldTyped, Rows, discordVars, Idle
<1>3. ASSUME StartDeleteRoom(p) PROVE Goal
  BY <1>3 DEF StartDeleteRoom, Goto, Queue, Aside, Carrying, TaskTyped, WorldTyped, Rows,
         discordVars, Idle
<1>4. ASSUME StartMove(p) PROVE Goal
  BY <1>4 DEF StartMove, Goto, Aside, Carrying, TaskTyped, WorldTyped, Rows, discordVars, Idle
<1>5. ASSUME StartEdit(p) PROVE Goal
  BY <1>5 DEF StartEdit, Goto, Aside, Carrying, TaskTyped, WorldTyped, Rows, discordVars, Idle
<1>6. ASSUME GoLiveTick(p) PROVE Goal
  BY <1>6 DEF GoLiveTick, Goto, Aside, Carrying, TaskTyped, WorldTyped, Rows, discordVars
<1>7. ASSUME SweepTick(p) PROVE Goal
  BY <1>7 DEF SweepTick, Goto, Aside, Carrying, TaskTyped, WorldTyped, Rows, discordVars
<1>8. ASSUME Lock(p) PROVE Goal
  BY <1>8 DEF Lock, Goto, Aside, Carrying, TaskTyped, WorldTyped, Rows, discordVars
<1>9. ASSUME Reread(p) PROVE Goal
  BY <1>9 DEF Reread, Goto, Aside, Carrying, TaskTyped, WorldTyped, Rows, discordVars
<1>10. ASSUME TooLate(p) PROVE Goal
  BY <1>10, LeaveTo DEF TooLate, Aside, Carrying, TaskTyped, WorldTyped, Rows, discordVars
<1>11. ASSUME SetStatus(p) PROVE Goal
  BY <1>11, WritesTyped DEF SetStatus, Goto, Aside, Carrying, TaskTyped, WorldTyped, Rows,
         discordVars, Statuses, Absent, Pending, Approved, Denied, Live, Done, Cancelled
<1>12. ASSUME DropLock(p) PROVE Goal
  BY <1>12 DEF DropLock, Goto, Aside, Carrying, TaskTyped, WorldTyped, Rows, discordVars
<1>13. ASSUME Tell(p) PROVE Goal
  BY <1>13, LeaveTo DEF Tell, Aside, Carrying, TaskTyped, WorldTyped, Rows, discordVars
<1>14. ASSUME NoCalendar(p) PROVE Goal
  BY <1>14 DEF NoCalendar, Goto, Finish, Aside, Carrying, TaskTyped, WorldTyped, Rows, discordVars
<1>15. ASSUME CreateScheduled(p) PROVE Goal
  BY <1>15 DEF CreateScheduled, Goto, Aside, Carrying, TaskTyped, WorldTyped, Rows, discordVars
<1>16. ASSUME SetScheduled(p) PROVE Goal
  BY <1>16 DEF SetScheduled, Goto, Finish, Aside, Carrying, TaskTyped, WorldTyped, Rows, discordVars
<1>17. ASSUME NoAnnouncement(p) PROVE Goal
  BY <1>17 DEF NoAnnouncement, Goto, Aside, Carrying, TaskTyped, WorldTyped, Rows, discordVars
<1>18. ASSUME Announce(p) PROVE Goal
  BY <1>18 DEF Announce, Goto, Aside, Carrying, TaskTyped, WorldTyped, Rows, discordVars
<1>19. ASSUME SetAnnounced(p) PROVE Goal
  BY <1>19 DEF SetAnnounced, Goto, Aside, Carrying, TaskTyped, WorldTyped, Rows, discordVars
<1>20. ASSUME Uncalendar(p) PROVE Goal
  BY <1>20 DEF Uncalendar, Goto, Aside, Carrying, TaskTyped, WorldTyped, Rows, discordVars
<1>21. ASSUME Unannounce(p) PROVE Goal
  BY <1>21 DEF Unannounce, Goto, Aside, Carrying, TaskTyped, WorldTyped, Rows, discordVars
<1>22. ASSUME AutoApprove(p) PROVE Goal
  BY <1>22 DEF AutoApprove, Goto, Aside, Carrying, TaskTyped, WorldTyped, Rows, discordVars,
         Absent, Approved
<1>23. ASSUME UpdateEvent(p) PROVE Goal
  BY <1>23 DEF UpdateEvent, Finish, Aside, Carrying, TaskTyped, WorldTyped, Rows, discordVars
<1>24. ASSUME PlaceRefused(p) PROVE Goal
  BY <1>24 DEF PlaceRefused, Goto, Finish, Aside, Carrying, TaskTyped, WorldTyped, Rows, discordVars
<1>25. ASSUME CancelUnplaced(p) PROVE Goal
  BY <1>25 DEF CancelUnplaced, Finish, Aside, Carrying, TaskTyped, WorldTyped, Rows, discordVars,
         Absent, Cancelled
<1>26. ASSUME SetReviewKind(p) PROVE Goal
  BY <1>26 DEF SetReviewKind, Goto, Finish, Aside, Carrying, TaskTyped, WorldTyped, Rows,
         discordVars
<1>27. ASSUME DeleteRefused(p) PROVE Goal
  BY <1>27 DEF DeleteRefused, Finish, Aside, Carrying, TaskTyped, WorldTyped, Rows, discordVars
<1>28. ASSUME DueLive(p) PROVE Goal
  BY <1>28 DEF DueLive, Goto, Finish, Aside, Carrying, TaskTyped, WorldTyped, Rows, discordVars
<1>40. ASSUME TakeUp(p) PROVE Goal
  BY <1>40 DEF TakeUp, Queue, Aside, Carrying, TaskTyped, WorldTyped, Rows, discordVars
<1>29. ASSUME NoGoLivePost(p) PROVE Goal
  BY <1>29, LeaveTo DEF NoGoLivePost, Aside, Carrying, TaskTyped, WorldTyped, Rows, discordVars
<1>30. ASSUME GoLivePost(p) PROVE Goal
  BY <1>30, LeaveTo DEF GoLivePost, Aside, Carrying, TaskTyped, WorldTyped, Rows, discordVars
<1>31. ASSUME Recheck(p) PROVE Goal
  BY <1>31 DEF Recheck, Goto, Queue, Aside, Carrying, TaskTyped, WorldTyped, Rows, discordVars
<1> QED
  BY <1>1, <1>2, <1>3, <1>4, <1>5, <1>6, <1>7, <1>8, <1>9, <1>10, <1>11, <1>12, <1>13, <1>14,
     <1>15, <1>16, <1>17, <1>18, <1>19, <1>20, <1>21, <1>22, <1>23, <1>24, <1>25, <1>26, <1>27,
     <1>28, <1>29, <1>30, <1>31, <1>40
  DEF Start, Pass, Continue

LEMMA RoomsInit == Init => RoomsInv
BY ProcsAssumption
   DEF Init, RoomsInv, OneRoomMade, NothingYet, Hands, RowNamesAPlace, RoomIsKnown, Used, NoRow

\* A new event has no room yet, whoever files it.
LEMMA FilingKeeps ==
    ASSUME TypeInv, RoomsInv, Posts = {}, NEW p \in Procs, StartPropose(p) \/ StartAutomatic(p)
    PROVE  RoomsInv'
<1> USE DEF TypeInv
<1>1. /\ row.status = Absent /\ row'.status = Pending /\ row'.review = Nowhere
      /\ places' = places /\ got' = got /\ pc[p] = "idle"
  BY DEF StartPropose, StartAutomatic, NoRow, discordVars, Idle
<1>2. /\ pc'[p] \in {"makeRoom", "makePost", "autoApprove"}
      /\ \A q \in Procs : q # p => pc'[q] = pc[q]
  BY OperationsAssumption DEF StartPropose, StartAutomatic, Goto, TaskTyped
<1>3. /\ \A pl \in Places : ~Used(pl)' /\ ~Used(pl)
      /\ \A q \in Procs : pc[q] # "makeRoom"
  BY <1>1 DEF RoomsInv, NothingYet, Used
<1>4. OneRoomMade' /\ RowNamesAPlace' /\ RoomIsKnown' /\ NothingYet'
  BY <1>1, <1>3, ProcsAssumption
     DEF OneRoomMade, RowNamesAPlace, RoomIsKnown, NothingYet, Used, Absent, Pending
<1>5. ASSUME NEW q \in Procs PROVE Hands(q)'
  BY <1>1, <1>2, <1>3 DEF RoomsInv, Hands, Used
<1> QED
  BY <1>4, <1>5 DEF RoomsInv

\* No step makes a second room, or loses the one there is.
LEMMA RoomsStep == ASSUME TypeInv, Paths, RoomsInv, Posts = {}, [Next]_vars PROVE RoomsInv'
<1> USE DEF TypeInv
<1>1. ASSUME NEW p \in Procs, StartPropose(p) \/ StartAutomatic(p) PROVE RoomsInv'
  BY <1>1, FilingKeeps
<1>2. ASSUME NEW p \in Procs, MakePlace(p) PROVE RoomsInv'
  <2>1. PICK pl \in Places : /\ places[pl] = "unused" /\ places' = [places EXCEPT ![pl] = "there"]
                             /\ got' = [got EXCEPT ![p] = pl] /\ pc[p] = "makeRoom"
    BY <1>2 DEF MakePlace
  <2>2. /\ \A q \in Procs : q # p => Stays(q)
        /\ pc'[p] = "review" /\ got'[p] = pl /\ row' = row /\ faults' = faults
    BY <1>2, <2>1 DEF MakePlace, Goto, Stays, TaskTyped
  <2>3. \A a \in Places : ~Used(a)
    BY <2>1 DEF RoomsInv, Hands
  <2>4. places'[pl] = "there" /\ \A a \in Places : a # pl => places'[a] = "unused"
    BY <2>1, <2>3 DEF Used, WorldTyped
  <2>5. OneRoomMade' /\ RowNamesAPlace'
    BY <2>2, <2>3, <2>4 DEF RoomsInv, OneRoomMade, RowNamesAPlace, Used
  <2>6. RoomIsKnown'
    BY <2>2, <2>4 DEF RoomIsKnown
  <2>7. \A q \in Procs : pc'[q] # "makeRoom"
    BY <2>1, <2>2 DEF RoomsInv, Hands, Stays
  <2>8. NothingYet'
    BY <2>1, <2>2 DEF RoomsInv, NothingYet
  <2>9. ASSUME NEW q \in Procs PROVE Hands(q)'
    <3>1. CASE q = p
      BY <2>2, <2>4, <3>1 DEF Hands, Used
    <3>2. CASE q # p
      BY <2>2, <2>3, <2>7, <3>2, PlacesGoOn DEF RoomsInv, Hands, Used, Stays
    <3> QED
      BY <3>1, <3>2
  <2> QED
    BY <2>5, <2>6, <2>8, <2>9 DEF RoomsInv
<1>3. ASSUME NEW p \in Procs, SetReview(p) \/ SetCard(p) \/ PostCard(p) PROVE RoomsInv'
  <2>1. /\ \A q \in Procs : q # p => Stays(q)
        /\ places' = places /\ faults' = faults
        /\ pc[p] \in {"review", "card", "setCard"}
        /\ pc'[p] \in {"card", "setKind", "setCard", "idle"}
        /\ pc'[p] \in {"card", "setCard"} => got'[p] = got[p]
    BY <1>3 DEF SetReview, SetCard, PostCard, Goto, Finish, Stays, TaskTyped, discordVars
  <2>2. /\ row'.status = row.status
        /\ row'.review = IF PostCard(p) THEN row.review ELSE got[p]
        /\ pc[p] = "review" => row'.review = got[p]
    BY <1>3 DEF SetReview, SetCard, PostCard, WorldTyped, Rows
  <2>3. got[p] \in Places /\ Used(got[p])
    BY <2>1 DEF RoomsInv, Hands
  <2>4. OneRoomMade' /\ RowNamesAPlace'
    BY <2>1, <2>2, <2>3 DEF RoomsInv, OneRoomMade, RowNamesAPlace, Used
  <2>5. NothingYet'
    BY <2>1, <2>2 DEF RoomsInv, NothingYet, Used, Stays
  <2>6. RoomIsKnown'
    <3>1. SUFFICES ASSUME faults.crashes = 0, NEW pl \in Places, places[pl] = "there"
                   PROVE  row'.review = pl \/ \E q \in Procs : pc'[q] = "review" /\ got'[q] = pl
      BY <2>1 DEF RoomIsKnown
    <3>2. pl = got[p]
      BY <2>3, <3>1 DEF RoomsInv, OneRoomMade, Used
    <3>3. CASE row'.review = got[p]
      BY <3>2, <3>3
    <3>4. CASE row'.review # got[p]
      <4>1. row'.review = row.review /\ pc[p] # "review"
        BY <2>2, <3>4
      <4> QED
        BY <2>1, <3>1, <4>1 DEF RoomsInv, RoomIsKnown, Stays
    <3> QED
      BY <3>3, <3>4
  <2>7. ASSUME NEW q \in Procs PROVE Hands(q)'
    BY <2>1, <2>3 DEF RoomsInv, Hands, Used, Stays
  <2> QED
    BY <2>4, <2>5, <2>6, <2>7 DEF RoomsInv
<1>4. ASSUME NEW p \in Procs, DeletePlace(p) PROVE RoomsInv'
  <2>1. got[p] \in Places /\ places[got[p]] = "there" /\ pc[p] = "deletePlace"
    BY <1>4 DEF DeletePlace, Paths, Way
  <2>2. pc[got[p]] = "idle" /\ got[p] \in Procs
    BY <2>1, PlaceIsNoTask DEF Paths, Way
  <2>3. /\ pc' = [pc EXCEPT ![got[p]] = "heard", ![p] = "forget"]
        /\ places' = [places EXCEPT ![got[p]] = "gone"] /\ UNCHANGED <<row, got, faults>>
    BY <1>4 DEF DeletePlace, Gone
  <2>4. \A q \in Procs : /\ pc'[q] \in Carrying \ {"forget"} => pc'[q] = pc[q]
                         /\ pc[q] = "review" => pc'[q] = "review"
    BY <2>1, <2>2, <2>3 DEF TaskTyped, Carrying
  <2>5. \A pl \in Places : Used(pl)' <=> Used(pl)
    BY <2>1, <2>3 DEF Used, WorldTyped
  <2>6. OneRoomMade' /\ RowNamesAPlace' /\ NothingYet'
    BY <2>3, <2>4, <2>5 DEF RoomsInv, OneRoomMade, RowNamesAPlace, NothingYet, Carrying
  <2>7. RoomIsKnown'
    <3>1. \A pl \in Places : places'[pl] = "there" => places[pl] = "there"
      BY <2>1, <2>3 DEF WorldTyped
    <3> QED
      BY <2>3, <2>4, <3>1 DEF RoomsInv, RoomIsKnown
  <2>8. places'[got[p]] = "gone"
    BY <2>1, <2>3 DEF WorldTyped
  <2>9. ASSUME NEW q \in Procs PROVE Hands(q)'
    <3>1. Hands(q) /\ got' = got
      BY <2>3 DEF RoomsInv
    <3>2. pc'[q] = "makeRoom" => /\ \A pl \in Places : ~Used(pl)'
                                 /\ \A r \in Procs : pc'[r] = "makeRoom" => r = q
      BY <2>4, <2>5, <3>1 DEF Hands, Carrying
    <3>3. pc'[q] \in {"review", "card", "setCard"} => got'[q] \in Places /\ Used(got[q])'
      BY <2>4, <2>5, <3>1 DEF Hands, Carrying
    <3>4. \E pl \in Places : places'[pl] = "gone"
      BY <2>1, <2>8
    <3> QED
      BY <3>1, <3>2, <3>3, <3>4 DEF Hands
  <2> QED
    BY <2>6, <2>7, <2>9 DEF RoomsInv
<1>5. ASSUME NEW p \in Procs, Forget(p) PROVE RoomsInv'
  <2>1. /\ \A q \in Procs : q # p => Stays(q)
        /\ places' = places /\ faults' = faults /\ pc[p] = "forget" /\ pc'[p] = "idle"
    BY <1>5 DEF Forget, Finish, Stays, TaskTyped, discordVars
  <2>2. row'.status = row.status /\ row'.review \in {row.review, Nowhere}
    BY <1>5 DEF Forget, WorldTyped, Rows
  <2>3. \A pl \in Places : places[pl] # "there"
    BY <2>1 DEF RoomsInv, Hands, OneRoomMade, Used
  <2>4. OneRoomMade' /\ RowNamesAPlace' /\ RoomIsKnown'
    BY <2>1, <2>2, <2>3, ProcsAssumption
       DEF RoomsInv, OneRoomMade, RowNamesAPlace, RoomIsKnown, Used
  <2>5. NothingYet' /\ \A q \in Procs : Hands(q)'
    BY <2>1, <2>2 DEF RoomsInv, NothingYet, Hands, Used, Stays
  <2> QED
    BY <2>4, <2>5 DEF RoomsInv
<1>6. ASSUME NEW p \in Procs, Tidy(p) PROVE RoomsInv'
  <2>1. /\ \A q \in Procs : q # p => Stays(q)
        /\ places' = places /\ faults' = faults /\ row' = row /\ pc[p] = "swept"
        /\ pc'[p] \in {"idle", "deletePlace", "forget"}
    BY <1>6 DEF Tidy, Goto, Finish, Stays, TaskTyped, discordVars
  <2>2. CASE pc'[p] # "forget"
    BY <2>1, <2>2, AsideKeeps DEF Aside, Carrying
  <2>3. CASE pc'[p] = "forget"
    <3>1. row.kind = "room" /\ row.review # Nowhere /\ ~Resolves(row)
      BY <1>6, <2>3 DEF Tidy, Goto, Finish, TaskTyped
    <3>2. row.review \in Places /\ row.review \in Rooms
      BY <3>1 DEF WorldTyped, Rows, Places
    <3>3. places[row.review] = "gone"
      BY <3>1, <3>2 DEF Resolves, RoomsInv, RowNamesAPlace, Used, WorldTyped
    <3>4. OneRoomMade' /\ RowNamesAPlace' /\ RoomIsKnown'
      BY <2>1 DEF RoomsInv, OneRoomMade, RowNamesAPlace, RoomIsKnown, Used, Stays
    <3>5. NothingYet' /\ \A q \in Procs : Hands(q)'
      BY <2>1, <2>3, <3>2, <3>3 DEF RoomsInv, NothingYet, Hands, Used, Stays
    <3> QED
      BY <3>4, <3>5 DEF RoomsInv
  <2> QED
    BY <2>2, <2>3
<1>7. ASSUME NEW pl \in Places, HandDelete(pl) PROVE RoomsInv'
  <2>1. /\ pl \in Procs /\ pc[pl] = "idle" /\ places[pl] = "there"
        /\ \A q \in Procs : q # pl => Stays(q)
        /\ pc'[pl] = "heard" /\ places' = [places EXCEPT ![pl] = "gone"]
        /\ UNCHANGED <<row, got, faults>>
    BY <1>7, PlaceIsNoTask DEF HandDelete, Goto, Gone, Stays, TaskTyped, Paths, Way
  <2>2. \A a \in Places : /\ Used(a)' <=> Used(a)
                          /\ places'[a] = "there" => places[a] = "there"
                          /\ places[a] = "gone" => places'[a] = "gone"
    BY <2>1 DEF Used, WorldTyped
  <2>3. OneRoomMade' /\ RowNamesAPlace' /\ NothingYet'
    BY <2>1, <2>2 DEF RoomsInv, OneRoomMade, RowNamesAPlace, NothingYet, Stays
  <2>4. RoomIsKnown'
    BY <2>1, <2>2 DEF RoomsInv, RoomIsKnown, Stays
  <2>5. ASSUME NEW q \in Procs PROVE Hands(q)'
    BY <2>1, <2>2 DEF RoomsInv, Hands, Stays
  <2> QED
    BY <2>3, <2>4, <2>5 DEF RoomsInv
<1>8. ASSUME NEW pl \in Places, Hear(pl) PROVE RoomsInv'
  <2>1. /\ pl \in Procs /\ pl \notin Posts /\ \A q \in Procs : q # pl => Stays(q)
        /\ places' = places /\ row' = row /\ faults' = faults /\ pc[pl] = "heard"
    BY <1>8, PlaceIsNoTask DEF Hear, Goto, Finish, Queue, Stays, TaskTyped, discordVars
  <2>2. pc'[pl] \in {"wait", "idle"}
    BY <1>8, <2>1 DEF Hear, Finish, Queue, TaskTyped
  <2>3. Aside(pl)
    BY <2>1, <2>2 DEF Aside, Carrying
  <2> QED
    BY <2>1, <2>3, AsideKeeps
<1>9. CASE Crash
  <2>1. /\ UNCHANGED <<row, places>> /\ faults'.crashes # 0
        /\ \A q \in Procs : pc'[q] = "idle"
    BY <1>9 DEF Crash, discordVars, WorldTyped
  <2> QED
    BY <2>1
       DEF RoomsInv, OneRoomMade, NothingYet, Hands, RowNamesAPlace, RoomIsKnown, Used
<1>10. CASE Tick \/ UNCHANGED vars
  <2>1. UNCHANGED <<row, places, pc, got, faults>>
    BY <1>10 DEF Tick, vars, discordVars
  <2>2. OneRoomMade' /\ NothingYet' /\ RowNamesAPlace' /\ RoomIsKnown'
    BY <2>1 DEF RoomsInv, OneRoomMade, NothingYet, RowNamesAPlace, RoomIsKnown, Used
  <2>3. \A q \in Procs : Hands(q)'
    BY <2>1 DEF RoomsInv, Hands, Used
  <2> QED
    BY <2>2, <2>3 DEF RoomsInv
<1>11. ASSUME NEW p \in Procs, Start(p) \/ Pass(p) \/ Lock(p) \/ Continue(p), ~DeletePlace(p),
              Aside(p)
       PROVE  RoomsInv'
  BY <1>11, Alone, AsideKeeps
<1> QED
  BY <1>1, <1>2, <1>3, <1>4, <1>5, <1>6, <1>7, <1>8, <1>9, <1>10, <1>11, MostStepAside DEF Next

\* A room Discord still shows once every handler is through is the one the row names: for any
\* number of buttons, decisions, deletions by staff, by hand and by the sweep, refused rooms and
\* restarts, no room is left behind that nothing will ever sweep.  With posts this is not so: a
\* pass of the sweep between a post's id and its kind forgets the post.
THEOREM NoRoomIsLost == ASSUME Posts = {} PROVE Spec => []NoPlaceLeftBehind
<1> DEFINE Inv == TypeInv /\ Paths /\ RoomsInv
<1>1. Init => Inv
  BY TypeInit, PathsInit, RoomsInit
<1>2. Inv /\ [Next]_vars => Inv'
  BY TaskTypedStep, WorldTypedStep, PathsStep, RoomsStep DEF TypeInv
<1>3. Inv => NoPlaceLeftBehind
  BY DEF RoomsInv, RoomIsKnown, NoPlaceLeftBehind, Quiet, Undisturbed
<1> QED
  BY <1>1, <1>2, <1>3, PTL DEF Spec

-------------------------------------------------------------------------------
(* What is told.  From its check to the last thing it tells or undoes a handler *)
(* has the first lock object, so at most one is there, and what the row says is *)
(* what that one has written.                                                   *)

Section == {"set", "drop", "calendar", "setScheduled", "announce", "setAnnounced",
            "uncalendar", "unannounce", "goLivePost"}

\* What a handler knows where it stands.
Knows(p) ==
    pc[p] \in Section =>
        /\ lock[p] = 0 /\ row.status # Absent
        /\ pc[p] \in {"set", "drop", "uncalendar"} => seen[p].sched = row.sched
        /\ pc[p] = "drop" => row.status = Writes(p)
        /\ pc[p] \in {"uncalendar", "unannounce"} => row.status = Cancelled
        /\ pc[p] \in {"calendar", "setScheduled", "announce", "setAnnounced"}
             => row.status = Approved
        /\ pc[p] = "calendar" => calendar.made = 0
        /\ pc[p] = "setScheduled" => got[p] = 1
        /\ pc[p] \in {"calendar", "setScheduled", "announce"} => public.announced = 0
        /\ pc[p] = "goLivePost" => row.status = Live /\ public.started = 0

\* Nothing is told before its time, and nothing twice.
Counts ==
    /\ calendar.made <= 1 /\ public.announced <= 1 /\ public.started <= 1
    /\ calendar.up \subseteq {1}
    /\ calendar.made = 0 => calendar.up = {}
    /\ public.announced = 0 => public.advert # "up"
    /\ row.status \in {Absent, Pending, Denied} => calendar.made = 0 /\ public.announced = 0
    /\ row.status \in {Absent, Pending, Denied, Approved} => public.started = 0

At(labels) == \E p \in Procs : pc[p] \in labels

\* What is up is on the row, or about to be.
Recorded ==
    faults.crashes = 0 =>
        /\ calendar.up = {} \/ row.sched = 1 \/ At({"setScheduled"})
        /\ public.advert # "up" \/ row.announced \/ At({"setAnnounced"})

\* What a cancelled event has up is about to be taken down.
Undoing ==
    Undisturbed /\ row.status = Cancelled =>
        /\ calendar.up = {} \/ At({"drop", "uncalendar"})
        /\ public.advert # "up" \/ At({"drop", "uncalendar", "unannounce"})

World == Counts /\ Recorded /\ Undoing
Outcome == World /\ \A p \in Procs : Knows(p)

\* One handler at most is in its section.
LEMMA OneInSection ==
    ASSUME LInv, Outcome, NEW p \in Procs, pc[p] \in Section \cup {"read"}, lock[p] = 0
    PROVE  \A q \in Procs : pc[q] \in Section => q = p
BY DEF LInv, LockInv, OneHolder, Holds, LockedPcs, NoBareWriter, Outcome, Knows, Section

\* A step that says nothing of what is told, and is not a section's.
Silent ==
    /\ UNCHANGED <<calendar, public>>
    /\ faults'.crashes = faults.crashes /\ (faults.refused => faults'.refused)
    /\ row'.status = row.status /\ row'.sched = row.sched /\ row'.announced = row.announced
    /\ \A q \in Procs : pc[q] \in Section \/ pc'[q] \in Section => Stays(q)

LEMMA SilentKeeps == ASSUME Outcome, Silent PROVE Outcome'
<1>1. \A L \in SUBSET Section : At(L)' <=> At(L)
  BY DEF Silent, At, Stays
<1>2. Counts'
  BY DEF Outcome, World, Counts, Silent
<1>3. Recorded'
  <2>1. {"setScheduled"} \in SUBSET Section /\ {"setAnnounced"} \in SUBSET Section
    BY DEF Section
  <2> QED
    BY <1>1, <2>1 DEF Outcome, World, Recorded, Silent
<1>4. Undoing'
  <2>1. {"drop", "uncalendar"} \in SUBSET Section
        /\ {"drop", "uncalendar", "unannounce"} \in SUBSET Section
    BY DEF Section
  <2> QED
    BY <1>1, <2>1 DEF Outcome, World, Undoing, Undisturbed, Silent
<1>5. ASSUME NEW q \in Procs PROVE Knows(q)'
  <2>1. CASE pc'[q] \in Section
    BY <2>1 DEF Outcome, Knows, Silent, Stays, Writes, Missed, Ends
  <2>2. CASE pc'[q] \notin Section
    BY <2>2 DEF Knows
  <2> QED
    BY <2>1, <2>2
<1> QED
  BY <1>2, <1>3, <1>4, <1>5 DEF Outcome, World

\* A step from inside a section, or into it, is that task's alone.
LEMMA OthersKnow ==
    ASSUME LInv, Outcome, NEW p \in Procs, pc[p] \in Section \cup {"read"}, lock[p] = 0,
           \A q \in Procs : q # p => Stays(q), Knows(p)', World'
    PROVE  Outcome'
<1> SUFFICES ASSUME NEW q \in Procs, q # p PROVE Knows(q)'
  BY DEF Outcome
<1>1. pc'[q] \notin Section
  BY OneInSection DEF Stays
<1> QED
  BY <1>1 DEF Knows

\* The steps outside the sections are silent.
LEMMA MostStepsSilent ==
    ASSUME EveryWriterLocks, LInv, Outcome, NEW p \in Procs,
           Start(p) \/ Pass(p) \/ Lock(p) \/ Continue(p)
    PROVE  \/ Silent
           \/ Reread(p) \/ SetStatus(p) \/ DropLock(p) \/ NoCalendar(p) \/ CreateScheduled(p)
           \/ SetScheduled(p) \/ NoAnnouncement(p) \/ Announce(p) \/ SetAnnounced(p)
           \/ Uncalendar(p) \/ Unannounce(p) \/ NoGoLivePost(p) \/ GoLivePost(p)
           \/ StartPropose(p) \/ DeletePlace(p)
<1> USE DEF LInv, TypeInv
<1> DEFINE Goal == /\ UNCHANGED <<calendar, public>>
                   /\ faults'.crashes = faults.crashes /\ (faults.refused => faults'.refused)
                   /\ row'.status = row.status /\ row'.sched = row.sched
                   /\ row'.announced = row.announced
                   /\ pc[p] \notin Section /\ pc'[p] \notin Section
<1>1. ASSUME StartDecision(p) PROVE Goal
  BY <1>1 DEF StartDecision, Queue, Section, TaskTyped, WorldTyped, Rows, discordVars, Idle
<1>2. ASSUME StartCancel(p) PROVE Goal
  BY <1>2 DEF StartCancel, Queue, Section, TaskTyped, WorldTyped, Rows, discordVars, Idle
<1>3. ASSUME StartDeleteRoom(p) PROVE Goal
  BY <1>3 DEF StartDeleteRoom, Goto, Queue, Section, TaskTyped, WorldTyped, Rows, discordVars, Idle
<1>4. ASSUME StartMove(p) PROVE Goal
  BY <1>4 DEF StartMove, Goto, Section, TaskTyped, WorldTyped, Rows, discordVars, Idle
<1>5. ASSUME StartEdit(p) PROVE Goal
  BY <1>5 DEF StartEdit, Goto, Section, TaskTyped, WorldTyped, Rows, discordVars, Idle
<1>6. ASSUME GoLiveTick(p) PROVE Goal
  BY <1>6 DEF GoLiveTick, Goto, Section, TaskTyped, WorldTyped, Rows, discordVars
<1>7. ASSUME SweepTick(p) PROVE Goal
  BY <1>7 DEF SweepTick, Goto, Section, TaskTyped, WorldTyped, Rows, discordVars
<1>8. ASSUME Lock(p) PROVE Goal
  BY <1>8 DEF Lock, Goto, Section, TaskTyped, WorldTyped, Rows, discordVars
<1>9. ASSUME TooLate(p) PROVE Goal
  BY <1>9, LeaveTo DEF TooLate, Section, TaskTyped, WorldTyped, Rows, discordVars
<1>10. ASSUME Tell(p) PROVE Goal
  BY <1>10, LeaveTo DEF Tell, Section, TaskTyped, WorldTyped, Rows, discordVars
<1>11. ASSUME UpdateEvent(p) PROVE Goal
  BY <1>11 DEF UpdateEvent, Finish, Section, TaskTyped, WorldTyped, Rows, discordVars
<1>12. ASSUME MakePlace(p) PROVE Goal
  BY <1>12 DEF MakePlace, Goto, Section, TaskTyped, WorldTyped, Rows, discordVars
<1>13. ASSUME PlaceRefused(p) PROVE Goal
  BY <1>13 DEF PlaceRefused, Goto, Finish, Section, TaskTyped, WorldTyped, Rows, discordVars
<1>14. ASSUME SetReview(p) PROVE Goal
  BY <1>14 DEF SetReview, Goto, Section, TaskTyped, WorldTyped, Rows, discordVars
<1>15. ASSUME SetReviewKind(p) PROVE Goal
  BY <1>15 DEF SetReviewKind, Goto, Finish, Section, TaskTyped, WorldTyped, Rows, discordVars
<1>16. ASSUME PostCard(p) PROVE Goal
  BY <1>16 DEF PostCard, Goto, Finish, Section, TaskTyped, WorldTyped, Rows, discordVars
<1>17. ASSUME SetCard(p) PROVE Goal
  BY <1>17 DEF SetCard, Finish, Section, TaskTyped, WorldTyped, Rows, discordVars
<1>18. ASSUME DeleteRefused(p) PROVE Goal
  BY <1>18 DEF DeleteRefused, Finish, Section, TaskTyped, WorldTyped, Rows, discordVars
<1>19. ASSUME Forget(p) PROVE Goal
  BY <1>19 DEF Forget, Finish, Section, TaskTyped, WorldTyped, Rows, discordVars
<1>20. ASSUME DueLive(p) PROVE Goal
  BY <1>20 DEF DueLive, Goto, Finish, Section, TaskTyped, WorldTyped, Rows, discordVars
<1>25. ASSUME TakeUp(p) PROVE Goal
  BY <1>25 DEF TakeUp, Queue, Section, TaskTyped, WorldTyped, Rows, discordVars
<1>21. ASSUME Recheck(p) PROVE Goal
  BY <1>21 DEF Recheck, Goto, Queue, Section, TaskTyped, WorldTyped, Rows, discordVars
<1>22. ASSUME Tidy(p) PROVE Goal
  BY <1>22 DEF Tidy, Goto, Finish, Section, TaskTyped, WorldTyped, Rows, discordVars
<1>23. ~StartAutomatic(p) /\ ~AutoApprove(p) /\ ~CancelUnplaced(p)
  BY DEF EveryWriterLocks, NoBareWriter, StartAutomatic, AutoApprove, CancelUnplaced, Idle
<1>24. Goal /\ ~DeletePlace(p) => Silent
  BY Alone DEF Silent
<1> QED
  BY <1>1, <1>2, <1>3, <1>4, <1>5, <1>6, <1>7, <1>8, <1>9, <1>10, <1>11, <1>12, <1>13, <1>14,
     <1>15, <1>16, <1>17, <1>18, <1>19, <1>20, <1>21, <1>22, <1>23, <1>24, <1>25
  DEF Start, Pass, Continue

\* Inside a section the task at work is the only one to look for.
LEMMA Here ==
    ASSUME LInv, Outcome, NEW p \in Procs, pc[p] \in Section \cup {"read"}, lock[p] = 0,
           \A q \in Procs : q # p => Stays(q)
    PROVE  /\ At({"setScheduled"}) <=> pc[p] = "setScheduled"
           /\ At({"setAnnounced"}) <=> pc[p] = "setAnnounced"
           /\ At({"drop", "uncalendar"}) <=> pc[p] \in {"drop", "uncalendar"}
           /\ At({"drop", "uncalendar", "unannounce"})
                <=> pc[p] \in {"drop", "uncalendar", "unannounce"}
           /\ At({"setScheduled"})' <=> pc'[p] = "setScheduled"
           /\ At({"setAnnounced"})' <=> pc'[p] = "setAnnounced"
           /\ At({"drop", "uncalendar"})' <=> pc'[p] \in {"drop", "uncalendar"}
           /\ At({"drop", "uncalendar", "unannounce"})'
                <=> pc'[p] \in {"drop", "uncalendar", "unannounce"}
<1>1. \A q \in Procs : q # p => pc[q] \notin Section /\ pc'[q] \notin Section
  BY OneInSection DEF Stays
<1> QED
  BY <1>1 DEF At, Section

\* Where the table leads to.
LEMMA WhatComesBefore ==
    ASSUME NEW s, NEW t, CanTransition(s, t)
    PROVE  /\ t = Approved => s \in {Pending, Denied}
           /\ t = Denied => s = Pending
           /\ t = Live => s = Approved
           /\ t \notin {Absent, Pending} /\ s # Absent
BY DEF CanTransition, Transitions, Statuses, Absent, Pending, Approved, Denied, Live, Done,
       Cancelled

\* The steps of a section, in the order it takes them: the row is read,
LEMMA RereadKeeps ==
    ASSUME EveryWriterLocks, LInv, Outcome, NEW p \in Procs, Reread(p),
           \A q \in Procs : q # p => Stays(q)
    PROVE  Outcome'
<1> USE DEF LInv, TypeInv
<1>1. /\ pc[p] = "read" /\ pc'[p] = "set" /\ seen'[p] = row /\ lock' = lock
      /\ UNCHANGED <<row, calendar, public, faults>>
  BY DEF Reread, Goto, TaskTyped, discordVars
<1>2. row.status # Absent /\ row.status \notin TerminalStatuses
  BY MovableIsNotTerminal, WhatComesBefore DEF Reread
<1>3. lock[p] = 0
  BY <1>2 DEF LockInv, DroppedWhenSettled, NoNewerLock, TaskTyped, WorldTyped
<1>4. Knows(p)'
  BY <1>1, <1>2, <1>3 DEF Knows
<1>5. World'
  BY <1>1, <1>3, Here DEF Outcome, World, Counts, Recorded, Undoing, Undisturbed
<1> QED
  BY <1>1, <1>3, <1>4, <1>5, OthersKnow

\* the status is written,
LEMMA SetStatusKeeps ==
    ASSUME EveryWriterLocks, LInv, Outcome, NEW p \in Procs, SetStatus(p),
           \A q \in Procs : q # p => Stays(q)
    PROVE  Outcome'
<1> USE DEF LInv, TypeInv
<1>1. /\ pc[p] = "set" /\ UNCHANGED <<calendar, public, faults, op, lock, seen, got, stamp>>
      /\ row' = [row EXCEPT !.status = Writes(p)]
      /\ pc'[p] = CASE Writes(p) \in TerminalStatuses -> "drop"
                    [] Writes(p) = Approved -> "calendar"
                    [] Writes(p) = Live     -> "goLivePost"
                    [] OTHER                -> "tell"
  BY DEF SetStatus, Goto, TaskTyped, discordVars
<1>2. row'.status = Writes(p) /\ row'.sched = row.sched /\ row'.announced = row.announced
  BY <1>1 DEF WorldTyped, Rows
<1>3. CanTransition(row.status, Writes(p))
  BY <1>1, WritesAllowed DEF LockInv, DecisionStillAllowed
<1>4. /\ Writes(p) = Approved => row.status \in {Pending, Denied}
      /\ Writes(p) = Denied => row.status = Pending
      /\ Writes(p) = Live => row.status = Approved
      /\ Writes(p) \notin {Absent, Pending}
  BY <1>3, WhatComesBefore
<1>5. Approved \notin TerminalStatuses /\ Live \notin TerminalStatuses /\ Approved # Live
      /\ Cancelled \in TerminalStatuses
  BY DEF TerminalStatuses, Transitions, Statuses, Pending, Approved, Denied, Live, Done, Cancelled
<1>6. /\ pc'[p] \in {"drop", "calendar", "goLivePost", "tell"}
      /\ pc'[p] = "calendar" => Writes(p) = Approved
      /\ pc'[p] = "goLivePost" => Writes(p) = Live
      /\ Writes(p) = Cancelled => pc'[p] = "drop"
  BY <1>1, <1>5
<1>7. lock[p] = 0 /\ seen[p].sched = row.sched
  BY <1>1 DEF Outcome, Knows, Section
<1>8. Writes(p)' = Writes(p)
  BY <1>1 DEF Writes, Missed, Ends
<1>9. Knows(p)'
  BY <1>1, <1>2, <1>4, <1>6, <1>7, <1>8 DEF Knows, Outcome, World, Counts
<1>10. Counts'
  BY <1>1, <1>2, <1>4 DEF Outcome, World, Counts, Absent, Pending, Approved, Denied, Live, Done,
                          Cancelled
<1>11. Recorded' /\ Undoing'
  BY <1>1, <1>2, <1>6, <1>7, Here DEF Outcome, World, Recorded, Undoing, Undisturbed, Section
<1> QED
  BY <1>1, <1>7, <1>9, <1>10, <1>11, OthersKnow DEF World, Section

\* the lock of a settled event is dropped,
LEMMA DropLockKeeps ==
    ASSUME EveryWriterLocks, LInv, Outcome, NEW p \in Procs, DropLock(p),
           \A q \in Procs : q # p => Stays(q)
    PROVE  Outcome'
<1> USE DEF LInv, TypeInv
<1>1. /\ pc[p] = "drop" /\ UNCHANGED <<row, calendar, public, faults, lock, seen>>
      /\ pc'[p] = IF Writes(p) = Cancelled THEN "uncalendar" ELSE "tell"
  BY DEF DropLock, Goto, TaskTyped, discordVars
<1>2. /\ lock[p] = 0 /\ seen[p].sched = row.sched /\ row.status = Writes(p)
      /\ row.status # Absent
  BY <1>1 DEF Outcome, Knows, Section
<1>3. Knows(p)'
  BY <1>1, <1>2 DEF Knows
<1>4. World'
  BY <1>1, <1>2, Here DEF Outcome, World, Counts, Recorded, Undoing, Undisturbed, Section
<1> QED
  BY <1>1, <1>2, <1>3, <1>4, OthersKnow DEF Section

\* an approval goes to the calendar and to the announce channel,
LEMMA ApprovalKeeps ==
    ASSUME EveryWriterLocks, LInv, Outcome, NEW p \in Procs,
           \/ NoCalendar(p) \/ CreateScheduled(p) \/ SetScheduled(p)
           \/ NoAnnouncement(p) \/ Announce(p) \/ SetAnnounced(p),
           \A q \in Procs : q # p => Stays(q)
    PROVE  Outcome'
<1> USE DEF LInv, TypeInv
<1> DEFINE Telling == {"calendar", "setScheduled", "announce", "setAnnounced"}
<1>1. pc[p] \in Telling /\ op[p] # "automatic"
  BY DEF NoCalendar, CreateScheduled, SetScheduled, NoAnnouncement, Announce, SetAnnounced,
         NoBareWriter
<1>2. pc[p] \in Section /\ Knows(p)
  BY <1>1 DEF Section, Outcome
<1>3. lock[p] = 0 /\ row.status = Approved
  BY <1>1, <1>2 DEF Knows
<1>4. row'.status = row.status /\ lock' = lock /\ faults' = faults
  BY <1>1 DEF NoCalendar, CreateScheduled, SetScheduled, NoAnnouncement, Announce, SetAnnounced,
              WorldTyped, Rows, discordVars
<1>5. Approved \notin {Absent, Pending, Denied, Cancelled, Live}
  BY DEF Absent, Pending, Approved, Denied, Cancelled, Live
<1>6. Undoing'
  BY <1>3, <1>4, <1>5 DEF Undoing
<1>7. CASE NoCalendar(p) \/ NoAnnouncement(p)
  <2>1. /\ pc'[p] = IF pc[p] = "calendar" THEN "announce" ELSE "tell"
        /\ pc[p] \in {"calendar", "announce"} /\ UNCHANGED <<row, calendar, public>>
    BY <1>1, <1>7 DEF NoCalendar, NoAnnouncement, Goto, TaskTyped, discordVars
  <2>2. Knows(p)'
    BY <1>2, <1>3, <1>4, <1>5, <2>1 DEF Knows, Section
  <2>3. Counts' /\ Recorded'
    BY <1>2, <1>3, <1>4, <2>1, Here DEF Outcome, World, Counts, Recorded
  <2> QED
    BY <1>2, <1>3, <1>6, <2>2, <2>3, OthersKnow DEF World
<1>8. CASE CreateScheduled(p)
  <2>1. /\ pc[p] = "calendar" /\ pc'[p] = "setScheduled" /\ UNCHANGED <<row, public>>
        /\ calendar' = [made |-> calendar.made + 1, up |-> calendar.up \cup {calendar.made + 1}]
        /\ got'[p] = calendar.made + 1
    BY <1>8 DEF CreateScheduled, Goto, TaskTyped
  <2>2. calendar.made = 0 /\ calendar.up = {} /\ public.announced = 0
    BY <1>2, <2>1 DEF Knows, Outcome, World, Counts
  <2>3. calendar'.made = 1 /\ calendar'.up = {1}
    BY <2>1, <2>2
  <2>4. Knows(p)'
    BY <1>3, <1>4, <1>5, <2>1, <2>2 DEF Knows
  <2>5. Counts' /\ Recorded'
    BY <1>2, <1>3, <1>4, <1>5, <2>1, <2>2, <2>3, Here DEF Outcome, World, Counts, Recorded
  <2> QED
    BY <1>2, <1>3, <1>6, <2>4, <2>5, OthersKnow DEF World
<1>9. CASE SetScheduled(p)
  <2>1. /\ pc[p] = "setScheduled" /\ pc'[p] = "announce" /\ UNCHANGED <<calendar, public>>
        /\ row' = [row EXCEPT !.sched = got[p]]
    BY <1>1, <1>9 DEF SetScheduled, Goto, TaskTyped, discordVars
  <2>2. row'.sched = 1 /\ row'.announced = row.announced /\ public.announced = 0
    BY <1>2, <2>1 DEF Knows, WorldTyped, Rows
  <2>3. Knows(p)'
    BY <1>3, <1>4, <1>5, <2>1, <2>2 DEF Knows
  <2>4. Counts' /\ Recorded'
    BY <1>2, <1>3, <1>4, <2>1, <2>2, Here DEF Outcome, World, Counts, Recorded
  <2> QED
    BY <1>2, <1>3, <1>6, <2>3, <2>4, OthersKnow DEF World
<1>10. CASE Announce(p)
  <2>1. /\ pc[p] = "announce" /\ pc'[p] = "setAnnounced" /\ UNCHANGED <<row, calendar>>
        /\ public'.announced = public.announced + 1 /\ public'.started = public.started
    BY <1>10 DEF Announce, Goto, TaskTyped, WorldTyped
  <2>2. public.announced = 0
    BY <1>2, <2>1 DEF Knows
  <2>3. Knows(p)'
    BY <1>3, <1>4, <1>5, <2>1 DEF Knows
  <2>4. Counts' /\ Recorded'
    BY <1>2, <1>3, <1>4, <1>5, <2>1, <2>2, Here DEF Outcome, World, Counts, Recorded
  <2> QED
    BY <1>2, <1>3, <1>6, <2>3, <2>4, OthersKnow DEF World
<1>11. CASE SetAnnounced(p)
  <2>1. /\ pc[p] = "setAnnounced" /\ pc'[p] = "tell" /\ UNCHANGED <<calendar, public>>
        /\ row' = [row EXCEPT !.announced = TRUE]
    BY <1>11 DEF SetAnnounced, Goto, TaskTyped, discordVars
  <2>2. row'.sched = row.sched /\ row'.announced
    BY <2>1 DEF WorldTyped, Rows
  <2>3. Knows(p)'
    BY <2>1 DEF Knows, Section
  <2>4. Counts' /\ Recorded'
    BY <1>2, <1>3, <1>4, <2>1, <2>2, Here DEF Outcome, World, Counts, Recorded
  <2> QED
    BY <1>2, <1>3, <1>6, <2>3, <2>4, OthersKnow DEF World
<1> QED
  BY <1>7, <1>8, <1>9, <1>10, <1>11

\* a cancelled event comes off the calendar, by the id that was read before the status was written,
LEMMA UncalendarKeeps ==
    ASSUME EveryWriterLocks, LInv, Outcome, NEW p \in Procs, Uncalendar(p),
           \A q \in Procs : q # p => Stays(q)
    PROVE  Outcome'
<1> USE DEF LInv, TypeInv
<1>1. /\ pc[p] = "uncalendar" /\ pc'[p] = "unannounce" /\ UNCHANGED <<row, public, lock>>
      /\ \/ calendar' = [calendar EXCEPT !.up = @ \ {seen[p].sched}] /\ faults' = faults
         \/ calendar' = calendar /\ faults' = [faults EXCEPT !.refused = TRUE]
  BY DEF Uncalendar, Goto, TaskTyped
<1>2. lock[p] = 0 /\ row.status = Cancelled /\ seen[p].sched = row.sched /\ row.status # Absent
  BY <1>1 DEF Outcome, Knows, Section
<1>3. Knows(p)'
  BY <1>1, <1>2 DEF Knows
<1>4. CASE calendar' = [calendar EXCEPT !.up = @ \ {seen[p].sched}] /\ faults' = faults
  <2>1. calendar'.made = calendar.made /\ calendar'.up = calendar.up \ {row.sched}
    BY <1>2, <1>4 DEF WorldTyped
  <2>2. faults.crashes = 0 => calendar'.up = {}
    BY <1>1, <1>2, <2>1, Here DEF Outcome, World, Counts, Recorded, Section
  <2>3. Counts'
    BY <1>1, <2>1 DEF Outcome, World, Counts
  <2>4. Recorded'
    BY <1>1, <1>2, <1>4, <2>2, Here DEF Outcome, World, Recorded, Section
  <2>5. Undoing'
    BY <1>1, <1>2, <1>4, <2>2, Here DEF Outcome, World, Undoing, Undisturbed, Section
  <2> QED
    BY <1>1, <1>2, <1>3, <2>3, <2>4, <2>5, OthersKnow DEF World, Section
<1>5. CASE calendar' = calendar /\ faults' = [faults EXCEPT !.refused = TRUE]
  <2>1. faults'.refused /\ faults'.crashes = faults.crashes
    BY <1>5 DEF WorldTyped
  <2>2. World'
    BY <1>1, <1>2, <1>5, <2>1, Here
       DEF Outcome, World, Counts, Recorded, Undoing, Undisturbed, Section
  <2> QED
    BY <1>1, <1>2, <1>3, <2>2, OthersKnow DEF Section
<1> QED
  BY <1>1, <1>4, <1>5

\* and its announcement is called off;
LEMMA UnannounceKeeps ==
    ASSUME EveryWriterLocks, LInv, Outcome, NEW p \in Procs, Unannounce(p),
           \A q \in Procs : q # p => Stays(q)
    PROVE  Outcome'
<1> USE DEF LInv, TypeInv
<1>1. /\ pc[p] = "unannounce" /\ pc'[p] = "tell" /\ UNCHANGED <<row, calendar, lock>>
      /\ \/ /\ public' = IF row.announced THEN [public EXCEPT !.advert = "calledOff"] ELSE public
            /\ faults' = faults
         \/ public' = public /\ faults' = [faults EXCEPT !.refused = TRUE]
  BY DEF Unannounce, Goto, TaskTyped
<1>2. lock[p] = 0 /\ row.status = Cancelled
  BY <1>1 DEF Outcome, Knows, Section
<1>3. Knows(p)'
  BY <1>1 DEF Knows, Section
<1>4. /\ public'.announced = public.announced /\ public'.started = public.started
      /\ public'.advert = "up" => public.advert = "up"
      /\ faults'.crashes = faults.crashes
      /\ ~faults'.refused => faults' = faults
  BY <1>1 DEF WorldTyped
<1>5. Counts'
  BY <1>1, <1>4 DEF Outcome, World, Counts
<1>6. Recorded'
  BY <1>1, <1>2, <1>4, Here DEF Outcome, World, Recorded, Section
<1>7. Undoing'
  <2>1. SUFFICES ASSUME Undisturbed' PROVE calendar'.up = {} /\ public'.advert # "up"
    BY DEF Undoing
  <2>2. Undisturbed /\ faults' = faults
    BY <1>4, <2>1 DEF Undisturbed
  <2>3. calendar.up = {}
    BY <1>1, <1>2, <2>2, Here DEF Outcome, World, Undoing, Section
  <2>4. public.advert # "up" \/ row.announced
    BY <1>1, <1>2, <2>2, Here DEF Outcome, World, Recorded, Undisturbed, Section
  <2>5. faults # [faults EXCEPT !.refused = TRUE]
    BY <2>2 DEF Undisturbed, WorldTyped
  <2>6. row.announced => public'.advert = "calledOff"
    BY <1>1, <2>2, <2>5 DEF WorldTyped
  <2> QED
    BY <1>1, <1>4, <2>3, <2>4, <2>6
<1> QED
  BY <1>1, <1>2, <1>3, <1>5, <1>6, <1>7, OthersKnow DEF World, Section

\* and the go-live post is the last thing its section does.
LEMMA GoLiveKeeps ==
    ASSUME EveryWriterLocks, LInv, Outcome, NEW p \in Procs, GoLivePost(p) \/ NoGoLivePost(p),
           \A q \in Procs : q # p => Stays(q)
    PROVE  Outcome'
<1> USE DEF LInv, TypeInv
<1>1. /\ pc[p] = "goLivePost" /\ UNCHANGED <<row, calendar, faults>>
      /\ public'.announced = public.announced /\ public'.advert = public.advert
      /\ public'.started \in {public.started, public.started + 1}
  BY DEF GoLivePost, NoGoLivePost, discordVars, WorldTyped
<1>2. pc'[p] \in {"idle", "dueLive", "deletePlace", "swept"}
  BY LeaveTo DEF GoLivePost, NoGoLivePost
<1>3. lock[p] = 0 /\ row.status = Live /\ public.started = 0
  BY <1>1 DEF Outcome, Knows, Section
<1>4. Knows(p)'
  BY <1>2 DEF Knows, Section
<1>5. Live \notin {Absent, Pending, Approved, Denied, Cancelled}
  BY DEF Absent, Pending, Approved, Denied, Live, Cancelled
<1>6. Counts'
  BY <1>1, <1>3, <1>5 DEF Outcome, World, Counts
<1>7. Recorded'
  BY <1>1, <1>2, <1>3, Here DEF Outcome, World, Recorded, Section
<1>8. Undoing'
  BY <1>1, <1>3, <1>5 DEF Undoing
<1> QED
  BY <1>1, <1>3, <1>4, <1>6, <1>7, <1>8, OthersKnow DEF World, Section

\* A new event has told nothing.
LEMMA ProposeTells ==
    ASSUME LInv, Outcome, NEW p \in Procs, StartPropose(p), \A q \in Procs : q # p => Stays(q)
    PROVE  Outcome'
<1> USE DEF LInv, TypeInv
<1>1. /\ row.status = Absent /\ row'.status = Pending
      /\ UNCHANGED <<calendar, public, faults>>
      /\ pc'[p] \in {"makeRoom", "makePost"}
  BY OperationsAssumption DEF StartPropose, NoRow, Goto, TaskTyped, discordVars
<1>2. /\ calendar.made = 0 /\ public.announced = 0 /\ public.started = 0
      /\ calendar.up = {} /\ public.advert # "up"
  BY <1>1 DEF Outcome, World, Counts
<1>3. \A q \in Procs : pc'[q] \notin Section
  BY <1>1 DEF Outcome, Knows, Section, Stays
<1>4. Counts' /\ Recorded' /\ Undoing'
  BY <1>1, <1>2 DEF Counts, Recorded, Undoing
<1> QED
  BY <1>3, <1>4 DEF Outcome, World, Knows

LEMMA OutcomeInit == Init => Outcome
BY DEF Init, Outcome, World, Counts, Recorded, Undoing, Knows, Section, NoRow, Absent, Cancelled

\* No step tells a thing twice, or leaves of a cancelled event what nobody will undo.
LEMMA OutcomeStep ==
    ASSUME EveryWriterLocks, LInv, Paths, Outcome, [Next]_vars PROVE Outcome'
<1> USE DEF LInv, TypeInv
<1>1. ASSUME NEW p \in Procs, DeletePlace(p) PROVE Outcome'
  <2>1. got[p] \in Places /\ places[got[p]] = "there" /\ pc[p] = "deletePlace"
    BY <1>1 DEF DeletePlace, Paths, Way
  <2>2. pc[got[p]] = "idle" /\ got[p] \in Procs
    BY <2>1, PlaceIsNoTask DEF Paths, Way
  <2>3. /\ pc' = [pc EXCEPT ![got[p]] = "heard", ![p] = "forget"]
        /\ UNCHANGED <<row, op, lock, seen, got, stamp, calendar, public, faults>>
    BY <1>1 DEF DeletePlace
  <2>4. Silent
    BY <2>1, <2>2, <2>3 DEF Silent, Stays, Section, TaskTyped
  <2> QED
    BY <2>4, SilentKeeps
<1>2. ASSUME NEW pl \in Places, HandDelete(pl) PROVE Outcome'
  <2>1. /\ pl \in Procs /\ pc[pl] = "idle" /\ pc' = [pc EXCEPT ![pl] = "heard"]
        /\ UNCHANGED <<row, op, lock, seen, got, stamp, calendar, public, faults>>
    BY <1>2, PlaceIsNoTask DEF HandDelete, Goto, Paths, Way
  <2>2. Silent
    BY <2>1 DEF Silent, Stays, Section, TaskTyped
  <2> QED
    BY <2>2, SilentKeeps
<1>3. ASSUME NEW pl \in Places, Hear(pl) PROVE Outcome'
  <2>1. /\ pl \in Procs /\ pc[pl] = "heard" /\ \A q \in Procs : q # pl => Stays(q)
        /\ UNCHANGED <<row, calendar, public, faults>>
    BY <1>3, PlaceIsNoTask DEF Hear, Goto, Finish, Queue, Stays, TaskTyped, discordVars
  <2>2. pc'[pl] \in {"wait", "idle", "forget"}
    BY <1>3, <2>1 DEF Hear, Goto, Finish, Queue, TaskTyped
  <2>3. Silent
    BY <2>1, <2>2 DEF Silent, Section
  <2> QED
    BY <2>3, SilentKeeps
<1>4. CASE Crash
  <2>1. /\ UNCHANGED <<row, calendar, public>> /\ faults'.crashes # 0
        /\ \A q \in Procs : pc'[q] = "idle"
    BY <1>4 DEF Crash, discordVars, WorldTyped
  <2>2. World'
    BY <2>1 DEF Outcome, World, Counts, Recorded, Undoing, Undisturbed
  <2> QED
    BY <2>1, <2>2 DEF Outcome, Knows, Section
<1>5. CASE Tick \/ UNCHANGED vars
  <2>1. Silent
    BY <1>5 DEF Tick, vars, discordVars, Silent, Stays
  <2> QED
    BY <2>1, SilentKeeps
<1>6. ASSUME NEW p \in Procs, Start(p) \/ Pass(p) \/ Lock(p) \/ Continue(p), ~DeletePlace(p)
      PROVE  Outcome'
  <2>1. \A q \in Procs : q # p => Stays(q)
    BY <1>6, Alone
  <2> QED
    BY <1>6, <2>1, MostStepsSilent, SilentKeeps, RereadKeeps, SetStatusKeeps, DropLockKeeps,
       ApprovalKeeps, UncalendarKeeps, UnannounceKeeps, GoLiveKeeps, ProposeTells
<1> QED
  BY <1>1, <1>2, <1>3, <1>4, <1>5, <1>6 DEF Next

\* The inductive invariant holds throughout.
LEMMA OutcomeHolds == ASSUME EveryWriterLocks PROVE Spec => []Outcome
<1> DEFINE Inv == LInv /\ Paths /\ Outcome
<1>1. Init => Inv
  BY TypeInit, LockInvInit, PathsInit, OutcomeInit DEF LInv
<1>2. Inv /\ [Next]_vars => Inv'
  BY LockStep, TaskTypedStep, WorldTypedStep, PathsStep, OutcomeStep DEF LInv, TypeInv
<1>3. Inv => Outcome
  OBVIOUS
<1> QED
  BY <1>1, <1>2, <1>3, PTL DEF Spec

\* An event gets one scheduled event, one announcement and one go-live post at most, however many
\* buttons are pressed and however often the program is restarted between any two of its steps.
THEOREM NothingIsToldTwice == ASSUME EveryWriterLocks PROVE Spec => []ToldOnce
<1>1. Outcome => ToldOnce
  BY DEF Outcome, World, Counts, ToldOnce
<1> QED
  BY <1>1, OutcomeHolds, PTL

\* Once every handler is through, a cancelled event has nothing on the calendar and no
\* announcement, unless Discord refused to take it down or the program died on the way.
THEOREM CancelUndoesItAll == ASSUME EveryWriterLocks PROVE Spec => []CancelledIsUndone
<1>1. Outcome => CancelledIsUndone
  BY DEF Outcome, World, Undoing, At, CancelledIsUndone, Quiet
<1> QED
  BY <1>1, OutcomeHolds, PTL

-------------------------------------------------------------------------------
(* Moving a room to the forum.  The move deletes a room of an event that is     *)
(* still open, and three readers would call the event off for a lost room: the  *)
(* listener, which asks whether the row still names it, and two passes of the   *)
(* sweep, which judge a row they read some time ago.                            *)

\* Nobody decides, cancels or deletes by hand, nothing fails, and one button is at work at a time:
\* a card that is still being posted would write the old room's id back after the move.
MovesAlone == /\ \A p, q \in Tasks : p = q
              /\ Operations \subseteq {"propose", "move", "edit"}
              /\ ~PlaceMayFail /\ ~HandDeletes
              /\ MaxCrashes = 0
              /\ MaxTime < Grace

\* Between the two statements that file a post, the row names a post as if it were a room,
InBetween == \E p \in Tasks : pc[p] = "setKind"
\* and a pass that saw it that way has been this minute's pass.
Moved == row.kind = "post" \/ (InBetween /\ ~rested)

RowOpen ==
    /\ row.status \in {Absent, Pending}
    /\ row.status = Absent => row = NoRow
    /\ row.kind = "post" => row.review \in Posts
    /\ row.kind = "room" /\ row.review \in Posts => InBetween
    /\ row.review \in Places => places[row.review] = "there"
    /\ \A pl \in Places : places[pl] = "gone" => row.kind = "post"
    /\ missing => Moved
    /\ now <= MaxTime

\* What the task at work carries: the room it looked up, the place it was given.
Mover(p) ==
    /\ pc[p] \in {"idle", "makeRoom", "makePost", "review", "setKind", "card", "setCard",
                  "deletePlace", "forget", "edit"}
    /\ pc[p] # "idle" => row.status = Pending
    /\ seen[p].review = Nowhere \/ (pc[p] # "idle" /\ op[p] = "move" /\ seen[p].review \in Rooms)
    /\ pc[p] \in {"makeRoom", "makePost", "review"} => row.kind = "room" /\ row.review \notin Posts
    /\ pc[p] = "review" => got[p] \in Places /\ places[got[p]] = "there"
    /\ pc[p] = "setKind" => row.kind = "room" /\ row.review \in Posts
    /\ pc[p] \in {"card", "setCard"} => got[p] = row.review /\ row.review \in Rooms
    /\ pc[p] \in {"deletePlace", "forget"} => /\ op[p] = "move" /\ row.kind = "post"
                                              /\ got[p] \in Rooms

\* What the sweep's row says, should the event have been moved since it was read.
Sweeper(p) ==
    /\ pc[p] \in {"idle", "recheck", "swept"}
    /\ stamp[p] <= MaxTime
    /\ pc[p] = "recheck" =>
         /\ missing => seen[p].kind = "post"
         /\ seen[p].review \in Places => places[seen[p].review] # "unused"
         /\ seen[p].kind = "room" /\ seen[p].review \in Posts => Moved

Moving == /\ RowOpen
          /\ \A p \in Tasks : Mover(p)
          /\ Sweeper(ReconcileLoop)
          /\ pc[GoLiveLoop] \in {"idle", "dueLive"}
          /\ \A pl \in Places : pc[pl] = "idle" \/ (pc[pl] = "heard" /\ places[pl] = "gone")

\* The one task is the one between the two statements.
LEMMA OneMover ==
    ASSUME MovesAlone, NEW p \in Tasks
    PROVE  /\ InBetween <=> pc[p] = "setKind"
           /\ InBetween' <=> pc'[p] = "setKind"
BY DEF MovesAlone, InBetween

\* A step of the task at work has only the row and the task itself to answer for.
LEMMA MoverKeeps ==
    ASSUME MovesAlone, TypeInv, [Next]_vars, Moving, NEW p \in Tasks,
           \A q \in Procs : q # p => Stays(q),
           missing' = missing, RowOpen', Mover(p)', Moved => Moved'
    PROVE  Moving'
<1>1. \A q \in Tasks : Mover(q)'
  BY DEF MovesAlone
<1>2. Sweeper(ReconcileLoop)'
  <2>1. ReconcileLoop \in Procs /\ ReconcileLoop # p /\ Stays(ReconcileLoop)
    BY ProcsAssumption DEF Procs
  <2> QED
    BY <2>1, PlacesGoOn DEF Sweeper, Moving, Stays
<1>3. pc'[GoLiveLoop] \in {"idle", "dueLive"}
  <2>1. GoLiveLoop \in Procs /\ GoLiveLoop # p
    BY ProcsAssumption DEF Procs
  <2> QED
    BY <2>1 DEF Moving, Stays
<1>4. \A pl \in Places : pc'[pl] = "idle" \/ (pc'[pl] = "heard" /\ places'[pl] = "gone")
  <2> SUFFICES ASSUME NEW pl \in Places
               PROVE  pc'[pl] = "idle" \/ (pc'[pl] = "heard" /\ places'[pl] = "gone")
    OBVIOUS
  <2>1. pl \in Procs /\ pl # p
    BY PlaceIsNoTask
  <2> QED
    BY <2>1, PlacesGoOn DEF Moving, Stays
<1> QED
  BY <1>1, <1>2, <1>3, <1>4 DEF Moving

\* The steps of the task at work, up to the place it is given and from there on.
Asks(p)  == StartPropose(p) \/ StartMove(p) \/ StartEdit(p) \/ UpdateEvent(p) \/ MakePlace(p)
Files(p) == \/ SetReview(p) \/ SetReviewKind(p) \/ PostCard(p) \/ SetCard(p)
            \/ DeleteRefused(p) \/ Forget(p)

\* A place is asked for while the row names a room or none,
LEMMA StartsMoving ==
    ASSUME MovesAlone, TypeInv, [Next]_vars, Moving, NEW p \in Tasks,
           \A q \in Procs : q # p => Stays(q), Asks(p)
    PROVE  Moving'
<1> USE DEF TypeInv
<1>0. p \in Procs /\ Mover(p) /\ RowOpen
  BY DEF Procs, Moving
<1> SUFFICES missing' = missing /\ RowOpen' /\ Mover(p)' /\ (Moved => Moved')
  BY MoverKeeps
<1>1. CASE StartPropose(p)
  <2>1. PICK t \in StartTimes : row' = [NoRow EXCEPT !.status = Pending, !.starts = t, !.created = now]
    BY <1>1 DEF StartPropose
  <2>2. /\ row = NoRow /\ pc[p] = "idle" /\ row'.status = Pending /\ row'.kind = "room"
        /\ row'.review = Nowhere /\ row.kind = "room"
    BY <1>1, <2>1, <1>0 DEF StartPropose, RowOpen, NoRow, Idle
  <2>3. /\ pc'[p] \in {"makeRoom", "makePost"} /\ op'[p] = "propose" /\ seen'[p] = seen[p]
        /\ UNCHANGED <<places, missing, now, rested>>
    BY <1>0, <1>1, OperationsAssumption DEF StartPropose, TaskTyped, Goto, discordVars
  <2>4. ~Moved
    BY <2>2, OneMover DEF Moved
  <2>5. Nowhere \notin Places /\ Nowhere \notin Posts
    BY ProcsAssumption DEF Places
  <2>6. RowOpen'
    BY <1>0, <2>2, <2>3, <2>4, <2>5 DEF RowOpen, Pending, Absent
  <2>7. Mover(p)'
    BY <1>0, <2>2, <2>3, <2>5 DEF Mover
  <2> QED
    BY <2>3, <2>4, <2>6, <2>7
<1>2. CASE StartMove(p)
  <2>1. /\ pc[p] = "idle" /\ pc'[p] = "makePost" /\ op'[p] = "move"
        /\ seen'[p] = IF Resolves(row) THEN row ELSE NoRow
        /\ UNCHANGED <<row, places, missing, now, rested>>
    BY <1>0, <1>2 DEF StartMove, Idle, Goto, TaskTyped, discordVars
  <2>2. row.kind = "room" /\ row.status = Pending
    BY <1>0, <1>2 DEF StartMove, RowOpen, OpenStatuses, Absent, Pending, Approved, Live
  <2>3. ~InBetween /\ ~InBetween'
    BY <2>1, OneMover
  <2>4. row.review \notin Posts
    BY <1>0, <2>2, <2>3 DEF RowOpen
  <2>5. seen'[p].review = Nowhere \/ seen'[p].review \in Rooms
    BY <2>1, <2>2 DEF Resolves, NoRow
  <2>6. RowOpen'
    BY <1>0, <2>1, <2>3 DEF RowOpen, Moved
  <2>7. Mover(p)'
    BY <2>1, <2>2, <2>4, <2>5 DEF Mover
  <2> QED
    BY <2>1, <2>3, <2>6, <2>7 DEF Moved
<1>3. CASE StartEdit(p)
  <2>1. /\ pc[p] = "idle" /\ pc'[p] = "edit" /\ op'[p] = "edit" /\ seen'[p] = seen[p]
        /\ UNCHANGED <<row, places, missing, now, rested>>
    BY <1>0, <1>3 DEF StartEdit, Idle, Goto, TaskTyped, discordVars
  <2>2. row.status = Pending
    <3>1. row.status \in EditableStatuses
      BY <1>3, Zenon DEF StartEdit
    <3> QED
      BY <1>0, <3>1 DEF RowOpen, EditableStatuses, Absent, Pending, Approved
  <2>3. ~InBetween /\ ~InBetween'
    BY <2>1, OneMover
  <2>4. RowOpen'
    BY <1>0, <2>1, <2>3 DEF RowOpen, Moved
  <2>5. Mover(p)'
    BY <1>0, <2>1, <2>2 DEF Mover
  <2> QED
    BY <2>1, <2>3, <2>4, <2>5 DEF Moved
<1>4. CASE UpdateEvent(p)
  <2>1. /\ pc[p] = "edit" /\ pc'[p] = "idle" /\ seen'[p] = NoRow
        /\ row' = [row EXCEPT !.starts = got[p]]
        /\ UNCHANGED <<places, missing, now, rested>>
    BY <1>0, <1>4 DEF UpdateEvent, Finish, TaskTyped, discordVars
  <2>2. row.status = Pending
    BY <1>0, <2>1 DEF Mover
  <2>3. row'.status = row.status /\ row'.kind = row.kind /\ row'.review = row.review
    BY <2>1 DEF WorldTyped, Rows
  <2>4. ~InBetween /\ ~InBetween'
    BY <2>1, OneMover
  <2>5. RowOpen'
    BY <1>0, <2>1, <2>2, <2>3, <2>4 DEF RowOpen, Moved, Absent, Pending
  <2>6. Mover(p)'
    BY <2>1 DEF Mover, NoRow
  <2> QED
    BY <2>1, <2>3, <2>4, <2>5, <2>6 DEF Moved
<1>5. CASE MakePlace(p)
  <2>1. PICK pl \in Places : /\ places[pl] = "unused"
                             /\ places' = [places EXCEPT ![pl] = "there"]
                             /\ got' = [got EXCEPT ![p] = pl]
    BY <1>5 DEF MakePlace
  <2>2. /\ pc[p] \in {"makeRoom", "makePost"} /\ pc'[p] = "review" /\ op'[p] = op[p]
        /\ seen'[p] = seen[p] /\ got'[p] = pl
        /\ UNCHANGED <<row, missing, now, rested>>
    BY <1>0, <1>5, <2>1 DEF MakePlace, Goto, TaskTyped
  <2>3. \A x \in Places : /\ places'[x] = "there" <=> (x = pl \/ places[x] = "there")
                          /\ places'[x] = "gone" <=> places[x] = "gone"
    BY <2>1 DEF WorldTyped
  <2>4. ~InBetween /\ ~InBetween'
    BY <2>2, OneMover
  <2>5. RowOpen'
    BY <1>0, <2>2, <2>3, <2>4 DEF RowOpen, Moved
  <2>6. Mover(p)'
    BY <1>0, <2>1, <2>2, <2>3 DEF Mover
  <2> QED
    BY <2>2, <2>4, <2>5, <2>6 DEF Moved
<1> QED
  BY <1>1, <1>2, <1>3, <1>4, <1>5 DEF Asks

\* and the row names the new place before the old one goes.
LEMMA FilesThePlace ==
    ASSUME MovesAlone, TypeInv, [Next]_vars, Moving, NEW p \in Tasks,
           \A q \in Procs : q # p => Stays(q), Files(p)
    PROVE  Moving'
<1> USE DEF TypeInv
<1>0. p \in Procs /\ Mover(p) /\ RowOpen
  BY DEF Procs, Moving
<1> SUFFICES missing' = missing /\ RowOpen' /\ Mover(p)' /\ (Moved => Moved')
  BY MoverKeeps
<1>1. CASE SetReview(p)
  <2>1. /\ pc[p] = "review" /\ pc'[p] = IF got[p] \in Posts THEN "setKind" ELSE "card"
        /\ op'[p] = op[p] /\ seen'[p] = seen[p] /\ got'[p] = got[p]
        /\ row' = [row EXCEPT !.review = got[p]]
        /\ UNCHANGED <<places, missing, now, rested>>
    BY <1>0, <1>1 DEF SetReview, Goto, TaskTyped, discordVars
  <2>2. /\ row.status = Pending /\ row.kind = "room" /\ got[p] \in Places
        /\ places[got[p]] = "there"
    BY <1>0, <2>1 DEF Mover
  <2>3. row'.status = row.status /\ row'.kind = row.kind /\ row'.review = got[p]
    BY <2>1 DEF WorldTyped, Rows
  <2>4. ~InBetween /\ (InBetween' <=> got[p] \in Posts)
    BY <2>1, OneMover
  <2>5. RowOpen'
    BY <1>0, <2>1, <2>2, <2>3, <2>4 DEF RowOpen, Moved, Absent, Pending
  <2>6. Mover(p)'
    BY <1>0, <2>1, <2>2, <2>3 DEF Mover, Places
  <2> QED
    BY <2>1, <2>2, <2>4, <2>5, <2>6 DEF Moved
<1>2. CASE SetReviewKind(p)
  <2>1. /\ pc[p] = "setKind" /\ row' = [row EXCEPT !.kind = "post"]
        /\ UNCHANGED <<places, missing, now, rested>>
    BY <1>0, <1>2 DEF SetReviewKind, discordVars
  <2>2. row.status = Pending /\ row.kind = "room" /\ row.review \in Posts
    BY <1>0, <2>1 DEF Mover
  <2>3. row'.status = row.status /\ row'.kind = "post" /\ row'.review = row.review
    BY <2>1 DEF WorldTyped, Rows
  <2>4. Moved'
    BY <2>3 DEF Moved
  <2>5. RowOpen'
    BY <1>0, <2>1, <2>2, <2>3, <2>4 DEF RowOpen, Absent, Pending
  <2>6. CASE seen[p].review \in Places
    <3>1. /\ pc'[p] = "deletePlace" /\ op'[p] = op[p] /\ seen'[p] = seen[p]
          /\ got'[p] = seen[p].review
      BY <1>0, <1>2, <2>6 DEF SetReviewKind, Goto, TaskTyped
    <3>2. op[p] = "move" /\ seen[p].review \in Rooms
      BY <1>0, <2>6, ProcsAssumption DEF Mover
    <3> QED
      BY <2>1, <2>2, <2>3, <2>4, <2>5, <3>1, <3>2 DEF Mover
  <2>7. CASE seen[p].review \notin Places
    <3>1. pc'[p] = "idle" /\ seen'[p] = NoRow
      BY <1>0, <1>2, <2>7 DEF SetReviewKind, Finish, TaskTyped
    <3> QED
      BY <2>1, <2>4, <2>5, <3>1 DEF Mover, NoRow
  <2> QED
    BY <2>6, <2>7
<1>3. CASE PostCard(p)
  <2>1. /\ pc[p] = "card" /\ UNCHANGED <<row, places, missing, now, rested>>
        /\ \/ pc'[p] = "setCard" /\ UNCHANGED <<op, got, seen>>
           \/ pc'[p] = "idle" /\ seen'[p] = NoRow
    BY <1>0, <1>3 DEF PostCard, Goto, Finish, TaskTyped, discordVars
  <2>2. ~InBetween /\ ~InBetween'
    BY <2>1, OneMover
  <2>3. RowOpen'
    BY <1>0, <2>1, <2>2 DEF RowOpen, Moved
  <2>4. Mover(p)'
    BY <1>0, <2>1 DEF Mover, NoRow
  <2> QED
    BY <2>1, <2>2, <2>3, <2>4 DEF Moved
<1>4. CASE SetCard(p)
  <2>1. /\ pc[p] = "setCard" /\ row' = [row EXCEPT !.review = got[p]]
        /\ pc'[p] = "idle" /\ seen'[p] = NoRow
        /\ UNCHANGED <<places, missing, now, rested>>
    BY <1>0, <1>4 DEF SetCard, Finish, TaskTyped, discordVars
  <2>2. row' = row
    <3>1. got[p] = row.review
      BY <1>0, <2>1 DEF Mover
    <3> QED
      BY <2>1, <3>1 DEF WorldTyped, Rows
  <2>3. ~InBetween /\ ~InBetween'
    BY <2>1, OneMover
  <2>4. RowOpen'
    BY <1>0, <2>1, <2>2, <2>3 DEF RowOpen, Moved
  <2>5. Mover(p)'
    BY <2>1 DEF Mover, NoRow
  <2> QED
    BY <2>1, <2>2, <2>3, <2>4, <2>5 DEF Moved
<1>5. CASE DeleteRefused(p) \/ Forget(p)
  <2>1. /\ pc[p] \in {"deletePlace", "forget"} /\ pc'[p] = "idle" /\ seen'[p] = NoRow
        /\ UNCHANGED <<places, missing, now, rested>>
    BY <1>0, <1>5 DEF DeleteRefused, Forget, Finish, TaskTyped, discordVars
  <2>2. row' = row
    BY <1>0, <1>5 DEF DeleteRefused, Forget, Mover
  <2>3. ~InBetween /\ ~InBetween'
    BY <2>1, OneMover
  <2>4. RowOpen'
    BY <1>0, <2>1, <2>2, <2>3 DEF RowOpen, Moved
  <2>5. Mover(p)'
    BY <2>1 DEF Mover, NoRow
  <2> QED
    BY <2>1, <2>2, <2>3, <2>4, <2>5 DEF Moved
<1> QED
  BY <1>1, <1>2, <1>3, <1>4, <1>5 DEF Files

\* The old room goes once the row is a post's, and wakes its listener.
LEMMA DeletesTheOldRoom ==
    ASSUME MovesAlone, TypeInv, [Next]_vars, Moving, NEW p \in Tasks, DeletePlace(p)
    PROVE  Moving'
<1> USE DEF TypeInv
<1>0. p \in Procs /\ Mover(p) /\ RowOpen
  BY DEF Procs, Moving
<1>1. /\ pc[p] = "deletePlace" /\ got[p] \in Rooms /\ row.kind = "post" /\ row.status = Pending
      /\ op[p] = "move" /\ row.review \in Posts
  BY <1>0 DEF DeletePlace, Mover, RowOpen
<1>2. got[p] \in Places /\ got[p] \in Procs /\ got[p] # p /\ got[p] # row.review
  BY <1>1, PlaceIsNoTask, ProcsAssumption DEF Places
<1>3. /\ pc' = [pc EXCEPT ![got[p]] = "heard", ![p] = "forget"]
      /\ places' = [places EXCEPT ![got[p]] = "gone"]
      /\ UNCHANGED <<row, op, seen, got, stamp, missing, now, rested>>
  BY DEF DeletePlace, Gone
<1>4. /\ pc'[p] = "forget" /\ pc'[got[p]] = "heard" /\ places'[got[p]] = "gone"
      /\ \A q \in Procs : q # p /\ q # got[p] => pc'[q] = pc[q]
      /\ \A pl \in Places : pl # got[p] => places'[pl] = places[pl]
  BY <1>0, <1>2, <1>3 DEF TaskTyped, WorldTyped
<1>5. RowOpen'
  BY <1>0, <1>1, <1>2, <1>3, <1>4 DEF RowOpen, Moved
<1>6. \A q \in Tasks : Mover(q)'
  <2>1. Mover(p)'
    BY <1>0, <1>1, <1>3, <1>4 DEF Mover
  <2> QED
    BY <2>1 DEF MovesAlone
<1>7. Sweeper(ReconcileLoop)'
  <2>1. ReconcileLoop \in Procs /\ ReconcileLoop # p /\ ReconcileLoop # got[p]
    BY <1>2, ProcsAssumption DEF Procs
  <2>2. Moved'
    BY <1>1, <1>3 DEF Moved
  <2> QED
    BY <1>3, <1>4, <2>1, <2>2, PlacesGoOn DEF Sweeper, Moving
<1>8. pc'[GoLiveLoop] \in {"idle", "dueLive"}
  <2>1. GoLiveLoop \in Procs /\ GoLiveLoop # p /\ GoLiveLoop # got[p]
    BY <1>2, ProcsAssumption DEF Procs
  <2> QED
    BY <1>4, <2>1 DEF Moving
<1>9. \A pl \in Places : pc'[pl] = "idle" \/ (pc'[pl] = "heard" /\ places'[pl] = "gone")
  <2> SUFFICES ASSUME NEW pl \in Places
               PROVE  pc'[pl] = "idle" \/ (pc'[pl] = "heard" /\ places'[pl] = "gone")
    OBVIOUS
  <2>1. pl \in Procs /\ pl # p
    BY PlaceIsNoTask
  <2> QED
    BY <1>4, <2>1 DEF Moving
<1> QED
  BY <1>5, <1>6, <1>7, <1>8, <1>9 DEF Moving

\* A step of a loop or a listener leaves the row, the places and the task at work alone.
Aloof == /\ UNCHANGED <<row, places, now>>
         /\ \A p \in Tasks : Stays(p)

\* What it may not do is take the room for lost.
LEMMA AloofKeeps ==
    ASSUME MovesAlone, TypeInv, Moving, Aloof, missing' => Moved', Sweeper(ReconcileLoop)',
           InBetween /\ ~rested => ~rested',
           pc'[GoLiveLoop] \in {"idle", "dueLive"},
           \A pl \in Places : pc'[pl] = "idle" \/ (pc'[pl] = "heard" /\ places[pl] = "gone")
    PROVE  Moving'
<1>1. InBetween <=> InBetween'
  BY DEF Aloof, InBetween, Stays
<1>2. RowOpen'
  BY <1>1 DEF Moving, RowOpen, Aloof
<1>3. \A p \in Tasks : Mover(p)'
  BY DEF Moving, Mover, Aloof, Stays
<1> QED
  BY <1>2, <1>3 DEF Moving, Aloof

\* A pass of the sweep.  It begins with a row that names a room, or a post filed as one; whoever
\* is missed is missed because the event was moved, and the next pass sees a post.
LEMMA SweepKeeps ==
    ASSUME MovesAlone, TypeInv, [Next]_vars, Moving, NEW p \in Procs, p = ReconcileLoop,
           \A q \in Procs : q # p => Stays(q),
           SweepTick(p) \/ Recheck(p) \/ Tidy(p)
    PROVE  Moving'
<1> DEFINE Step == SweepTick(p) \/ Recheck(p) \/ Tidy(p)
<1>0. /\ RowOpen /\ Sweeper(p) /\ Step
      /\ \A q \in Tasks : Stays(q) /\ q \in Procs
      /\ pc'[GoLiveLoop] \in {"idle", "dueLive"}
      /\ \A pl \in Places : pc'[pl] = "idle" \/ (pc'[pl] = "heard" /\ places[pl] = "gone")
  <2>1. GoLiveLoop \in Procs /\ GoLiveLoop # p /\ \A q \in Tasks : q \in Procs /\ q # p
    BY ProcsAssumption DEF Procs
  <2>2. \A pl \in Places : pl \in Procs /\ pl # p
    BY PlaceIsNoTask
  <2> QED
    BY <2>1, <2>2 DEF Moving, Stays
<1> HIDE DEF Step
<1> USE DEF TypeInv
<1>1. InBetween <=> InBetween'
  BY <1>0 DEF InBetween, Stays
<1>2. ASSUME SweepTick(p) PROVE Moving'
  <2>1. /\ pc[p] = "idle" /\ rested /\ ~rested' /\ stamp'[p] = now
        /\ \/ pc'[p] = "recheck" /\ seen'[p] = row
           \/ pc'[p] = "swept"
        /\ UNCHANGED <<row, places, missing, now>>
    BY <1>2 DEF SweepTick, Goto, TaskTyped, discordVars
  <2>2. missing => row.kind = "post"
    BY <1>0, <2>1 DEF RowOpen, Moved
  <2>3. row.kind = "room" /\ row.review \in Posts => Moved'
    BY <1>0, <1>1, <2>1 DEF RowOpen, Moved
  <2>4. Sweeper(p)'
    BY <1>0, <2>1, <2>2, <2>3 DEF Sweeper, RowOpen
  <2>5. missing' => Moved'
    BY <2>1, <2>2 DEF Moved
  <2> QED
    BY <1>0, <2>1, <2>4, <2>5, AloofKeeps DEF Aloof
<1>3. ASSUME Recheck(p) PROVE Moving'
  <2> DEFINE r == seen[p]
             lost == r.review # Nowhere /\ ~Resolves(r) /\ r.kind = "room"
  <2>1. /\ pc[p] = "recheck" /\ stamp[p] <= MaxTime
        /\ missing => r.kind = "post"
        /\ r.review \in Places => places[r.review] # "unused"
        /\ r.kind = "room" /\ r.review \in Posts => Moved
        /\ r \in Rows
    BY <1>0, <1>3 DEF Recheck, Sweeper, TaskTyped
  <2>2. ~(stamp[p] - r.created >= Grace)
    <3>1. r.created \in Nat /\ stamp[p] \in Nat
      BY <2>1 DEF Rows, TaskTyped
    <3> QED
      BY <2>1, <3>1, TimesAssumption DEF MovesAlone
  <2>3. ~(lost /\ missing)
    BY <2>1
  <2>4. /\ pc'[p] = "swept" /\ stamp'[p] = stamp[p] /\ UNCHANGED <<row, places, now, rested>>
    BY <1>3, <2>2, <2>3 DEF Recheck, Goto, TaskTyped, discordVars
  <2>5. missing' => missing \/ lost
    BY <1>3 DEF Recheck
  <2>6. Moved' <=> Moved
    BY <1>1, <2>4 DEF Moved
  <2>7. lost => Moved
    <3> HAVE lost
    <3>1. r.review \in Places
      BY <2>1 DEF Rows
    <3>2. CASE r.review \in Posts
      BY <2>1, <3>2
    <3>3. CASE r.review \notin Posts
      <4>1. places[r.review] = "gone"
        BY <2>1, <3>1, <3>3 DEF Resolves, Places, WorldTyped
      <4> QED
        BY <1>0, <3>1, <4>1 DEF RowOpen, Moved
    <3> QED
      BY <3>2, <3>3
  <2>8. missing' => Moved'
    BY <1>0, <2>5, <2>6, <2>7 DEF RowOpen
  <2>9. Sweeper(p)'
    BY <2>1, <2>4 DEF Sweeper
  <2> QED
    BY <1>0, <2>4, <2>8, <2>9, AloofKeeps DEF Aloof
<1>4. ASSUME Tidy(p) PROVE Moving'
  <2>1. row.status \notin SweptStatuses
    BY <1>0 DEF RowOpen, SweptStatuses, Absent, Pending, Done, Denied, Cancelled, Live
  <2>2. Finish(p) /\ UNCHANGED <<row, missing, places, now, rested>>
    BY <1>4, <2>1 DEF Tidy, discordVars
  <2>3. Sweeper(p)'
    BY <2>2, TimesAssumption DEF Finish, Sweeper, TaskTyped
  <2>4. missing' => Moved'
    BY <1>0, <1>1, <2>2 DEF RowOpen, Moved
  <2> QED
    BY <1>0, <2>2, <2>3, <2>4, AloofKeeps DEF Aloof
<1> QED
  BY <1>0, <1>2, <1>3, <1>4 DEF Step

\* The one-minute loop finds nothing approved and nothing live.
LEMMA MinuteKeeps ==
    ASSUME MovesAlone, TypeInv, Moving, NEW p \in Procs, p = GoLiveLoop,
           \A q \in Procs : q # p => Stays(q),
           GoLiveTick(p) \/ DueLive(p)
    PROVE  Moving'
<1> USE DEF TypeInv
<1> DEFINE Step == GoLiveTick(p) \/ DueLive(p)
<1>0. /\ RowOpen /\ Sweeper(ReconcileLoop) /\ Step
      /\ \A q \in Tasks : Stays(q) /\ q \in Procs
      /\ Stays(ReconcileLoop)
      /\ \A pl \in Places : pc'[pl] = "idle" \/ (pc'[pl] = "heard" /\ places[pl] = "gone")
  <2>1. ReconcileLoop \in Procs /\ ReconcileLoop # p /\ \A q \in Tasks : q \in Procs /\ q # p
    BY ProcsAssumption DEF Procs
  <2>2. \A pl \in Places : pl \in Procs /\ pl # p
    BY PlaceIsNoTask
  <2> QED
    BY <2>1, <2>2 DEF Moving, Stays
<1> HIDE DEF Step
<1>1. row.status # Approved /\ row.status # Live
  BY <1>0 DEF RowOpen, Absent, Pending, Approved, Live
<1>2. /\ pc'[p] \in {"idle", "dueLive"} /\ UNCHANGED <<row, missing, places, now, rested>>
  <2>1. ASSUME GoLiveTick(p) PROVE pc'[p] = "dueLive" /\ UNCHANGED <<row, missing, places, now, rested>>
    BY <1>1, <2>1 DEF GoLiveTick, Goto, TaskTyped, discordVars
  <2>2. ASSUME DueLive(p) PROVE pc'[p] = "idle" /\ UNCHANGED <<row, missing, places, now, rested>>
    BY <1>1, <2>2 DEF DueLive, Finish, TaskTyped, discordVars
  <2> QED
    BY <1>0, <2>1, <2>2 DEF Step
<1>3. InBetween <=> InBetween'
  BY <1>0 DEF InBetween, Stays
<1>4. Moved' <=> Moved
  BY <1>2, <1>3 DEF Moved
<1>5. Sweeper(ReconcileLoop)'
  BY <1>0, <1>2, <1>4 DEF Sweeper, Stays
<1> QED
  BY <1>0, <1>2, <1>4, <1>5, AloofKeeps DEF Aloof, RowOpen

\* The listener hears of a room the row no longer names.
LEMMA HearKeeps ==
    ASSUME MovesAlone, TypeInv, Moving, NEW pl \in Places, Hear(pl)
    PROVE  Moving'
<1> USE DEF TypeInv
<1>1. pl \in Procs /\ pl \notin Tasks \cup {GoLiveLoop, ReconcileLoop}
  BY PlaceIsNoTask
<1>2. pc[pl] = "heard" /\ places[pl] = "gone"
  BY DEF Hear, Moving
<1>3. row.review # pl
  BY <1>2 DEF Moving, RowOpen
<1>4. Finish(pl) /\ UNCHANGED <<row, missing, places, now, rested>>
  BY <1>3 DEF Hear, discordVars
<1>5. pc'[pl] = "idle" /\ \A q \in Procs : q # pl => Stays(q)
  BY <1>1, <1>4 DEF Finish, Stays, TaskTyped
<1>6. /\ \A q \in Tasks : Stays(q)
      /\ Stays(ReconcileLoop) /\ Stays(GoLiveLoop)
      /\ \A x \in Places : pc'[x] = "idle" \/ pc'[x] = pc[x]
  <2>1. Tasks \subseteq Procs /\ Places \subseteq Procs /\ {ReconcileLoop, GoLiveLoop} \subseteq Procs
    BY DEF Procs
  <2> QED
    BY <1>1, <1>5, <2>1 DEF Stays
<1>7. InBetween <=> InBetween'
  BY <1>6 DEF InBetween, Stays
<1>8. Moved' <=> Moved
  BY <1>4, <1>7 DEF Moved
<1>9. Sweeper(ReconcileLoop)'
  BY <1>4, <1>6, <1>8 DEF Sweeper, Moving, Stays
<1>10. missing' => Moved'
  BY <1>4, <1>8 DEF Moving, RowOpen
<1>11. /\ pc'[GoLiveLoop] \in {"idle", "dueLive"}
       /\ \A x \in Places : pc'[x] = "idle" \/ (pc'[x] = "heard" /\ places[x] = "gone")
  BY <1>6 DEF Moving, Stays
<1> QED
  BY <1>4, <1>6, <1>9, <1>10, <1>11, AloofKeeps DEF Aloof

\* The clock stands still between the two statements.
LEMMA TickKeeps == ASSUME MovesAlone, TypeInv, Moving, Tick PROVE Moving'
<1> USE DEF TypeInv
<1>1. ~InBetween /\ UNCHANGED <<row, pc, op, seen, got, stamp, missing, places>>
  <2>1. Tasks \subseteq Procs
    BY DEF Procs
  <2> QED
    BY <2>1 DEF Tick, InBetween, discordVars
<1>2. Moved => Moved'
  BY <1>1 DEF Moved
<1>3. now' <= MaxTime
  <2>1. now <= MaxTime /\ now \in Nat
    BY DEF Moving, RowOpen, WorldTyped
  <2> QED
    BY <2>1, TimesAssumption DEF Tick
<1>4. RowOpen'
  BY <1>1, <1>2, <1>3 DEF Moving, RowOpen, InBetween
<1>5. Sweeper(ReconcileLoop)'
  BY <1>1, <1>2 DEF Moving, Sweeper
<1>6. \A p \in Tasks : Mover(p)'
  BY <1>1 DEF Moving, Mover
<1> QED
  BY <1>1, <1>4, <1>5, <1>6 DEF Moving

\* Nothing else can be done: where each task stands, no other step is enabled.
LEMMA OnlyMoves ==
    ASSUME MovesAlone, TypeInv, Moving, NEW p \in Procs,
           Start(p) \/ Pass(p) \/ Lock(p) \/ Continue(p)
    PROVE  \/ p \in Tasks /\ (Asks(p) \/ Files(p) \/ DeletePlace(p))
           \/ p = ReconcileLoop /\ (SweepTick(p) \/ Recheck(p) \/ Tidy(p))
           \/ p = GoLiveLoop /\ (GoLiveTick(p) \/ DueLive(p))
<1> DEFINE Goal == \/ p \in Tasks /\ (Asks(p) \/ Files(p) \/ DeletePlace(p))
                   \/ p = ReconcileLoop /\ (SweepTick(p) \/ Recheck(p) \/ Tidy(p))
                   \/ p = GoLiveLoop /\ (GoLiveTick(p) \/ DueLive(p))
<1>1. /\ p \in Tasks => pc[p] \in {"idle", "makeRoom", "makePost", "review", "setKind", "card",
                                   "setCard", "deletePlace", "forget", "edit"}
      /\ p = ReconcileLoop => pc[p] \in {"idle", "recheck", "swept"}
      /\ p = GoLiveLoop => pc[p] \in {"idle", "dueLive"}
      /\ p \in Places => pc[p] \in {"idle", "heard"}
      /\ p \in Tasks \cup {GoLiveLoop, ReconcileLoop} \cup Places
  BY DEF Moving, Mover, Sweeper, Procs
<1>2. ASSUME Start(p) PROVE Goal
  <2>1. ~Idle(p, "approve") /\ ~Idle(p, "deny") /\ ~Idle(p, "cancel") /\ ~Idle(p, "deleteRoom")
        /\ ~Idle(p, "automatic")
    BY DEF MovesAlone, Idle
  <2>2. ~StartDecision(p)
    BY <2>1, Zenon DEF StartDecision
  <2>3. ~StartCancel(p) /\ ~StartDeleteRoom(p) /\ ~StartAutomatic(p)
    BY <2>1, Zenon DEF StartCancel, StartDeleteRoom, StartAutomatic
  <2>4. ASSUME StartPropose(p) \/ StartMove(p) \/ StartEdit(p) PROVE p \in Tasks
    <3>1. Idle(p, "propose") \/ Idle(p, "move") \/ Idle(p, "edit")
      BY <2>4, Zenon DEF StartPropose, StartMove, StartEdit
    <3> QED
      BY <3>1 DEF Idle
  <2> QED
    BY <1>2, <2>2, <2>3, <2>4 DEF Start, Asks
<1>3. ASSUME Pass(p) PROVE Goal
  BY <1>3 DEF Pass, GoLiveTick, SweepTick
<1>4. ~Lock(p)
  BY <1>1 DEF Lock
<1>5. ASSUME Continue(p) PROVE Goal
  <2>1. /\ ~Reread(p) /\ ~TooLate(p) /\ ~SetStatus(p) /\ ~DropLock(p) /\ ~Tell(p)
        /\ ~NoCalendar(p) /\ ~CreateScheduled(p) /\ ~SetScheduled(p)
    BY <1>1 DEF Reread, TooLate, SetStatus, DropLock, Tell, NoCalendar, CreateScheduled,
                SetScheduled
  <2>2. /\ ~NoAnnouncement(p) /\ ~Announce(p) /\ ~SetAnnounced(p) /\ ~Uncalendar(p)
        /\ ~Unannounce(p) /\ ~AutoApprove(p) /\ ~NoGoLivePost(p) /\ ~GoLivePost(p)
    BY <1>1 DEF NoAnnouncement, Announce, SetAnnounced, Uncalendar, Unannounce, AutoApprove,
                NoGoLivePost, GoLivePost
  <2>3. ~PlaceRefused(p) /\ ~CancelUnplaced(p)
    BY <1>1 DEF PlaceRefused, CancelUnplaced, MovesAlone
  <2>4. ASSUME \/ UpdateEvent(p) \/ MakePlace(p) \/ SetReview(p) \/ SetReviewKind(p)
               \/ PostCard(p) \/ SetCard(p) \/ DeletePlace(p) \/ DeleteRefused(p) \/ Forget(p)
        PROVE  p \in Tasks
    BY <1>1, <2>4 DEF UpdateEvent, MakePlace, SetReview, SetReviewKind, PostCard, SetCard,
                      DeletePlace, DeleteRefused, Forget
  <2>5. ASSUME Recheck(p) \/ Tidy(p) PROVE p = ReconcileLoop
    BY <1>1, <2>5 DEF Recheck, Tidy
  <2>6. ASSUME DueLive(p) PROVE p = GoLiveLoop
    BY <1>1, <2>6 DEF DueLive
  <2>7. ~TakeUp(p)
    BY <1>1 DEF TakeUp
  <2> QED
    BY <1>5, <2>1, <2>2, <2>3, <2>4, <2>5, <2>6, <2>7 DEF Continue, Asks, Files
<1> QED
  BY <1>2, <1>3, <1>4, <1>5

LEMMA MovingInit == MovesAlone /\ Init => Moving
<1> SUFFICES ASSUME MovesAlone, Init PROVE Moving
  OBVIOUS
<1>1. /\ \A p \in Procs : pc[p] = "idle" /\ seen[p] = NoRow /\ stamp[p] = 0
      /\ row = NoRow /\ ~missing /\ now = 0
      /\ \A pl \in Places : places[pl] = "unused"
  BY DEF Init
<1>2. Tasks \subseteq Procs /\ Places \subseteq Procs /\ {ReconcileLoop, GoLiveLoop} \subseteq Procs
  BY DEF Procs
<1>3. RowOpen
  BY <1>1, ProcsAssumption, TimesAssumption DEF RowOpen, NoRow, Places
<1>4. Sweeper(ReconcileLoop)
  BY <1>1, <1>2, TimesAssumption DEF Sweeper
<1>5. \A p \in Tasks : Mover(p)
  BY <1>1, <1>2 DEF Mover, NoRow
<1> QED
  BY <1>1, <1>2, <1>3, <1>4, <1>5 DEF Moving

LEMMA MovingStep == ASSUME MovesAlone, TypeInv, Moving, [Next]_vars PROVE Moving'
<1>1. ASSUME NEW p \in Procs, Start(p) \/ Pass(p) \/ Lock(p) \/ Continue(p) PROVE Moving'
  <2>1. CASE DeletePlace(p)
    <3>1. p \in Tasks
      <4>1. pc[p] = "deletePlace"
        BY <2>1 DEF DeletePlace
      <4> QED
        BY <4>1 DEF Moving, Sweeper, Procs
    <3> QED
      BY <2>1, <3>1, DeletesTheOldRoom
  <2>2. CASE ~DeletePlace(p)
    <3>1. \A q \in Procs : q # p => Stays(q)
      BY <1>1, <2>2, Alone
    <3> QED
      BY <1>1, <2>2, <3>1, OnlyMoves, StartsMoving, FilesThePlace, SweepKeeps, MinuteKeeps
  <2> QED
    BY <2>1, <2>2
<1>2. ASSUME NEW pl \in Places, HandDelete(pl) PROVE Moving'
  BY <1>2 DEF HandDelete, MovesAlone
<1>3. ASSUME NEW pl \in Places, Hear(pl) PROVE Moving'
  BY <1>3, HearKeeps
<1>4. ASSUME Crash PROVE Moving'
  BY <1>4 DEF Crash, MovesAlone, TypeInv, WorldTyped
<1>5. ASSUME Tick PROVE Moving'
  BY <1>5, TickKeeps
<1>6. ASSUME UNCHANGED vars PROVE Moving'
  BY <1>6 DEF vars, discordVars, Moving, RowOpen, Mover, Sweeper, Moved, InBetween, Resolves
<1> QED
  BY <1>1, <1>2, <1>3, <1>4, <1>5, <1>6 DEF Next

\* Moving an event's room to the forum settles nothing: neither the listener that hears of the
\* deleted room nor two passes of the sweep, whatever row they still have in hand, call it off.
THEOREM MovingIsNoSettling == ASSUME MovesAlone PROVE Spec => []MoveSettlesNothing
<1> DEFINE Inv == TypeInv /\ Moving
<1>1. Init => Inv
  BY TypeInit, MovingInit
<1>2. Inv /\ [Next]_vars => Inv'
  BY TaskTypedStep, WorldTypedStep, MovingStep DEF TypeInv
<1>3. Inv => MoveSettlesNothing
  BY DEF Moving, RowOpen, MoveSettlesNothing
<1> QED
  BY <1>1, <1>2, <1>3, PTL DEF Spec
==============================================================================
