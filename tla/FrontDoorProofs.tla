--------------------------- MODULE FrontDoorProofs ---------------------------
(* The Reconciler's lock, and what it makes of the front door: since one run is *)
(* at work, what it read is still so when it acts, and it leaves one door.      *)
EXTENDS FrontDoor, TLAPS

\* OneAtATime made inductive.
RunInv == RunTypeOK /\ OneAtATime

\* No call, answer, failure or second breaks it.
LEMMA RunInvStep == RunInv /\ [Run]_runVars => RunInv'
<1> SUFFICES ASSUME RunInv, [Run]_runVars PROVE RunInv'
  OBVIOUS
<1> USE DEF RunInv, RunTypeOK, OneAtATime
<1>1. ASSUME NEW c \in Callers, Ask(c) PROVE RunInv'
  BY <1>1 DEF Ask
<1>2. ASSUME NEW c \in Callers, Enter(c) PROVE RunInv'
  BY <1>2 DEF Enter, LockFree
<1>3. ASSUME NEW c \in Callers, SkipInside(c) PROVE RunInv'
  BY <1>3 DEF SkipInside
<1>4. ASSUME NEW c \in Callers, Return(c) PROVE RunInv'
  BY <1>4 DEF Return
<1>5. ASSUME NEW c \in Callers, Raise(c) PROVE RunInv'
  BY <1>5 DEF Raise
<1>6. CASE Passes
  BY <1>6 DEF Passes
<1>7. CASE UNCHANGED runVars
  BY <1>7 DEF runVars
<1> QED
  BY <1>1, <1>2, <1>3, <1>4, <1>5, <1>6, <1>7 DEF Run

\* "One reconcile at a time per cog", for any callers, whichever of them skip or stamp.
THEOREM ReconcilesOneAtATime == RunSpec => []OneAtATime
<1>1. Start => RunInv
  BY DEF Start, RunInv, RunTypeOK, OneAtATime
<1>2. RunInv => OneAtATime
  BY DEF RunInv
<1> QED
  BY <1>1, <1>2, RunInvStep, PTL DEF RunSpec

-------------------------------------------------------------------------------
\* A task that is over leaves what it kept typed.
LEMMA OverTyped ==
    ASSUME TypeOK, NEW p \in Tasks, Over(p)
    PROVE  /\ at' \in [Tasks -> Labels]
           /\ old' \in [Tasks -> Keys] /\ aim' \in [Tasks -> Keys]
           /\ moving' \in [Tasks -> BOOLEAN]
<1>1. Unset \in Keys
  BY DEF Unset, Keys
<1> QED
  BY <1>1 DEF TypeOK, Over, Labels

\* And when it ended well, the Reconciler too.
LEMMA DoneTyped ==
    ASSUME TypeOK, NEW p \in Tasks, Done(p)
    PROVE  /\ RunTypeOK'
           /\ at' \in [Tasks -> Labels]
           /\ old' \in [Tasks -> Keys] /\ aim' \in [Tasks -> Keys]
           /\ moving' \in [Tasks -> BOOLEAN]
<1>1. RunTypeOK'
  BY DEF TypeOK, RunTypeOK, Done, Return, runVars
<1> QED
  BY <1>1, OverTyped DEF Done

\* The program starts typed.
LEMMA TypeOKInit == Init => TypeOK
<1> SUFFICES ASSUME Init PROVE TypeOK
  OBVIOUS
<1>1. Unset \in Keys /\ \A c \in Channels : Door(c, 2) \in Keys
  BY DEF Unset, Keys, Door
<1>2. RunTypeOK
  BY DEF Init, RunTypeOK
<1>3. kept \in Keys /\ doors \subseteq Keys
  BY <1>1 DEF Init
<1> QED
  BY <1>1, <1>2, <1>3 DEF Init, TypeOK, Labels

\* No step breaks the types.
LEMMA TypeOKStep == TypeOK /\ [Next]_vars => TypeOK'
<1> SUFFICES ASSUME TypeOK, [Next]_vars PROVE TypeOK'
  OBVIOUS
<1>1. ASSUME NEW p \in Callers, Asked(p) PROVE TypeOK'
  BY <1>1 DEF TypeOK, RunTypeOK, Labels, Goto, runVars, Keys, Asked, Ask, doorVars
<1>2. ASSUME NEW p \in Callers, Begin(p) PROVE TypeOK'
  BY <1>2 DEF TypeOK, RunTypeOK, Labels, Goto, runVars, Keys, Begin, Enter, Tasks
<1>3. ASSUME NEW p \in Callers, Skipped(p) PROVE TypeOK'
  BY <1>3 DEF TypeOK, RunTypeOK, Labels, Goto, runVars, Keys, Skipped, SkipInside, doorVars
<1>4. ASSUME NEW p \in Tasks, Look(p) PROVE TypeOK'
  <2>1. UNCHANGED <<kept, doors, rules, last, troubles, faults>>
    BY <1>4 DEF Look
  <2>2. CASE kept.channel = NoChannel
    BY <1>4, <2>1, <2>2, DoneTyped DEF TypeOK, Look
  <2>3. CASE kept.channel # NoChannel
    BY <1>4, <2>1, <2>3 DEF TypeOK, RunTypeOK, Labels, Goto, runVars, Look
  <2> QED
    BY <2>2, <2>3
<1>5. ASSUME NEW p \in Tasks, Compare(p) PROVE TypeOK'
  <2>1. UNCHANGED <<call, finished, clock, old, kept, doors, rules, last, troubles, faults>>
    BY <1>5 DEF Compare, runVars
  <2>2. aim' \in [Tasks -> Keys]
    BY <1>5 DEF TypeOK, Keys, Compare
  <2>3. at' \in [Tasks -> Labels] /\ moving' \in [Tasks -> BOOLEAN]
    BY <1>5 DEF TypeOK, Labels, Goto, Compare, Overtaken
  <2> QED
    BY <2>1, <2>2, <2>3 DEF TypeOK, RunTypeOK
<1>6. ASSUME NEW p \in Tasks, Fetch(p) PROVE TypeOK'
  BY <1>6, DoneTyped DEF TypeOK, RunTypeOK, Labels, Goto, runVars, Keys, Fetch
<1>6a. ASSUME NEW p \in Tasks, Near(p) PROVE TypeOK'
  BY <1>6a, DoneTyped DEF TypeOK, RunTypeOK, Labels, Goto, runVars, Keys, Near
<1>7. ASSUME NEW p \in Tasks, Aim(p) PROVE TypeOK'
  BY <1>7 DEF TypeOK, RunTypeOK, Labels, Goto, runVars, Keys, Aim
<1>8. ASSUME NEW p \in Tasks, Send(p) PROVE TypeOK'
  BY <1>8 DEF TypeOK, RunTypeOK, Labels, Goto, runVars, Keys, Send, Door
<1>9. ASSUME NEW p \in Tasks, SendRefused(p) PROVE TypeOK'
  BY <1>9, DoneTyped DEF TypeOK, RunTypeOK, Labels, Goto, runVars, Keys, SendRefused
<1>10. ASSUME NEW p \in Tasks, SetChannel(p) PROVE TypeOK'
  BY <1>10 DEF TypeOK, RunTypeOK, Labels, Goto, runVars, Keys, SetChannel
<1>11. ASSUME NEW p \in Tasks, SetMessage(p) PROVE TypeOK'
  BY <1>11, DoneTyped DEF TypeOK, RunTypeOK, Labels, Goto, runVars, Keys, SetMessage
<1>12. ASSUME NEW p \in Tasks, Drop(p) PROVE TypeOK'
  BY <1>12, DoneTyped DEF TypeOK, RunTypeOK, Labels, Goto, runVars, Keys, Drop
<1>13. ASSUME NEW p \in Tasks, TakeDown(p) PROVE TypeOK'
  BY <1>13 DEF TypeOK, RunTypeOK, Labels, Goto, runVars, Keys, TakeDown
<1>14. ASSUME NEW p \in Tasks, ClearMessage(p) PROVE TypeOK'
  BY <1>14 DEF TypeOK, RunTypeOK, Labels, Goto, runVars, Keys, ClearMessage
<1>15. ASSUME NEW p \in Tasks, ClearChannel(p) PROVE TypeOK'
  BY <1>15, DoneTyped DEF TypeOK, RunTypeOK, Labels, Goto, runVars, Keys, ClearChannel
<1>16. ASSUME NEW p \in Tasks, ClickPost(p) PROVE TypeOK'
  BY <1>16 DEF TypeOK, RunTypeOK, Labels, Goto, runVars, Keys, ClickPost
<1>17. ASSUME NEW p \in Tasks, ClickTakeDown(p) PROVE TypeOK'
  BY <1>17 DEF TypeOK, RunTypeOK, Labels, Goto, runVars, Keys, ClickTakeDown
<1>18. CASE HandDelete
  BY <1>18 DEF TypeOK, RunTypeOK, Labels, Goto, runVars, Keys, HandDelete
<1>19. CASE PublishRules
  BY <1>19 DEF TypeOK, RunTypeOK, Labels, Goto, runVars, Keys, PublishRules
<1>19a. ASSUME NEW p \in Tasks, Break(p) PROVE TypeOK'
  <2>1. RunTypeOK'
    BY <1>19a DEF TypeOK, RunTypeOK, Break, Raise, runVars
  <2>2. troubles' \in Nat
    BY <1>19a DEF TypeOK, Break
  <2>2a. faults' \in [crashes : Nat, refused : BOOLEAN]
    <3>1. faults' = [faults EXCEPT !.refused = TRUE] /\ faults \in [crashes : Nat, refused : BOOLEAN]
      BY <1>19a DEF TypeOK, Break
    <3> QED
      BY <3>1, Zenon
  <2>3. /\ at' \in [Tasks -> Labels]
        /\ old' \in [Tasks -> Keys] /\ aim' \in [Tasks -> Keys]
        /\ moving' \in [Tasks -> BOOLEAN]
    <3>1. Over(p)
      BY <1>19a DEF Break
    <3> QED
      BY <3>1, OverTyped
  <2>4. UNCHANGED <<kept, doors, rules, last>>
    BY <1>19a DEF Break
  <2> QED
    BY <2>1, <2>2, <2>2a, <2>3, <2>4 DEF TypeOK
<1>20. CASE Crash
  BY <1>20 DEF TypeOK, RunTypeOK, Labels, Goto, runVars, Keys, Crash, Unset
<1>21. CASE Wait
  BY <1>21 DEF TypeOK, RunTypeOK, Labels, Goto, runVars, Keys, Wait, Passes, doorVars
<1>22. CASE UNCHANGED vars
  BY <1>22 DEF TypeOK, RunTypeOK, Labels, Goto, runVars, Keys, vars
<1> QED
  BY <1>1, <1>2, <1>3, <1>4, <1>5, <1>6, <1>6a, <1>7, <1>8, <1>9, <1>10, <1>11, <1>12, <1>13, <1>14,
     <1>15, <1>16, <1>17, <1>18, <1>19, <1>19a, <1>20, <1>21, <1>22
     DEF Next, Work

\* Every variable keeps its kind of value, whatever the website, Discord and crashes do.
THEOREM FrontDoorTyped == Spec => []TypeOK
BY TypeOKInit, TypeOKStep, PTL DEF Spec

-------------------------------------------------------------------------------
\* A caller at work on the door is inside Reconciler.run.
WorkHoldsTheLock == \A c \in Callers : at[c] # "idle" => call[c] = "working"

\* The inductive invariant of the lock.
LockInv == TypeOK /\ OneAtATime /\ WorkHoldsTheLock

\* No step breaks it: a run's work starts with the lock and ends with it.
LEMMA LockInvStep == LockInv /\ [Next]_vars => LockInv'
<1> SUFFICES ASSUME LockInv, [Next]_vars PROVE OneAtATime' /\ WorkHoldsTheLock'
  BY TypeOKStep DEF LockInv
<1> DEFINE Goal == OneAtATime' /\ WorkHoldsTheLock'
<1> USE DEF LockInv
<1>1. ASSUME NEW p \in Tasks, Done(p) PROVE Goal
  BY <1>1 DEF TypeOK, RunTypeOK, OneAtATime, WorkHoldsTheLock, Done, Over, Return, runVars, Tasks
<1>2. ASSUME NEW p \in Callers, Asked(p) PROVE Goal
  BY <1>2
     DEF TypeOK, RunTypeOK, OneAtATime, WorkHoldsTheLock, Tasks, runVars, Goto, Asked, Ask,
         doorVars
<1>3. ASSUME NEW p \in Callers, Begin(p) PROVE Goal
  BY <1>3
     DEF TypeOK, RunTypeOK, OneAtATime, WorkHoldsTheLock, Tasks, runVars, Goto, Begin, Enter,
         LockFree
<1>4. ASSUME NEW p \in Callers, Skipped(p) PROVE Goal
  BY <1>4
     DEF TypeOK, RunTypeOK, OneAtATime, WorkHoldsTheLock, Tasks, runVars, Goto, Skipped,
         SkipInside, doorVars
<1>5. ASSUME NEW p \in Tasks, Look(p) PROVE Goal
  BY <1>5, <1>1 DEF TypeOK, RunTypeOK, OneAtATime, WorkHoldsTheLock, Tasks, runVars, Goto, Look
<1>6. ASSUME NEW p \in Tasks, Compare(p) PROVE Goal
  BY <1>6 DEF TypeOK, RunTypeOK, OneAtATime, WorkHoldsTheLock, Tasks, runVars, Goto, Compare
<1>7. ASSUME NEW p \in Tasks, Fetch(p) PROVE Goal
  BY <1>7, <1>1 DEF TypeOK, RunTypeOK, OneAtATime, WorkHoldsTheLock, Tasks, runVars, Goto, Fetch
<1>7a. ASSUME NEW p \in Tasks, Near(p) PROVE Goal
  BY <1>7a, <1>1 DEF TypeOK, RunTypeOK, OneAtATime, WorkHoldsTheLock, Tasks, runVars, Goto, Near
<1>8. ASSUME NEW p \in Tasks, Aim(p) PROVE Goal
  BY <1>8 DEF TypeOK, RunTypeOK, OneAtATime, WorkHoldsTheLock, Tasks, runVars, Goto, Aim
<1>9. ASSUME NEW p \in Tasks, Send(p) PROVE Goal
  BY <1>9 DEF TypeOK, RunTypeOK, OneAtATime, WorkHoldsTheLock, Tasks, runVars, Goto, Send
<1>10. ASSUME NEW p \in Tasks, SendRefused(p) PROVE Goal
  BY <1>10, <1>1
     DEF TypeOK, RunTypeOK, OneAtATime, WorkHoldsTheLock, Tasks, runVars, Goto, SendRefused
<1>11. ASSUME NEW p \in Tasks, SetChannel(p) PROVE Goal
  BY <1>11 DEF TypeOK, RunTypeOK, OneAtATime, WorkHoldsTheLock, Tasks, runVars, Goto, SetChannel
<1>12. ASSUME NEW p \in Tasks, SetMessage(p) PROVE Goal
  BY <1>12, <1>1
     DEF TypeOK, RunTypeOK, OneAtATime, WorkHoldsTheLock, Tasks, runVars, Goto, SetMessage
<1>13. ASSUME NEW p \in Tasks, Drop(p) PROVE Goal
  BY <1>13, <1>1 DEF TypeOK, RunTypeOK, OneAtATime, WorkHoldsTheLock, Tasks, runVars, Goto, Drop
<1>14. ASSUME NEW p \in Tasks, TakeDown(p) PROVE Goal
  BY <1>14 DEF TypeOK, RunTypeOK, OneAtATime, WorkHoldsTheLock, Tasks, runVars, Goto, TakeDown
<1>15. ASSUME NEW p \in Tasks, ClearMessage(p) PROVE Goal
  BY <1>15
     DEF TypeOK, RunTypeOK, OneAtATime, WorkHoldsTheLock, Tasks, runVars, Goto, ClearMessage
<1>16. ASSUME NEW p \in Tasks, ClearChannel(p) PROVE Goal
  BY <1>16, <1>1
     DEF TypeOK, RunTypeOK, OneAtATime, WorkHoldsTheLock, Tasks, runVars, Goto, ClearChannel
<1>17. ASSUME NEW p \in Tasks, ClickPost(p) PROVE Goal
  BY <1>17, ClicksAssumption
     DEF TypeOK, RunTypeOK, OneAtATime, WorkHoldsTheLock, Tasks, runVars, Goto, ClickPost,
         Labels
<1>18. ASSUME NEW p \in Tasks, ClickTakeDown(p) PROVE Goal
  BY <1>18, ClicksAssumption
     DEF TypeOK, RunTypeOK, OneAtATime, WorkHoldsTheLock, Tasks, runVars, Goto, ClickTakeDown,
         Labels
<1>19. CASE HandDelete
  BY <1>19 DEF TypeOK, RunTypeOK, OneAtATime, WorkHoldsTheLock, Tasks, runVars, Goto, HandDelete
<1>20. CASE PublishRules
  BY <1>20
     DEF TypeOK, RunTypeOK, OneAtATime, WorkHoldsTheLock, Tasks, runVars, Goto, PublishRules
<1>20a. ASSUME NEW p \in Tasks, Break(p) PROVE Goal
  BY <1>20a
     DEF TypeOK, RunTypeOK, OneAtATime, WorkHoldsTheLock, Tasks, runVars, Break, Over, Raise
<1>21. CASE Crash
  BY <1>21 DEF TypeOK, RunTypeOK, OneAtATime, WorkHoldsTheLock, Tasks, runVars, Goto, Crash
<1>22. CASE Wait
  BY <1>22
     DEF TypeOK, RunTypeOK, OneAtATime, WorkHoldsTheLock, Tasks, runVars, Goto, Wait, Passes,
         doorVars
<1>23. CASE UNCHANGED vars
  BY <1>23 DEF TypeOK, RunTypeOK, OneAtATime, WorkHoldsTheLock, Tasks, runVars, Goto, vars
<1> QED
  BY <1>2, <1>3, <1>4, <1>5, <1>6, <1>7, <1>7a, <1>8, <1>9, <1>10, <1>11, <1>12, <1>13, <1>14, <1>15,
     <1>16, <1>17, <1>18, <1>19, <1>20, <1>20a, <1>21, <1>22, <1>23
     DEF Next, Work

\* The lock's invariant holds throughout.
LEMMA LockInvHolds == Spec => []LockInv
<1>1. Init => LockInv
  BY TypeOKInit DEF Init, LockInv, OneAtATime, WorkHoldsTheLock, Tasks
<1> QED
  BY <1>1, LockInvStep, PTL DEF Spec

\* "The second caller sees what the first wrote": one run at a time, and none looks while another
\* has a door in hand that the settings do not name.
THEOREM SecondSeesTheFirst == Spec => [](OneAtATime /\ SecondSeesFirst)
<1>1. LockInv => OneAtATime /\ SecondSeesFirst
  BY DEF LockInv, OneAtATime, WorkHoldsTheLock, SecondSeesFirst
<1> QED
  BY <1>1, LockInvHolds, PTL

-------------------------------------------------------------------------------
\* The website is not used: its requests do not take the lock.
OnlySweeps == WebRoutes = {}

\* So no request is under way.
ClicksIdle == \A p \in Clicks : at[p] = "idle"

\* A message has a number.
Numbered == \A door \in doors : door.message # 0

\* A sweep never takes the door down: that is the website's.
TakingDown == {"takeDown", "clearMessage", "clearChannel"}

\* Where a run has posted and not yet finished.
InHand == {"setChannel", "setMessage", "drop"}

\* A run that moves the door has an old one to take down.
CouldDrop(c) == moving[c] => old[c].message # 0 /\ old[c].channel # NoChannel

\* What the run that holds the lock knows, at each place it may stand.
Knows(c) ==
    /\ at[c] \notin InHand => doors \subseteq {kept}
    /\ at[c] \in {"compare", "fetch", "near", "send"} => old[c] = kept
    /\ at[c] \in {"look", "compare", "fetch"} => ~moving[c]
    /\ at[c] \in {"near", "aim", "send"} =>
          /\ moving[c] => kept.message # 0 /\ kept.channel # NoChannel
          /\ ~moving[c] => doors = {}
    /\ at[c] \in InHand => /\ doors \subseteq {old[c], aim[c]}
                           /\ CouldDrop(c)
                           /\ ~moving[c] => doors \subseteq {aim[c]}
    /\ at[c] = "setMessage" => kept.channel = aim[c].channel
    /\ at[c] = "drop" => kept = aim[c]

\* The inductive invariant: what the one run at work knows, and OneFrontDoor between runs.
DoorInv ==
    /\ LockInv /\ ClicksIdle /\ Numbered
    /\ \A c \in Callers : at[c] \notin TakingDown /\ (at[c] = "idle" => ~moving[c])
    /\ Undisturbed => /\ \A c \in Callers : at[c] # "idle" => Knows(c)
                      /\ Quiet => doors \subseteq {kept}

\* Of two callers, one is idle.
LEMMA OneWorks ==
    ASSUME LockInv, NEW c \in Callers, at[c] # "idle"
    PROVE  \A d \in Callers : d # c => at[d] = "idle"
BY DEF LockInv, OneAtATime, WorkHoldsTheLock

\* What a step of the run that works has to show.
Handed(c) ==
    /\ ClicksIdle' /\ Numbered'
    /\ at'[c] \notin TakingDown /\ (at'[c] = "idle" => ~moving'[c])
    /\ Undisturbed' => IF at'[c] = "idle" THEN (doors \subseteq {kept})' ELSE Knows(c)'

\* A step of the run at work that hands on what it should keeps the door invariant.
LEMMA OneRun ==
    ASSUME DoorInv, LockInv', NEW c \in Callers, at[c] # "idle",
           \A d \in Callers \ {c} : at'[d] = at[d] /\ moving'[d] = moving[d],
           Handed(c)
    PROVE  DoorInv'
<1>1. \A d \in Callers \ {c} : at'[d] = "idle" /\ ~moving'[d]
  BY OneWorks DEF DoorInv
<1>2. \A d \in Callers : at'[d] \notin TakingDown /\ (at'[d] = "idle" => ~moving'[d])
  BY <1>1 DEF Handed, TakingDown
<1>3. Undisturbed' => \A d \in Callers : at'[d] # "idle" => Knows(d)'
  BY <1>1 DEF Handed
<1>4. Undisturbed' /\ Quiet' => (doors \subseteq {kept})'
  BY DEF Handed, Quiet, Tasks
<1> QED
  BY <1>2, <1>3, <1>4 DEF DoorInv, Handed

\* What ending a run does to the tasks.
LEMMA DoneHands ==
    ASSUME DoorInv, NEW c \in Callers, Done(c)
    PROVE  /\ ClicksIdle' /\ at'[c] = "idle" /\ ~moving'[c]
           /\ \A d \in Callers \ {c} : at'[d] = at[d] /\ moving'[d] = moving[d]
BY ClicksAssumption DEF DoorInv, LockInv, TypeOK, ClicksIdle, Done, Over, Tasks

\* What going on does to the tasks.
LEMMA GotoHands ==
    ASSUME DoorInv, NEW c \in Callers, NEW label \in Labels, Goto(c, label)
    PROVE  /\ ClicksIdle' /\ at'[c] = label
           /\ \A d \in Callers \ {c} : at'[d] = at[d]
BY ClicksAssumption DEF DoorInv, LockInv, TypeOK, ClicksIdle, Goto, Tasks

\* No step of a program without website requests breaks the door invariant.
LEMMA DoorInvStep == ASSUME OnlySweeps, DoorInv, [Next]_vars PROVE DoorInv'
<1>1. LockInv'
  BY LockInvStep DEF DoorInv
<1> USE DEF DoorInv, TakingDown
<1>2. ASSUME NEW p \in Tasks, at[p] # "idle" PROVE p \in Callers
  BY <1>2 DEF ClicksIdle, Tasks
<1> DEFINE Untouched == UNCHANGED <<at, old, aim, moving, kept, doors, faults>>
<1>3. CASE Untouched
  BY <1>1, <1>3 DEF ClicksIdle, Numbered, Undisturbed, Knows, InHand, CouldDrop, Quiet
<1>4. ASSUME NEW c \in Callers, Asked(c) \/ Skipped(c) PROVE DoorInv'
  BY <1>4, <1>3 DEF Asked, Skipped, doorVars
<1>5. ASSUME NEW c \in Callers, Begin(c) PROVE DoorInv'
  <2>1. \A d \in Callers : at[d] = "idle"
    BY <1>5 DEF Begin, Enter, LockFree, LockInv, WorkHoldsTheLock
  <2>2. Undisturbed => doors \subseteq {kept}
    BY <2>1 DEF Quiet, ClicksIdle, Tasks
  <2>3. ClicksIdle' /\ at'[c] = "look" /\ \A d \in Callers \ {c} : at'[d] = at[d]
    BY <1>5, GotoHands DEF Begin, Labels
  <2>4. UNCHANGED <<old, aim, moving, kept, doors, faults>>
    BY <1>5 DEF Begin
  <2>5. Undisturbed' => Knows(c)'
    BY <2>1, <2>2, <2>3, <2>4 DEF Knows, InHand, Undisturbed
  <2>6. ~Quiet'
    BY <2>3 DEF Quiet, Tasks
  <2> QED
    BY <1>1, <2>1, <2>3, <2>4, <2>5, <2>6 DEF Numbered
<1>6. ASSUME NEW c \in Callers, Look(c) PROVE DoorInv'
  <2>1. at[c] = "look" /\ UNCHANGED <<kept, doors, faults>>
    BY <1>6 DEF Look
  <2>2. CASE kept.channel = NoChannel
    <3>1. Done(c)
      BY <1>6, <2>2 DEF Look
    <3>2. Handed(c)
      BY <2>1, <3>1, DoneHands DEF Handed, Numbered, Undisturbed, Knows, InHand
    <3> QED
      BY <1>1, <2>1, <3>1, <3>2, DoneHands, OneRun
  <2>3. CASE kept.channel # NoChannel
    <3>1. Goto(c, "compare") /\ old' = [old EXCEPT ![c] = kept] /\ UNCHANGED <<aim, moving>>
      BY <1>6, <2>3 DEF Look
    <3>2. old'[c] = kept
      BY <3>1 DEF LockInv, TypeOK, Tasks
    <3>3. Handed(c)
      BY <2>1, <3>1, <3>2, GotoHands DEF Handed, Numbered, Undisturbed, Knows, InHand, Labels
    <3> QED
      BY <1>1, <2>1, <3>1, <3>3, GotoHands, OneRun DEF Labels
  <2> QED
    BY <2>2, <2>3
<1>7. ASSUME NEW c \in Callers, Compare(c) PROVE DoorInv'
  <2> DEFINE Next1 == IF Overtaken(old[c]) \/ old[c].message = 0 THEN "near" ELSE "fetch"
  <2>1. at[c] = "compare" /\ Goto(c, Next1) /\ UNCHANGED <<old, kept, doors, faults>>
    BY <1>7 DEF Compare
  <2>2. moving'[c] = Overtaken(old[c]) /\ \A d \in Callers \ {c} : moving'[d] = moving[d]
    BY <1>7 DEF Compare, LockInv, TypeOK, Tasks
  <2>3. Undisturbed => old[c] = kept /\ doors \subseteq {kept}
    BY <2>1 DEF Knows, InHand
  <2>4. Overtaken(old[c]) => old[c].message # 0 /\ old[c].channel # NoChannel
    BY ChannelsAssumption DEF Overtaken
  <2>5. ClicksIdle' /\ at'[c] = Next1 /\ \A d \in Callers \ {c} : at'[d] = at[d]
    BY <2>1, GotoHands DEF Labels
  <2>6. Undisturbed' => Knows(c)'
    BY <2>1, <2>2, <2>3, <2>4, <2>5 DEF Knows, InHand, Undisturbed, Numbered
  <2>7. Handed(c)
    BY <2>1, <2>5, <2>6 DEF Handed, Numbered
  <2> QED
    BY <1>1, <2>1, <2>2, <2>5, <2>7, OneRun
<1>8. ASSUME NEW c \in Callers, Fetch(c) PROVE DoorInv'
  <2>1. at[c] = "fetch" /\ UNCHANGED <<kept, doors, faults>>
    BY <1>8 DEF Fetch
  <2>2. CASE Done(c)
    <3>1. Handed(c)
      BY <2>1, <2>2, DoneHands DEF Handed, Numbered, Undisturbed, Knows, InHand
    <3> QED
      BY <1>1, <2>1, <2>2, <3>1, DoneHands, OneRun
  <2>3. CASE old[c] \notin doors /\ Goto(c, "near") /\ UNCHANGED <<old, aim, moving>>
    <3>1. Handed(c)
      BY <2>1, <2>3, GotoHands DEF Handed, Numbered, Undisturbed, Knows, InHand, Labels
    <3> QED
      BY <1>1, <2>1, <2>3, <3>1, GotoHands, OneRun DEF Labels
  <2> QED
    BY <1>8, <2>2, <2>3 DEF Fetch
<1>8a. ASSUME NEW c \in Callers, Near(c) PROVE DoorInv'
  <2>1. at[c] = "near" /\ UNCHANGED <<kept, doors, faults>>
    BY <1>8a DEF Near
  <2>2. CASE Done(c)
    <3>1. Handed(c)
      BY <2>1, <2>2, DoneHands DEF Handed, Numbered, Undisturbed, Knows, InHand
    <3> QED
      BY <1>1, <2>1, <2>2, <3>1, DoneHands, OneRun
  <2>3. CASE Goto(c, "aim") /\ UNCHANGED <<old, aim, moving>>
    <3>1. Handed(c)
      BY <2>1, <2>3, GotoHands DEF Handed, Numbered, Undisturbed, Knows, InHand, Labels
    <3> QED
      BY <1>1, <2>1, <2>3, <3>1, GotoHands, OneRun DEF Labels
  <2> QED
    BY <1>8a, <2>2, <2>3 DEF Near
<1>9. ASSUME NEW c \in Callers, Aim(c) PROVE DoorInv'
  <2>1. /\ at[c] = "aim" /\ Goto(c, "send") /\ moving' = moving
        /\ UNCHANGED <<aim, kept, doors, faults>>
    BY <1>9, ClicksAssumption DEF Aim
  <2>2. old'[c] = kept
    BY <1>9 DEF Aim, LockInv, TypeOK, Tasks
  <2>3. Handed(c)
    BY <2>1, <2>2, GotoHands DEF Handed, Numbered, Undisturbed, Knows, InHand, Labels
  <2> QED
    BY <1>1, <2>1, <2>3, GotoHands, OneRun DEF Labels
<1>10. ASSUME NEW c \in Callers, Send(c) PROVE DoorInv'
  <2>1. at[c] = "send" /\ Goto(c, "setChannel") /\ UNCHANGED <<old, moving, kept, faults>>
    BY <1>10 DEF Send
  <2>2. aim'[c] = Door(aim[c].channel, last + 1)
    BY <1>10 DEF Send, LockInv, TypeOK, Tasks, Keys, Door
  <2>3. doors' = doors \cup {aim'[c]} /\ aim'[c].message # 0
    BY <1>10, <2>2 DEF Send, LockInv, TypeOK, Door
  <2>4. Handed(c)
    BY <2>1, <2>3, GotoHands DEF Handed, Numbered, Undisturbed, Knows, InHand, CouldDrop, Labels
  <2> QED
    BY <1>1, <2>1, <2>4, GotoHands, OneRun DEF Labels
<1>11. ASSUME NEW c \in Callers, SendRefused(c) PROVE DoorInv'
  <2>1. at[c] = "send" /\ Done(c) /\ UNCHANGED <<kept, doors, faults>>
    BY <1>11 DEF SendRefused
  <2>2. Handed(c)
    BY <2>1, DoneHands DEF Handed, Numbered, Undisturbed, Knows, InHand
  <2> QED
    BY <1>1, <2>1, <2>2, DoneHands, OneRun
<1>12. ASSUME NEW c \in Callers, SetChannel(c) PROVE DoorInv'
  <2>1. /\ at[c] = "setChannel" /\ Goto(c, "setMessage")
        /\ UNCHANGED <<old, aim, moving, doors, faults>>
    BY <1>12 DEF SetChannel
  <2>2. kept'.channel = aim'[c].channel
    BY <1>12 DEF SetChannel, LockInv, TypeOK, Keys
  <2>3. Handed(c)
    BY <2>1, <2>2, GotoHands DEF Handed, Numbered, Undisturbed, Knows, InHand, CouldDrop, Labels
  <2> QED
    BY <1>1, <2>1, <2>3, GotoHands, OneRun DEF Labels
<1>13. ASSUME NEW c \in Callers, SetMessage(c) PROVE DoorInv'
  <2>1. at[c] = "setMessage" /\ UNCHANGED <<doors, faults>>
    BY <1>13 DEF SetMessage
  <2>2. Undisturbed => kept' = aim[c]
    BY <1>13, <2>1 DEF SetMessage, LockInv, TypeOK, Tasks, Keys, Knows
  <2>3. CASE Done(c) /\ ~(moving[c] /\ old[c].channel # NoChannel /\ old[c].message # 0)
    <3>1. Undisturbed => doors \subseteq {aim[c]}
      BY <2>1, <2>3 DEF Knows, InHand, CouldDrop
    <3>2. Handed(c)
      BY <2>1, <2>2, <2>3, <3>1, DoneHands DEF Handed, Numbered, Undisturbed
    <3> QED
      BY <1>1, <2>1, <2>3, <3>2, DoneHands, OneRun
  <2>4. CASE Goto(c, "drop") /\ UNCHANGED <<old, aim, moving>>
    <3>1. Handed(c)
      BY <2>1, <2>2, <2>4, GotoHands
         DEF Handed, Numbered, Undisturbed, Knows, InHand, CouldDrop, Labels
    <3> QED
      BY <1>1, <2>1, <2>4, <3>1, GotoHands, OneRun DEF Labels
  <2> QED
    BY <1>13, <2>3, <2>4 DEF SetMessage
<1>14. ASSUME NEW c \in Callers, Drop(c) PROVE DoorInv'
  <2>1. at[c] = "drop" /\ Done(c) /\ kept' = kept /\ doors' \subseteq doors
    BY <1>14 DEF Drop
  <2>2. Undisturbed' => doors' = doors \ {old[c]} /\ Undisturbed
    BY <1>14 DEF Drop, Undisturbed, LockInv, TypeOK
  <2>3. Undisturbed' => doors' \subseteq {kept}
    BY <2>1, <2>2 DEF Knows, InHand
  <2>4. Handed(c)
    BY <2>1, <2>3, DoneHands DEF Handed, Numbered
  <2> QED
    BY <1>1, <2>1, <2>4, DoneHands, OneRun
<1>15. ASSUME NEW p \in Tasks, TakeDown(p) \/ ClearMessage(p) \/ ClearChannel(p) PROVE DoorInv'
  <2>1. p \in Callers /\ at[p] \in {"takeDown", "clearMessage", "clearChannel"}
    BY <1>2, <1>15 DEF TakeDown, ClearMessage, ClearChannel
  <2>2. at[p] \notin TakingDown
    BY <2>1
  <2> QED
    BY <2>1, <2>2
<1>16. ASSUME NEW p \in Tasks PROVE ~ClickPost(p) /\ ~ClickTakeDown(p)
  BY DEF ClickPost, ClickTakeDown, OnlySweeps
<1>17. CASE HandDelete
  <2>1. doors' \subseteq doors /\ UNCHANGED <<at, old, aim, moving, kept, faults>>
    BY <1>17 DEF HandDelete
  <2> QED
    BY <1>1, <2>1 DEF ClicksIdle, Numbered, Undisturbed, Knows, InHand, CouldDrop, Quiet
<1>18. CASE PublishRules \/ Wait \/ UNCHANGED vars
  BY <1>3, <1>18 DEF PublishRules, Wait, doorVars, vars
<1>19. CASE Crash
  BY <1>1, <1>19 DEF Crash, ClicksIdle, Numbered, Undisturbed, LockInv, TypeOK, Tasks
<1>19a. ASSUME NEW p \in Tasks, Break(p) PROVE DoorInv'
  <2>1. p \in Callers /\ ~Undisturbed' /\ doors' = doors
    BY <1>2, <1>19a DEF Break, Undisturbed, LockInv, TypeOK
  <2>2. /\ at'[p] = "idle" /\ ~moving'[p]
        /\ \A q \in Tasks \ {p} : at'[q] = at[q] /\ moving'[q] = moving[q]
    BY <1>19a DEF Break, Over, LockInv, TypeOK
  <2>3. ClicksIdle' /\ Numbered'
    BY <2>1, <2>2, ClicksAssumption DEF ClicksIdle, Numbered, Tasks
  <2> QED
    BY <1>1, <2>1, <2>2, <2>3 DEF Tasks
<1>20. ASSUME NEW p \in Tasks, Work(p) PROVE DoorInv'
  <2>1. TakeDown(p) \/ ClearMessage(p) \/ ClearChannel(p) \/ p \in Callers
    BY <1>2, <1>20
       DEF Work, Look, Compare, Fetch, Near, Aim, Send, SendRefused, SetChannel, SetMessage, Drop
  <2> QED
    BY <1>6, <1>7, <1>8, <1>8a, <1>9, <1>10, <1>11, <1>12, <1>13, <1>14, <1>15, <1>20, <2>1 DEF Work
<1> QED
  BY <1>4, <1>5, <1>16, <1>17, <1>18, <1>19, <1>19a, <1>20 DEF Next

\* "One front door per guild": as long as only the reconciler posts it, the only door up is the one
\* the settings name, whatever the loop, the boot listener, published posts and moderators do.
THEOREM SweepsKeepOneDoor == ASSUME OnlySweeps PROVE Spec => []OneFrontDoor
<1>1. Init => DoorInv
  <2> SUFFICES ASSUME Init PROVE DoorInv
    OBVIOUS
  <2>1. LockInv
    BY TypeOKInit DEF Init, LockInv, OneAtATime, WorkHoldsTheLock, Tasks
  <2>2. Numbered /\ doors \subseteq {kept}
    BY DEF Init, Numbered, Door
  <2> QED
    BY <2>1, <2>2 DEF Init, DoorInv, ClicksIdle, TakingDown, Tasks
<1>2. DoorInv /\ [Next]_vars => DoorInv'
  BY DoorInvStep
<1>3. DoorInv => OneFrontDoor
  BY DEF DoorInv, OneFrontDoor
<1> QED
  BY <1>1, <1>2, <1>3, PTL DEF Spec
=============================================================================
