-------------------------------- MODULE Events --------------------------------
(* One event of the events feature, from its proposal to the day its room is  *)
(* swept: black_bloc/events.py, cogs/community/events.py and                   *)
(* api/tools/events.py.  Discord buttons, website routes, gateway listeners    *)
(* and the two loops all run in one asyncio program, so a step here is the     *)
(* code between two awaits: a database read, a database write, or the answer   *)
(* of one Discord call.  Everything is kept per event (row, lock, places), so  *)
(* the module follows a single event.                                          *)
EXTENDS EventStatus, Integers

CONSTANTS
    Tasks,          \* interactive tasks: a pressed button or a website request each
    GoLiveLoop,     \* the one-minute loop, run_due_events
    ReconcileLoop,  \* the five-minute loop, reconcile_events
    Rooms,          \* text channels Discord may hand out, each at most once
    Posts,          \* forum posts Discord may hand out, each at most once
    Nowhere,        \* the NULL of review_channel_id
    Operations,     \* the operations the interactive tasks may start
    ReviewModes,    \* what a proposal asks Discord for: a room, a post, or either
    Loops,          \* the loops that run
    MaxTime,        \* the clock stops here
    Grace,          \* ORPHAN_GRACE_MINUTES
    Duration,       \* how long the event lasts
    MaxLate,        \* events_max_late_minutes
    PlaceMayFail,   \* may Discord refuse to make a review place?
    HandDeletes,    \* may a moderator delete the review place in Discord?
    MaxCrashes      \* how often the program may die and be started again

Places == Rooms \cup Posts
\* A place stands for the gateway listener that hears of its deletion.
Procs  == Tasks \cup {GoLiveLoop, ReconcileLoop} \cup Places
Time   == 0..MaxTime

AllOperations == {"propose", "automatic", "approve", "deny", "cancel",
                  "deleteRoom", "move", "edit"}

ASSUME OperationsAssumption == /\ Operations \subseteq AllOperations
                               /\ ReviewModes \subseteq {"makeRoom", "makePost"}
                               /\ Loops \subseteq {GoLiveLoop, ReconcileLoop}
ASSUME TimesAssumption == /\ MaxTime \in Nat /\ Grace \in Nat
                          /\ Duration \in Nat \ {0} /\ MaxLate \in Nat
                          /\ MaxCrashes \in Nat
ASSUME SwitchesAssumption == PlaceMayFail \in BOOLEAN /\ HandDeletes \in BOOLEAN
ASSUME ProcsAssumption == /\ Nowhere \notin Places
                          /\ Rooms \cap Posts = {}
                          /\ Tasks \cap Places = {}
                          /\ GoLiveLoop \notin Tasks \cup Places
                          /\ ReconcileLoop \notin Tasks \cup Places \cup {GoLiveLoop}

VARIABLES
    \* the database
    row,        \* the event's row
    \* the running program
    pc,         \* where each task stands
    op,         \* what each task is doing
    lock,       \* the lock object each task holds or waits for
    gen,        \* how many lock objects of this event have been dropped
    seen,       \* the row each task last read
    got,        \* the id Discord gave, or the place a task is about to delete
    stamp,      \* the clock a loop read when its pass began
    missing,    \* has one pass of the sweep missed the room (_missing_since)?
    rested,     \* is the next pass of the sweep due?
    \* Discord
    places,     \* what has become of each room and post
    calendar,   \* the scheduled events made for this event, and those still up
    public,     \* what the announce channel says
    \* the world
    now,
    faults      \* crashes so far, and whether Discord ever refused a clean-up

taskVars    == <<pc, op, lock, gen, seen, got, stamp, missing, rested>>
discordVars == <<places, calendar, public>>
vars == <<row, pc, op, lock, gen, seen, got, stamp, missing, rested,
          places, calendar, public, now, faults>>

NoRow == [status |-> Absent, review |-> Nowhere, kind |-> "room", sched |-> 0,
          announced |-> FALSE, starts |-> 0, created |-> 0]

Rows == [status : Statuses \cup {Absent}, review : Places \cup {Nowhere},
         kind : {"room", "post"}, sched : Nat, announced : BOOLEAN,
         starts : Nat, created : Nat]

Ends(r) == r.starts + Duration

\* checked_fields takes no start in the past; the bound lets the clock reach every end.
StartTimes == {t \in Time : t > now /\ t + Duration <= MaxTime}

-------------------------------------------------------------------------------
(* The per-event lock.  event_lock hands out the object the table holds, or a  *)
(* new one; drop_lock takes it out of the table while its holder and waiters   *)
(* still have it.  The n-th object of the event is the number n, and the table *)
(* always stands for object gen.                                               *)

LockedPcs == {"read", "set", "drop", "calendar", "setScheduled", "announce",
              "setAnnounced", "uncalendar", "unannounce", "tell", "goLivePost"}

\* approved_from passes through the calendar steps without taking the lock.
Holds(p) == pc[p] \in LockedPcs /\ op[p] # "automatic"

\* The cancelling operations: each one runs cancel_event.
Cancelling == {"cancel", "deleteRoom", "neverGotAChannel", "channelGone", "channelDeleted"}

\* The status a locked operation is after, whoever runs it.
Wanted(o) == CASE o = "approve"     -> Approved
               [] o = "deny"        -> Denied
               [] o = "golive"      -> Live
               [] o = "finish"      -> Done
               [] OTHER             -> Cancelled

\* _go_live turns to _missed when the event's end has gone by as well.
Missed(p)  == op[p] = "golive" /\ Ends(seen[p]) <= stamp[p]
Writes(p)  == IF Missed(p) THEN Done ELSE Wanted(op[p])

\* review_place: a room resolves as a channel, a post as a thread or a channel.
Resolves(r) == /\ r.review \in Places
               /\ places[r.review] = "there"
               /\ r.kind = "post" \/ r.review \in Rooms

-------------------------------------------------------------------------------
Goto(p, label) == pc' = [pc EXCEPT ![p] = label]

\* A task that is over keeps nothing.
Finish(p) == /\ pc'    = [pc EXCEPT ![p] = "idle"]
             /\ op'    = [op EXCEPT ![p] = "none"]
             /\ lock'  = [lock EXCEPT ![p] = 0]
             /\ seen'  = [seen EXCEPT ![p] = NoRow]
             /\ got'   = [got EXCEPT ![p] = Nowhere]
             /\ stamp' = [stamp EXCEPT ![p] = 0]

\* event_lock is evaluated, and the task queues for the object it was given.
Queue(p, o) == /\ pc'   = [pc EXCEPT ![p] = "wait"]
               /\ op'   = [op EXCEPT ![p] = o]
               /\ lock' = [lock EXCEPT ![p] = gen]

\* The lock is let go: the task is over, or turns to what follows its section.
AfterLock(o) == CASE o = "golive"     -> "dueLive"
                  [] o = "deleteRoom" -> "deletePlace"
                  [] o \in {"neverGotAChannel", "channelGone"} -> "swept"
                  [] OTHER            -> "idle"

Leave(p) == IF AfterLock(op[p]) = "idle"
            THEN Finish(p)
            ELSE /\ Goto(p, AfterLock(op[p]))
                 /\ lock' = [lock EXCEPT ![p] = 0]
                 /\ seen' = [seen EXCEPT ![p] = NoRow]
                 /\ UNCHANGED <<op, got, stamp>>

Init == /\ row = NoRow
        /\ pc = [p \in Procs |-> "idle"]
        /\ op = [p \in Procs |-> "none"]
        /\ lock = [p \in Procs |-> 0]
        /\ gen = 0
        /\ seen = [p \in Procs |-> NoRow]
        /\ got = [p \in Procs |-> Nowhere]
        /\ stamp = [p \in Procs |-> 0]
        /\ missing = FALSE
        /\ rested = TRUE
        /\ places = [p \in Places |-> "unused"]
        /\ calendar = [made |-> 0, up |-> {}]
        /\ public = [advert |-> "none", announced |-> 0, started |-> 0]
        /\ now = 0
        /\ faults = [crashes |-> 0, refused |-> FALSE]

-------------------------------------------------------------------------------
(* The section under the lock, which apply_decision, cancel_event, _go_live    *)
(* and _finish all have: take the lock, read the row again, refuse when the    *)
(* table forbids the move, write the status, drop the lock of a settled event. *)

\* Mutation of Lock: a task goes ahead while another one holds its lock.
LockBarging(p) ==
    /\ pc[p] = "wait"
    /\ Goto(p, "read")
    /\ UNCHANGED <<row, op, lock, gen, seen, got, stamp, missing, discordVars, now, rested, faults>>

\* Mutation of Lock: only the object in the table can be taken, so drop_lock strands its waiters.
LockOfTheTable(p) ==
    /\ pc[p] = "wait"
    /\ lock[p] = gen
    /\ \A q \in Procs \ {p} : ~(Holds(q) /\ lock[q] = lock[p])
    /\ Goto(p, "read")
    /\ UNCHANGED <<row, op, lock, gen, seen, got, stamp, missing, discordVars, now, rested, faults>>

Lock(p) ==
    /\ pc[p] = "wait"
    /\ \A q \in Procs \ {p} : ~(Holds(q) /\ lock[q] = lock[p])
    /\ Goto(p, "read")
    /\ UNCHANGED <<row, op, lock, gen, seen, got, stamp, missing, discordVars, now, rested, faults>>

\* Mutation of Reread: the row is read again under the lock but can_transition is not asked.
RereadUnasked(p) ==
    /\ pc[p] = "read"
    /\ seen' = [seen EXCEPT ![p] = row]
    /\ Goto(p, "set")
    /\ UNCHANGED <<row, op, lock, gen, got, stamp, missing, discordVars, now, rested, faults>>

Reread(p) ==
    /\ pc[p] = "read"
    /\ CanTransition(row.status, Wanted(op[p]))
    /\ seen' = [seen EXCEPT ![p] = row]
    /\ Goto(p, "set")
    /\ UNCHANGED <<row, op, lock, gen, got, stamp, missing, discordVars, now, rested, faults>>

TooLate(p) ==
    /\ pc[p] = "read"
    /\ ~CanTransition(row.status, Wanted(op[p]))
    /\ Leave(p)
    /\ UNCHANGED <<row, gen, missing, discordVars, now, rested, faults>>

SetStatus(p) ==
    /\ pc[p] = "set"
    /\ row' = [row EXCEPT !.status = Writes(p)]
    /\ Goto(p, CASE Writes(p) \in TerminalStatuses -> "drop"
                 [] Writes(p) = Approved -> "calendar"
                 [] Writes(p) = Live     -> "goLivePost"
                 [] OTHER                -> "tell")
    /\ UNCHANGED <<op, lock, gen, seen, got, stamp, missing, discordVars, now, rested, faults>>

DropLock(p) ==
    /\ pc[p] = "drop"
    /\ gen' = gen + 1
    /\ Goto(p, IF Writes(p) = Cancelled THEN "uncalendar" ELSE "tell")
    /\ UNCHANGED <<row, op, lock, seen, got, stamp, missing, discordVars, now, rested, faults>>

\* The last messages and renames of a section, which no property reads; then the lock goes.
Tell(p) ==
    /\ pc[p] = "tell"
    /\ Leave(p)
    /\ UNCHANGED <<row, gen, missing, discordVars, now, rested, faults>>

-------------------------------------------------------------------------------
(* apply_decision after an approval: the scheduled event, then the post.       *)

\* Turned off, in test mode, or refused by Discord: there is no scheduled event.
NoCalendar(p) ==
    /\ pc[p] = "calendar"
    /\ IF op[p] = "automatic"
       THEN Finish(p)
       ELSE Goto(p, "announce") /\ UNCHANGED <<op, lock, seen, got, stamp>>
    /\ UNCHANGED <<row, gen, missing, discordVars, now, rested, faults>>

\* Mutation of CreateScheduled: the id of the scheduled event is not kept.
CreateScheduledUnread(p) ==
    /\ pc[p] = "calendar"
    /\ calendar' = [made |-> calendar.made + 1, up |-> calendar.up \cup {calendar.made + 1}]
    /\ Goto(p, "setScheduled")
    /\ UNCHANGED <<row, op, lock, gen, seen, got, stamp, missing, places, public, now, rested, faults>>

CreateScheduled(p) ==
    /\ pc[p] = "calendar"
    /\ calendar' = [made |-> calendar.made + 1, up |-> calendar.up \cup {calendar.made + 1}]
    /\ got' = [got EXCEPT ![p] = calendar.made + 1]
    /\ Goto(p, "setScheduled")
    /\ UNCHANGED <<row, op, lock, gen, seen, stamp, missing, places, public, now, rested, faults>>

SetScheduled(p) ==
    /\ pc[p] = "setScheduled"
    /\ row' = [row EXCEPT !.sched = got[p]]
    /\ IF op[p] = "automatic"
       THEN Finish(p)
       ELSE /\ Goto(p, "announce")
            /\ got' = [got EXCEPT ![p] = Nowhere]
            /\ UNCHANGED <<op, lock, seen, stamp>>
    /\ UNCHANGED <<gen, missing, discordVars, now, rested, faults>>

\* The mode, the settings, the guard or Discord kept the post from going out.
NoAnnouncement(p) ==
    /\ pc[p] = "announce"
    /\ Goto(p, "tell")
    /\ UNCHANGED <<row, op, lock, gen, seen, got, stamp, missing, discordVars, now, rested, faults>>

Announce(p) ==
    /\ pc[p] = "announce"
    /\ public' = [public EXCEPT !.advert = "up", !.announced = @ + 1]
    /\ Goto(p, "setAnnounced")
    /\ UNCHANGED <<row, op, lock, gen, seen, got, stamp, missing, places, calendar, now, rested, faults>>

SetAnnounced(p) ==
    /\ pc[p] = "setAnnounced"
    /\ row' = [row EXCEPT !.announced = TRUE]
    /\ Goto(p, "tell")
    /\ UNCHANGED <<op, lock, gen, seen, got, stamp, missing, discordVars, now, rested, faults>>

-------------------------------------------------------------------------------
(* cancel_event after the status: take the scheduled event down (the id is the *)
(* one read before the status was written), then call the announcement off.    *)

\* Mutation of Uncalendar: only an announced event is taken off the calendar.
UncalendarTold(p) ==
    /\ pc[p] = "uncalendar"
    /\ calendar' = IF seen[p].announced THEN [calendar EXCEPT !.up = @ \ {seen[p].sched}]
                   ELSE calendar
    /\ Goto(p, "unannounce")
    /\ UNCHANGED <<row, op, lock, gen, seen, got, stamp, missing, places, public, now, rested, faults>>

Uncalendar(p) ==
    /\ pc[p] = "uncalendar"
    /\ \/ /\ calendar' = [calendar EXCEPT !.up = @ \ {seen[p].sched}]
          /\ UNCHANGED faults
       \/ /\ seen[p].sched \in calendar.up
          /\ faults' = [faults EXCEPT !.refused = TRUE]
          /\ UNCHANGED calendar
    /\ Goto(p, "unannounce")
    /\ UNCHANGED <<row, op, lock, gen, seen, got, stamp, missing, places, public, now, rested>>

Unannounce(p) ==
    /\ pc[p] = "unannounce"
    /\ \/ /\ public' = IF row.announced THEN [public EXCEPT !.advert = "calledOff"] ELSE public
          /\ UNCHANGED faults
       \/ /\ row.announced
          /\ faults' = [faults EXCEPT !.refused = TRUE]
          /\ UNCHANGED public
    /\ Goto(p, "tell")
    /\ UNCHANGED <<row, op, lock, gen, seen, got, stamp, missing, places, calendar, now, rested>>

-------------------------------------------------------------------------------
(* The interactive operations.  Each starts in an idle task, whenever somebody *)
(* presses the button or the website calls the route.                          *)

Idle(p, o) == p \in Tasks /\ pc[p] = "idle" /\ o \in Operations

StartDecision(p) ==
    /\ \E o \in {"approve", "deny"} : Idle(p, o) /\ Queue(p, o)
    /\ row.status # Absent
    /\ UNCHANGED <<row, gen, seen, got, stamp, missing, discordVars, now, rested, faults>>

StartCancel(p) ==
    /\ Idle(p, "cancel")
    /\ row.status # Absent
    /\ Queue(p, "cancel")
    /\ UNCHANGED <<row, gen, seen, got, stamp, missing, discordVars, now, rested, faults>>

\* delete_room finds the place first; only an open event is cancelled on the way.
StartDeleteRoom(p) ==
    /\ Idle(p, "deleteRoom")
    /\ Resolves(row)
    /\ got' = [got EXCEPT ![p] = row.review]
    /\ IF row.status \in OpenStatuses
       THEN Queue(p, "deleteRoom")
       ELSE /\ Goto(p, "deletePlace")
            /\ op' = [op EXCEPT ![p] = "deleteRoom"]
            /\ UNCHANGED lock
    /\ UNCHANGED <<row, gen, seen, stamp, missing, discordVars, now, rested, faults>>

\* submit_event writes the row before anything is asked of Discord.
StartPropose(p) ==
    /\ Idle(p, "propose")
    /\ row.status = Absent
    /\ \E t \in StartTimes :
          row' = [NoRow EXCEPT !.status = Pending, !.starts = t, !.created = now]
    /\ \E label \in ReviewModes : Goto(p, label)
    /\ op' = [op EXCEPT ![p] = "propose"]
    /\ UNCHANGED <<lock, gen, seen, got, stamp, missing, discordVars, now, rested, faults>>

\* approved_from: the same row, then a bare set_status that asks nothing.
StartAutomatic(p) ==
    /\ Idle(p, "automatic")
    /\ row.status = Absent
    /\ \E t \in StartTimes :
          row' = [NoRow EXCEPT !.status = Pending, !.starts = t, !.created = now]
    /\ Goto(p, "autoApprove")
    /\ op' = [op EXCEPT ![p] = "automatic"]
    /\ UNCHANGED <<lock, gen, seen, got, stamp, missing, discordVars, now, rested, faults>>

AutoApprove(p) ==
    /\ pc[p] = "autoApprove"
    /\ row' = [row EXCEPT !.status = Approved]
    /\ Goto(p, "calendar")
    /\ UNCHANGED <<op, lock, gen, seen, got, stamp, missing, discordVars, now, rested, faults>>

\* move_room_to_forum: an open event in a room; the old room is looked up once, here.
StartMove(p) ==
    /\ Idle(p, "move")
    /\ row.kind = "room"
    /\ row.status \in OpenStatuses
    /\ row.review # Nowhere
    /\ seen' = [seen EXCEPT ![p] = IF Resolves(row) THEN row ELSE NoRow]
    /\ op' = [op EXCEPT ![p] = "move"]
    /\ Goto(p, "makePost")
    /\ UNCHANGED <<row, lock, gen, got, stamp, missing, discordVars, now, rested, faults>>

\* event_edit reads the status, and a few awaits later writes the fields.
StartEdit(p) ==
    /\ Idle(p, "edit")
    /\ row.status \in EditableStatuses
    /\ \E t \in StartTimes : got' = [got EXCEPT ![p] = t]
    /\ op' = [op EXCEPT ![p] = "edit"]
    /\ Goto(p, "edit")
    /\ UNCHANGED <<row, lock, gen, seen, stamp, missing, discordVars, now, rested, faults>>

UpdateEvent(p) ==
    /\ pc[p] = "edit"
    /\ row' = [row EXCEPT !.starts = got[p]]
    /\ Finish(p)
    /\ UNCHANGED <<gen, missing, discordVars, now, rested, faults>>

-------------------------------------------------------------------------------
(* Making the review place: a room (make_review_channel) or a post             *)
(* (open_review_post, which a move uses as well).                              *)

MakePlace(p) ==
    /\ \E pl \in Places :
        /\ \/ pc[p] = "makeRoom" /\ pl \in Rooms
           \/ pc[p] = "makePost" /\ pl \in Posts
        /\ places[pl] = "unused"
        /\ places' = [places EXCEPT ![pl] = "there"]
        /\ got' = [got EXCEPT ![p] = pl]
    /\ Goto(p, "review")
    /\ UNCHANGED <<row, op, lock, gen, seen, stamp, missing, calendar, public, now, rested, faults>>

PlaceRefused(p) ==
    /\ PlaceMayFail
    /\ pc[p] \in {"makeRoom", "makePost"}
    /\ IF op[p] = "propose"
       THEN Goto(p, "placeFailed") /\ UNCHANGED <<op, lock, seen, got, stamp>>
       ELSE Finish(p)
    /\ UNCHANGED <<row, gen, missing, discordVars, now, rested, faults>>

\* The failure is recorded without the lock and whatever the status has become.
CancelUnplaced(p) ==
    /\ pc[p] = "placeFailed"
    /\ row' = [row EXCEPT !.status = Cancelled]
    /\ Finish(p)
    /\ UNCHANGED <<gen, missing, discordVars, now, rested, faults>>

SetReview(p) ==
    /\ pc[p] = "review"
    /\ row' = [row EXCEPT !.review = got[p]]
    /\ Goto(p, IF got[p] \in Posts THEN "setKind" ELSE "card")
    /\ UNCHANGED <<op, lock, gen, seen, got, stamp, missing, discordVars, now, rested, faults>>

\* A moved event's old room, if there was one, is removed next.
SetReviewKind(p) ==
    /\ pc[p] = "setKind"
    /\ row' = [row EXCEPT !.kind = "post"]
    /\ IF seen[p].review \in Places
       THEN /\ got' = [got EXCEPT ![p] = seen[p].review]
            /\ Goto(p, "deletePlace")
            /\ UNCHANGED <<op, lock, seen, stamp>>
       ELSE Finish(p)
    /\ UNCHANGED <<gen, missing, discordVars, now, rested, faults>>

\* post_review_card: a card that reached the room writes the room's id once more.
PostCard(p) ==
    /\ pc[p] = "card"
    /\ \/ /\ places[got[p]] = "there"
          /\ Goto(p, "setCard")
          /\ UNCHANGED <<op, lock, seen, got, stamp>>
       \/ Finish(p)
    /\ UNCHANGED <<row, gen, missing, discordVars, now, rested, faults>>

SetCard(p) ==
    /\ pc[p] = "setCard"
    /\ row' = [row EXCEPT !.review = got[p]]
    /\ Finish(p)
    /\ UNCHANGED <<gen, missing, discordVars, now, rested, faults>>

-------------------------------------------------------------------------------
(* Deleting the place, for delete_room, a move and the sweep.  Discord tells   *)
(* the program of every deletion, its own included.                            *)

Gone(pl) == places' = [places EXCEPT ![pl] = "gone"]

DeletePlace(p) ==
    /\ pc[p] = "deletePlace"
    /\ places[got[p]] = "there"
    /\ Gone(got[p])
    /\ pc' = [pc EXCEPT ![got[p]] = "heard", ![p] = "forget"]
    /\ UNCHANGED <<row, op, lock, gen, seen, got, stamp, missing, calendar, public, now, rested, faults>>

\* Mutation of DeleteRefused: the place is forgotten although Discord kept it.
DeleteRefusedForgets(p) ==
    /\ pc[p] = "deletePlace"
    /\ Goto(p, "forget")
    /\ UNCHANGED <<row, op, lock, gen, seen, got, stamp, missing, discordVars, now, rested, faults>>

\* Discord refuses, or the place is no longer there.  After a move nothing names the room.
DeleteRefused(p) ==
    /\ pc[p] = "deletePlace"
    /\ faults' = [faults EXCEPT !.refused = @ \/ (op[p] = "move" /\ places[got[p]] = "there")]
    /\ Finish(p)
    /\ UNCHANGED <<row, gen, missing, discordVars, now, rested>>

\* set_review(None); a moved event's row already names its post and keeps it.
Forget(p) ==
    /\ pc[p] = "forget"
    /\ row' = IF op[p] = "move" THEN row ELSE [row EXCEPT !.review = Nowhere]
    /\ Finish(p)
    /\ UNCHANGED <<gen, missing, discordVars, now, rested, faults>>

HandDelete(pl) ==
    /\ HandDeletes
    /\ places[pl] = "there"
    /\ Gone(pl)
    /\ Goto(pl, "heard")
    /\ UNCHANGED <<row, op, lock, gen, seen, got, stamp, missing, calendar, public, now, rested, faults>>

\* Mutation of Hear: any deleted room of the event's counts, not only the one its row names.
HearAnyPlace(pl) ==
    /\ pc[pl] = "heard"
    /\ IF row.status \in OpenStatuses
       THEN Queue(pl, "channelDeleted") /\ UNCHANGED <<seen, got, stamp>>
       ELSE Finish(pl)
    /\ UNCHANGED <<row, gen, missing, discordVars, now, rested, faults>>

\* on_guild_channel_delete and on_thread_delete.
Hear(pl) ==
    /\ pc[pl] = "heard"
    /\ LET ours    == row.review = pl /\ (pl \in Posts => row.kind = "post")
           settled == row.status \notin OpenStatuses
       IN  CASE ours /\ ~settled ->
                    Queue(pl, "channelDeleted") /\ UNCHANGED <<seen, got, stamp>>
             [] ours /\ settled /\ pl \in Posts ->
                    Goto(pl, "forget") /\ UNCHANGED <<op, lock, seen, got, stamp>>
             [] OTHER -> Finish(pl)
    /\ UNCHANGED <<row, gen, missing, discordVars, now, rested, faults>>

-------------------------------------------------------------------------------
(* The one-minute loop.  Both its queries use the clock read when it began;    *)
(* what a query found is taken up later, and queues for the lock then.         *)

\* Mutation of GoLiveTick: only an event that starts this very minute is due.
GoLiveTickExact(p) ==
    /\ p = GoLiveLoop /\ p \in Loops
    /\ pc[p] = "idle"
    /\ stamp' = [stamp EXCEPT ![p] = now]
    /\ IF row.status = Approved /\ row.starts = now
       THEN Goto(p, "due")
       ELSE Goto(p, "dueLive")
    /\ UNCHANGED <<row, op, lock, gen, seen, got, missing, discordVars, now, rested, faults>>

GoLiveTick(p) ==
    /\ p = GoLiveLoop /\ p \in Loops
    /\ pc[p] = "idle"
    /\ stamp' = [stamp EXCEPT ![p] = now]
    /\ IF row.status = Approved /\ row.starts <= now
       THEN Goto(p, "due")
       ELSE Goto(p, "dueLive")
    /\ UNCHANGED <<row, op, lock, gen, seen, got, missing, discordVars, now, rested, faults>>

\* Mutation of DueLive: only an event that ends this very minute is finished.
DueLiveExact(p) ==
    /\ pc[p] = "dueLive"
    /\ IF row.status = Live /\ Ends(row) = stamp[p]
       THEN Goto(p, "ended") /\ UNCHANGED <<op, lock, seen, got, stamp>>
       ELSE Finish(p)
    /\ UNCHANGED <<row, gen, missing, discordVars, now, rested, faults>>

DueLive(p) ==
    /\ pc[p] = "dueLive"
    /\ IF row.status = Live /\ Ends(row) <= stamp[p]
       THEN Goto(p, "ended") /\ UNCHANGED <<op, lock, seen, got, stamp>>
       ELSE Finish(p)
    /\ UNCHANGED <<row, gen, missing, discordVars, now, rested, faults>>

\* Its turn has come: _go_live, or _finish.
TakeUp(p) ==
    /\ pc[p] \in {"due", "ended"}
    /\ Queue(p, IF pc[p] = "due" THEN "golive" ELSE "finish")
    /\ UNCHANGED <<row, gen, seen, got, stamp, missing, discordVars, now, rested, faults>>

\* Too late to be worth it, or kept back like any other post.
NoGoLivePost(p) ==
    /\ pc[p] = "goLivePost"
    /\ Leave(p)
    /\ UNCHANGED <<row, gen, missing, discordVars, now, rested, faults>>

GoLivePost(p) ==
    /\ pc[p] = "goLivePost"
    /\ stamp[p] - seen[p].starts <= MaxLate
    /\ public' = [public EXCEPT !.started = @ + 1]
    /\ Leave(p)
    /\ UNCHANGED <<row, gen, missing, places, calendar, now, rested, faults>>

-------------------------------------------------------------------------------
(* The five-minute loop: first the open rows, then the settled ones.           *)

SweepTick(p) ==
    /\ p = ReconcileLoop /\ p \in Loops
    /\ pc[p] = "idle"
    /\ rested
    /\ rested' = FALSE
    /\ stamp' = [stamp EXCEPT ![p] = now]
    /\ IF row.status \in OpenStatuses
       THEN seen' = [seen EXCEPT ![p] = row] /\ Goto(p, "recheck")
       ELSE Goto(p, "swept") /\ UNCHANGED seen
    /\ UNCHANGED <<row, op, lock, gen, got, missing, discordVars, now, faults>>

\* Mutation of Recheck: each pass forgets that the last one missed the room.
RecheckForgets(p) ==
    /\ pc[p] = "recheck"
    /\ LET r         == seen[p]
           placeless == r.review = Nowhere
           stale     == placeless /\ stamp[p] - r.created >= Grace
       IN  IF stale
           THEN Queue(p, "neverGotAChannel")
           ELSE Goto(p, "swept") /\ UNCHANGED <<op, lock>>
    /\ UNCHANGED <<row, gen, seen, got, stamp, missing, discordVars, now, rested, faults>>

\* _recheck judges the row the query returned; rows before it may have taken a while.
Recheck(p) ==
    /\ pc[p] = "recheck"
    /\ LET r        == seen[p]
           placeless == r.review = Nowhere
           stale    == placeless /\ stamp[p] - r.created >= Grace
           lost     == ~placeless /\ ~Resolves(r) /\ r.kind = "room"
       IN  /\ IF stale \/ (lost /\ missing)
              THEN Queue(p, IF stale THEN "neverGotAChannel" ELSE "channelGone")
              ELSE Goto(p, "swept") /\ UNCHANGED <<op, lock>>
           /\ missing' = IF Resolves(r) THEN FALSE
                         ELSE IF lost THEN ~missing
                         ELSE missing
    /\ UNCHANGED <<row, gen, seen, got, stamp, discordVars, now, rested, faults>>

\* _sweep_finished: the row as queried, no lock.  A settled event's room goes when its
\* retention has passed, which may be any pass; a room already gone is forgotten, and a
\* post is archived.
Tidy(p) ==
    /\ pc[p] = "swept"
    /\ LET room == row.status \in SweptStatuses /\ row.kind = "room" /\ row.review # Nowhere
       IN  \/ /\ ~room \/ Resolves(row)
              /\ Finish(p)
           \/ /\ room /\ Resolves(row)
              /\ got' = [got EXCEPT ![p] = row.review]
              /\ Goto(p, "deletePlace")
              /\ UNCHANGED <<op, lock, seen, stamp>>
           \/ /\ room /\ ~Resolves(row)
              /\ Goto(p, "forget")
              /\ UNCHANGED <<op, lock, seen, got, stamp>>
    /\ UNCHANGED <<row, gen, missing, discordVars, now, rested, faults>>

-------------------------------------------------------------------------------
\* The program dies between two awaits; what was only in memory is gone.
Crash ==
    /\ faults.crashes < MaxCrashes
    /\ faults' = [faults EXCEPT !.crashes = @ + 1]
    /\ pc' = [p \in Procs |-> "idle"]
    /\ op' = [p \in Procs |-> "none"]
    /\ lock' = [p \in Procs |-> 0]
    /\ gen' = 0
    /\ seen' = [p \in Procs |-> NoRow]
    /\ got' = [p \in Procs |-> Nowhere]
    /\ stamp' = [p \in Procs |-> 0]
    /\ missing' = FALSE
    /\ rested' = TRUE
    /\ UNCHANGED <<row, discordVars, now>>

\* A minute or more goes by.  The id of a post and its kind are written by two statements, one
\* right after the other: no minute passes between them.  Once the clock has stopped, passes of
\* the sweep still come around.
Tick ==
    /\ \A p \in Procs : pc[p] # "setKind"
    /\ now < MaxTime \/ ~rested
    /\ now' = IF now < MaxTime THEN now + 1 ELSE now
    /\ rested' = TRUE
    /\ UNCHANGED <<row, pc, op, lock, gen, seen, got, stamp, missing, discordVars, faults>>

Start(p) ==
    \/ StartDecision(p) \/ StartCancel(p) \/ StartDeleteRoom(p) \/ StartPropose(p)
    \/ StartAutomatic(p) \/ StartMove(p) \/ StartEdit(p)

\* A pass of a loop begins.
Pass(p) == GoLiveTick(p) \/ SweepTick(p)

\* A task that is under way goes on.
Continue(p) ==
    \/ Reread(p) \/ TooLate(p) \/ SetStatus(p) \/ DropLock(p) \/ Tell(p)
    \/ NoCalendar(p) \/ CreateScheduled(p) \/ SetScheduled(p)
    \/ NoAnnouncement(p) \/ Announce(p) \/ SetAnnounced(p)
    \/ Uncalendar(p) \/ Unannounce(p)
    \/ AutoApprove(p) \/ UpdateEvent(p)
    \/ MakePlace(p) \/ PlaceRefused(p) \/ CancelUnplaced(p)
    \/ SetReview(p) \/ SetReviewKind(p) \/ PostCard(p) \/ SetCard(p)
    \/ DeletePlace(p) \/ DeleteRefused(p) \/ Forget(p)
    \/ DueLive(p) \/ TakeUp(p) \/ NoGoLivePost(p) \/ GoLivePost(p)
    \/ Recheck(p) \/ Tidy(p)

Next ==
    \/ \E p \in Procs : Start(p) \/ Pass(p) \/ Lock(p) \/ Continue(p)
    \/ \E pl \in Places : HandDelete(pl) \/ Hear(pl)
    \/ Crash
    \/ Tick

Spec == Init /\ [][Next]_vars

\* asyncio runs every task that can run, its locks are first come first served, the two
\* loops are restarted for ever, the gateway delivers, and time passes.  Nobody has to press
\* a button, and nothing need fail.
Fairness ==
    /\ \A p \in Procs : WF_vars(Continue(p)) /\ WF_vars(Pass(p)) /\ SF_vars(Lock(p))
    /\ \A pl \in Places : WF_vars(Hear(pl))
    /\ SF_vars(Tick)

FairSpec == Spec /\ Fairness

-------------------------------------------------------------------------------
(* What should hold.                                                           *)

Labels == LockedPcs \cup
          {"idle", "wait", "makeRoom", "makePost", "placeFailed", "review", "setKind", "card",
           "setCard", "autoApprove", "edit", "deletePlace", "forget", "heard", "due",
           "dueLive", "ended", "recheck", "swept"}
Ops == AllOperations \cup Cancelling \cup {"none", "golive", "finish"}

\* Every variable keeps its kind of value.
TypeOK ==
    /\ row \in Rows
    /\ pc \in [Procs -> Labels]
    /\ op \in [Procs -> Ops]
    /\ lock \in [Procs -> Nat]
    /\ gen \in Nat
    /\ seen \in [Procs -> Rows]
    /\ got \in [Procs -> Places \cup {Nowhere} \cup Nat]
    /\ stamp \in [Procs -> Nat]
    /\ missing \in BOOLEAN
    /\ rested \in BOOLEAN
    /\ places \in [Places -> {"unused", "there", "gone"}]
    /\ calendar \in [made : Nat, up : SUBSET Nat]
    /\ public \in [advert : {"none", "up", "calledOff"}, announced : Nat, started : Nat]
    /\ now \in Nat
    /\ faults \in [crashes : Nat, refused : BOOLEAN]

\* "Approve or deny, once, whoever gets the lock first": between the moment a handler has
\* found its move allowed and the moment it writes the status, no other handler of the event
\* is in the same place -- although drop_lock puts a second lock object into play while the
\* first still has a holder and waiters.
SingleDecider ==
    \A p, q \in Procs : pc[p] = "set" /\ pc[q] = "set" => p = q

\* The inductive form of it.  Of one lock object there is one holder; a task never has an object
\* newer than the table's; an object is dropped only once the event is settled for good, and a
\* handler that is about to write still stands on what it read.
OneHolder == \A p, q \in Procs : Holds(p) /\ Holds(q) /\ lock[p] = lock[q] => p = q
NoNewerLock == \A p \in Procs : lock[p] <= gen
DroppedWhenSettled ==
    /\ gen > 0 => row.status \in TerminalStatuses
    /\ \A p \in Procs : pc[p] = "drop" => row.status \in TerminalStatuses
DecisionStillAllowed ==
    \A p \in Procs : pc[p] = "set" => /\ row.status = seen[p].status
                                      /\ CanTransition(row.status, Wanted(op[p]))
                                      /\ lock[p] = 0
LockInv == OneHolder /\ NoNewerLock /\ DroppedWhenSettled /\ DecisionStillAllowed

\* The handlers, the two loops and the restarts together never move the event off the
\* transition table: no settled event comes back, no decision is made twice.
Lifecycle == INSTANCE EventLifecycle WITH status <- row.status
FollowsLifecycle == Lifecycle!Spec

Quiet == \A p \in Procs : pc[p] = "idle"
Undisturbed == faults.crashes = 0 /\ ~faults.refused

\* "Cancel one event and undo what it left behind", and "a public post must stop advertising an
\* event that is off": once every handler is through, a cancelled event has no scheduled event on
\* the calendar and no announcement, unless Discord refused to take them down or the program died
\* on the way.
CancelledIsUndone ==
    Quiet /\ Undisturbed /\ row.status = Cancelled => calendar.up = {} /\ public.advert # "up"

\* However often the buttons are pressed and the program restarted, an event gets one scheduled
\* event, one announcement and one go-live post at most.
ToldOnce == calendar.made <= 1 /\ public.announced <= 1 /\ public.started <= 1

\* A place Discord still shows is one the row names, or one a handler is still at work on:
\* no room or post is left behind that nothing will ever sweep.
NoPlaceLeftBehind ==
    Quiet /\ Undisturbed =>
        \A pl \in Places : places[pl] = "there" => row.review = pl

\* move_room_to_forum is "no settling": where nobody decides, cancels or deletes by hand, moving
\* an event's room to the forum leaves the event open.
MoveSettlesNothing == row.status \in {Absent, Pending}

\* Nobody who queues for the event's lock waits for ever.
EveryoneGetsTheLock ==
    \A p \in Procs : pc[p] = "wait" ~> pc[p] # "wait"

\* An approved event goes live, is recorded as missed, or is cancelled.
ApprovedMovesOn == row.status = Approved ~> row.status \in {Live, Done, Cancelled}

\* A live event comes to an end.
LiveEnds == row.status = Live ~> row.status \in {Done, Cancelled}

\* An open event whose room is gone is called off, even when the program was down at the time
\* and never heard of the deletion: two passes of the sweep find out.
LostRoomIsNoticed ==
    (/\ row.status \in OpenStatuses
     /\ row.kind = "room"
     /\ row.review \in Rooms
     /\ places[row.review] = "gone") ~> (row.status \notin OpenStatuses \/ row.kind = "post")

==============================================================================
