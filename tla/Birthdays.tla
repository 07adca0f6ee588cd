------------------------------- MODULE Birthdays -------------------------------
(* One member's birthday: black_bloc/cogs/community/birthdays.py and           *)
(* api/tools/birthdays.py.  The sweep, the Post now button, the member's own   *)
(* panel and the website meet over the row, the opt-out and the role.  A step  *)
(* is the code between two awaits; the wishes are on ("birthday_mode").        *)
EXTENDS Integers, FiniteSets

CONSTANTS
    Tasks,       \* interactive tasks: a pressed button or a website request each
    Sweep,       \* the five-minute loop, run_once
    Operations,  \* the operations the interactive tasks may start
    MaxDay,      \* the calendar stops here
    MayRefuse,   \* may Discord refuse a message or a role?
    MayMiss,     \* may the member leave, or be on the server and not in the bot's cache?
    MaxCrashes   \* how often the program may die and be started again

Procs == Tasks \cup {Sweep}
Days  == 0..MaxDay
Never == -1

\* A birthday is before the last day, so that its day comes to an end.
Dates == 0..(MaxDay - 1)

AllOperations == {"postNow", "postAgain", "set", "forget", "optOut", "optIn",
                  "webSet", "webOptOut", "webOptIn", "webClear"}

ASSUME BirthdaysAssumption == /\ Sweep \notin Tasks
                              /\ Operations \subseteq AllOperations
                              /\ MaxDay \in Nat \ {0} /\ MaxCrashes \in Nat
                              /\ {MayRefuse, MayMiss} \subseteq BOOLEAN

VARIABLES
    row,     \* the database: the birthday's row
    out,     \* the database: is there an opt-out, and who wrote it?
    pc, op,  \* where each task stands, and what it is doing
    seen,    \* what the row said when each task last read it: a role, a due wish
    stamp,   \* the member's date when a task looked at the clock
    worn,    \* Discord: does the member wear the birthday role?
    today,   \* the member's date
    history  \* crashes; was a row ever deleted; was a record ever cleared while the
             \* role stayed on a member the bot did not see?

taskVars == <<pc, op, seen, stamp>>
vars == <<row, out, pc, op, seen, stamp, worn, today, history>>

NoBirthday == [stored |-> FALSE, date |-> 0, opted |-> TRUE,
               announced |-> Never, role |-> FALSE]

Rows == [stored : BOOLEAN, date : Dates, opted : BOOLEAN,
         announced : Days \cup {Never}, role : BOOLEAN]

\* What a task keeps of the row it read: the role's record, and whether a wish was
\* due on the day the task has in mind.
Sights  == [role : BOOLEAN, due : BOOLEAN]
Nothing == [role |-> FALSE, due |-> FALSE]

-------------------------------------------------------------------------------
Goto(p, label) == pc' = [pc EXCEPT ![p] = label]

Finish(p) == /\ pc'    = [pc EXCEPT ![p] = "idle"]
             /\ op'    = [op EXCEPT ![p] = "none"]
             /\ seen'  = [seen EXCEPT ![p] = Nothing]
             /\ stamp' = [stamp EXCEPT ![p] = 0]

\* An UPDATE of a row that is not there changes nothing.
Update(r) == row' = IF row.stored THEN r ELSE row

\* The member's lock, which is never dropped.  The website's writes go without.
Holding == {"takeBack", "unrecord", "wish", "post", "mark", "give", "record",
            "column", "table", "return", "unreturn", "delete"}
Holds(p) == pc[p] \in Holding /\ op[p] \notin {"webOptOut", "webOptIn"}
Free     == \A p \in Procs : ~Holds(p)

Out(o) == o # "in"

\* celebrates_today, and the stamp is not of today unless asked to speak again.
Due(day, again) == row.stored /\ row.date = day /\ (again \/ row.announced # day)

-------------------------------------------------------------------------------
(* run_once: the clock and the rows are read once; then each member's lock.    *)

BeginSweep ==
    /\ pc[Sweep] = "idle" /\ row.stored
    /\ seen'  = [seen EXCEPT ![Sweep] = [role |-> row.role /\ row.announced # today,
                                           due  |-> Due(today, FALSE)]]
    /\ stamp' = [stamp EXCEPT ![Sweep] = today]
    /\ op'    = [op EXCEPT ![Sweep] = "sweep"]
    /\ Goto(Sweep, "wait")
    /\ UNCHANGED <<row, out, worn, today, history>>

\* Mutation of LockSweep: only a wished member's role is looked at.
LockSweepDueOnly ==
    /\ pc[Sweep] = "wait" /\ Free
    /\ Goto(Sweep, IF seen[Sweep].role /\ seen[Sweep].due THEN "takeBack" ELSE "wish")
    /\ seen' = [seen EXCEPT ![Sweep].role = FALSE]
    /\ UNCHANGED <<row, out, op, stamp, worn, today, history>>

\* _sweep_row, about the row of the query; its record of a role is asked for once.
LockSweep ==
    /\ pc[Sweep] = "wait" /\ Free
    /\ Goto(Sweep, IF seen[Sweep].role THEN "takeBack" ELSE "wish")
    /\ seen' = [seen EXCEPT ![Sweep].role = FALSE]
    /\ UNCHANGED <<row, out, op, stamp, worn, today, history>>

\* A role that is off is no role that was forgotten.
TakenOff == worn' = FALSE /\ history' = [history EXCEPT !.missed = FALSE]

\* _take_role_back, of a member the cache has ...
TakeBack ==
    /\ pc[Sweep] = "takeBack"
    /\ TakenOff
    /\ Goto(Sweep, "unrecord")
    /\ UNCHANGED <<row, out, op, seen, stamp, today>>

\* ... and of one it has not: the record goes, the role is not asked about.
Missed == history' = [history EXCEPT !.missed = @ \/ worn]

TakeBackMissing ==
    /\ pc[Sweep] = "takeBack" /\ MayMiss
    /\ Missed
    /\ Goto(Sweep, "unrecord")
    /\ UNCHANGED <<row, out, op, seen, stamp, worn, today>>

\* A refusal is logged and tried again by the next pass; anything else that goes
\* wrong ends this one.
TakeBackRefused ==
    /\ pc[Sweep] = "takeBack" /\ MayRefuse
    /\ \/ Goto(Sweep, "wish") /\ UNCHANGED <<op, seen, stamp>>
       \/ Finish(Sweep)
    /\ UNCHANGED <<row, out, worn, today, history>>

Unrecord ==
    /\ pc[Sweep] = "unrecord"
    /\ Update([row EXCEPT !.role = FALSE])
    /\ Goto(Sweep, "wish")
    /\ UNCHANGED <<out, op, seen, stamp, worn, today, history>>

\* Mutation of SweepWishes: the opt-out is taken from the row, as it was once.
SweepWishesUnasked ==
    /\ pc[Sweep] = "wish"
    /\ \/ seen[Sweep].due /\ Goto(Sweep, "post") /\ UNCHANGED <<op, seen, stamp>>
       \/ (~seen[Sweep].due \/ MayMiss) /\ Finish(Sweep)
    /\ UNCHANGED <<row, out, worn, today, history>>

\* Is the wish of the row this task read still wanted?
Wished(p) == ~Out(out) /\ seen[p].due

\* The opt-out is read again, the row is not; nobody is wished who is not seen.
SweepWishes ==
    /\ pc[Sweep] = "wish"
    /\ \/ Wished(Sweep) /\ Goto(Sweep, "post") /\ UNCHANGED <<op, seen, stamp>>
       \/ (~Wished(Sweep) \/ MayMiss) /\ Finish(Sweep)
    /\ UNCHANGED <<row, out, worn, today, history>>

-------------------------------------------------------------------------------
(* post_today: the rows are queried for their members only, and each is read   *)
(* again under its lock, the clock once for all of them.                       *)

StartPostNow(p) ==
    /\ pc[p] = "idle" /\ p \in Tasks /\ row.stored
    /\ \E o \in Operations \cap {"postNow", "postAgain"} : op' = [op EXCEPT ![p] = o]
    /\ stamp' = [stamp EXCEPT ![p] = today]
    /\ Goto(p, "wait")
    /\ UNCHANGED <<row, out, seen, worn, today, history>>

\* Mutation of LockPostNow: Post now does not wait for a sweep that is at the row.
LockPostNowBarging(p) ==
    /\ pc[p] = "wait" /\ op[p] \in {"postNow", "postAgain"}
    /\ seen' = [seen EXCEPT ![p].due = Due(stamp[p], op[p] = "postAgain")]
    /\ Goto(p, "wish")
    /\ UNCHANGED <<row, out, op, stamp, worn, today, history>>

LockPostNow(p) ==
    /\ pc[p] = "wait" /\ op[p] \in {"postNow", "postAgain"} /\ Free
    /\ seen' = [seen EXCEPT ![p].due = Due(stamp[p], op[p] = "postAgain")]
    /\ Goto(p, "wish")
    /\ UNCHANGED <<row, out, op, stamp, worn, today, history>>

PostNowWishes(p) ==
    /\ pc[p] = "wish" /\ p \in Tasks
    /\ \/ Wished(p) /\ Goto(p, "post") /\ UNCHANGED <<op, seen, stamp>>
       \/ (~Wished(p) \/ MayMiss) /\ Finish(p)
    /\ UNCHANGED <<row, out, worn, today, history>>

-------------------------------------------------------------------------------
(* _celebrate, under the lock: the wish, its mark, the role, its record.       *)

Post(p) ==
    /\ pc[p] = "post"
    /\ Goto(p, "mark")
    /\ UNCHANGED <<row, out, op, seen, stamp, worn, today, history>>

PostRefused(p) ==
    /\ pc[p] = "post" /\ MayRefuse
    /\ Finish(p)
    /\ UNCHANGED <<row, out, worn, today, history>>

\* Mutation of Mark: the number of the day is written past the end of the calendar.
MarkTomorrow(p) ==
    /\ pc[p] = "mark"
    /\ Update([row EXCEPT !.announced = stamp[p] + MaxDay])
    /\ Goto(p, "give")
    /\ UNCHANGED <<out, op, seen, stamp, worn, today, history>>

Mark(p) ==
    /\ pc[p] = "mark"
    /\ Update([row EXCEPT !.announced = stamp[p]])
    /\ Goto(p, "give")
    /\ UNCHANGED <<out, op, seen, stamp, worn, today, history>>

GiveRole(p) ==
    /\ pc[p] = "give"
    /\ \/ worn' = TRUE /\ Goto(p, "record") /\ UNCHANGED <<op, seen, stamp>>
       \/ (MayRefuse \/ MayMiss) /\ UNCHANGED worn /\ Finish(p)
    /\ UNCHANGED <<row, out, today, history>>

RecordRole(p) ==
    /\ pc[p] = "record"
    /\ Update([row EXCEPT !.role = TRUE])
    /\ Finish(p)
    /\ UNCHANGED <<out, worn, today, history>>

-------------------------------------------------------------------------------
(* The member's panel: store_birthday, forget_birthday, change_opt.            *)

StartSet(p) ==
    /\ pc[p] = "idle" /\ p \in Tasks
    /\ \E o \in Operations \cap {"set", "forget"} : op' = [op EXCEPT ![p] = o]
    /\ Goto(p, "wait")
    /\ UNCHANGED <<row, out, seen, stamp, worn, today, history>>

\* save_birthday, one transaction: a changed date may be told again today, and a
\* stored birthday is opted in.
Saved(date) == /\ row' = [row EXCEPT !.stored = TRUE, !.date = date, !.opted = TRUE,
                                     !.announced = Never]
               /\ out' = "in"

Save(p) ==
    /\ pc[p] = "wait" /\ op[p] = "set" /\ Free
    /\ \E date \in Dates : Saved(date)
    /\ Finish(p)
    /\ UNCHANGED <<worn, today, history>>

\* forget_birthday reads the row under the lock, and gives its role back first.
LockForget(p) ==
    /\ pc[p] = "wait" /\ op[p] = "forget" /\ Free
    /\ IF row.stored
       THEN /\ Goto(p, IF row.role THEN "return" ELSE "delete")
            /\ UNCHANGED <<op, seen, stamp>>
       ELSE Finish(p)
    /\ UNCHANGED <<row, out, worn, today, history>>

\* The row goes: from under a role that is worn, or that somebody may yet give?
Orphaned == history' = [history EXCEPT !.deleted = @ \/ worn \/ \E p \in Procs : seen[p].due]

\* delete_birthday, one transaction as well.
Delete(p) ==
    /\ pc[p] = "delete"
    /\ row' = NoBirthday /\ out' = "in"
    /\ Orphaned
    /\ Finish(p)
    /\ UNCHANGED <<worn, today>>

\* change_opt looks at the row before it queues for the lock; whether the role is
\* to come off matters to who opts out.
StartOpt(p) ==
    /\ pc[p] = "idle" /\ p \in Tasks /\ row.stored
    /\ \E o \in Operations \cap {"optOut", "optIn"} :
         /\ row.opted # (o = "optIn")
         /\ op' = [op EXCEPT ![p] = o]
         /\ seen' = [seen EXCEPT ![p].role = row.role /\ o = "optOut"]
    /\ Goto(p, "wait")
    /\ UNCHANGED <<row, out, stamp, worn, today, history>>

LockOpt(p) ==
    /\ pc[p] = "wait" /\ op[p] \in {"optOut", "optIn"} /\ Free
    /\ Goto(p, "column")
    /\ UNCHANGED <<row, out, op, seen, stamp, worn, today, history>>

In(o) == o \in {"optIn", "webOptIn"}

\* The role of the row this task read goes back with an opt-out.
AfterOpt(p) == IF op[p] = "optOut" /\ seen[p].role
               THEN Goto(p, "return") /\ UNCHANGED <<op, seen, stamp>>
               ELSE Finish(p)

\* set_opted_in: the old column and the table are two commits.
SetColumn(p) ==
    /\ pc[p] = "column"
    /\ Update([row EXCEPT !.opted = In(op[p])])
    /\ IF row.stored THEN Goto(p, "table") /\ UNCHANGED <<op, seen, stamp>>
                     ELSE AfterOpt(p)
    /\ UNCHANGED <<out, worn, today, history>>

SetTable(p) ==
    /\ pc[p] = "table"
    /\ out' = IF In(op[p]) THEN "in"
              ELSE IF Out(out) THEN out
              ELSE IF op[p] = "optOut" THEN "self" ELSE "web"
    /\ AfterOpt(p)
    /\ UNCHANGED <<row, worn, today, history>>

\* _return_role, about the row this task read, by way of _take_role_back.
ReturnRole(p) ==
    /\ pc[p] = "return"
    /\ TakenOff
    /\ Goto(p, "unreturn")
    /\ UNCHANGED <<row, out, op, seen, stamp, today>>

ReturnMissing(p) ==
    /\ pc[p] = "return" /\ MayMiss
    /\ Missed
    /\ Goto(p, "unreturn")
    /\ UNCHANGED <<row, out, op, seen, stamp, worn, today>>

\* Mutation of ReturnRefused: the record goes although the role stays.
ReturnRefusedForgets(p) ==
    /\ pc[p] = "return" /\ MayRefuse
    /\ Goto(p, "unreturn")
    /\ UNCHANGED <<row, out, op, seen, stamp, worn, today, history>>

\* A refusal does not keep the row from being deleted, any other failure does.
ReturnRefused(p) ==
    /\ pc[p] = "return" /\ MayRefuse
    /\ \/ op[p] = "forget" /\ Goto(p, "delete") /\ UNCHANGED <<op, seen, stamp>>
       \/ Finish(p)
    /\ UNCHANGED <<row, out, worn, today, history>>

Unreturn(p) ==
    /\ pc[p] = "unreturn"
    /\ Update([row EXCEPT !.role = FALSE])
    /\ IF op[p] = "forget" THEN Goto(p, "delete") /\ UNCHANGED <<op, seen, stamp>>
                           ELSE Finish(p)
    /\ UNCHANGED <<out, worn, today, history>>

-------------------------------------------------------------------------------
(* The website writes the row without the member's lock.                       *)

WebSet ==
    /\ "webSet" \in Operations
    /\ \E date \in Dates : Saved(date)
    /\ UNCHANGED <<taskVars, worn, today, history>>

\* The role is not given back.
WebClear ==
    /\ "webClear" \in Operations /\ row.stored
    /\ row' = NoBirthday /\ out' = "in"
    /\ Orphaned
    /\ UNCHANGED <<taskVars, worn, today>>

WebOpt(p) ==
    /\ pc[p] = "idle" /\ p \in Tasks /\ row.stored
    /\ \E o \in Operations \cap {"webOptOut", "webOptIn"} : op' = [op EXCEPT ![p] = o]
    /\ Goto(p, "column")
    /\ UNCHANGED <<row, out, seen, stamp, worn, today, history>>

-------------------------------------------------------------------------------
(* Discord's members.  Whether one is on the server and in the bot's cache may   *)
(* be otherwise at every look, so no variable says so: each look decides.        *)

\* Who leaves the server leaves their roles behind.
Leave ==
    /\ MayMiss /\ worn
    /\ TakenOff
    /\ UNCHANGED <<row, out, taskVars, today>>

-------------------------------------------------------------------------------
NextDay ==
    /\ today < MaxDay
    /\ today' = today + 1
    /\ UNCHANGED <<row, out, taskVars, worn, history>>

Crash ==
    /\ history.crashes < MaxCrashes
    /\ history' = [history EXCEPT !.crashes = @ + 1]
    /\ pc' = [p \in Procs |-> "idle"] /\ op' = [p \in Procs |-> "none"]
    /\ seen' = [p \in Procs |-> Nothing] /\ stamp' = [p \in Procs |-> 0]
    /\ UNCHANGED <<row, out, worn, today>>

Init == /\ row = NoBirthday /\ out = "in"
        /\ pc = [p \in Procs |-> "idle"] /\ op = [p \in Procs |-> "none"]
        /\ seen = [p \in Procs |-> Nothing] /\ stamp = [p \in Procs |-> 0]
        /\ worn = FALSE /\ today = 0
        /\ history = [crashes |-> 0, deleted |-> FALSE, missed |-> FALSE]

Start(p) == StartPostNow(p) \/ StartSet(p) \/ StartOpt(p) \/ WebOpt(p)

Enter(p) == LockPostNow(p) \/ Save(p) \/ LockForget(p) \/ LockOpt(p)

Refusal(p) == PostRefused(p) \/ ReturnRefused(p)

Proceed(p) == \/ PostNowWishes(p) \/ Post(p) \/ Mark(p) \/ GiveRole(p) \/ RecordRole(p)
              \/ Delete(p) \/ SetColumn(p) \/ SetTable(p)
              \/ ReturnRole(p) \/ ReturnMissing(p) \/ Unreturn(p)

SweepStep == TakeBack \/ TakeBackMissing \/ TakeBackRefused \/ Unrecord \/ SweepWishes

Next == \/ \E p \in Procs : Start(p) \/ Enter(p) \/ Proceed(p) \/ Refusal(p)
        \/ BeginSweep \/ LockSweep \/ SweepStep
        \/ WebSet \/ WebClear \/ Leave \/ NextDay \/ Crash

Spec == Init /\ [][Next]_vars

\* asyncio runs what can run, a lock is first come first served (nothing asked of the
\* birthdays needs that of any other task than the sweep), the loop goes on for ever,
\* days pass, and Discord does not refuse to take the role back for ever.
FairSpec == /\ Spec
            /\ \A p \in Tasks : WF_vars(Proceed(p) \/ Refusal(p))
            /\ WF_vars(BeginSweep \/ SweepStep \/ Proceed(Sweep) \/ Refusal(Sweep))
            /\ SF_vars(LockSweep) /\ SF_vars(TakeBack \/ TakeBackMissing)
            /\ WF_vars(NextDay)

-------------------------------------------------------------------------------
Labels == Holding \cup {"idle", "wait"}

\* Every variable has its type.
TypeOK == /\ row \in Rows /\ out \in {"in", "self", "web"}
          /\ pc \in [Procs -> Labels]
          /\ op \in [Procs -> AllOperations \cup {"none", "sweep"}]
          /\ seen \in [Procs -> Sights] /\ stamp \in [Procs -> Days]
          /\ worn \in BOOLEAN /\ today \in Days
          /\ history \in [crashes : Nat, deleted : BOOLEAN, missed : BOOLEAN]

Quiet == \A p \in Procs : pc[p] = "idle"

\* A wish goes out.
Wishes(p) == pc[p] = "post" /\ pc'[p] = "mark"

\* "Re-read under the lock, so a sweep tick that just wished them is seen": when Post
\* now speaks without having been asked to speak again, no wish of that day has been
\* marked since it looked, by the sweep, by another press or before a restart.
PostNowSeesTheSweep ==
    [][\A p \in Tasks : Wishes(p) /\ op[p] = "postNow" => row.announced # stamp[p]]_vars

\* A member who opted out in Discord is not wished, by a pass that read their row
\* before they did neither.
OutIsNotWished == [][\A p \in Procs : Wishes(p) => out # "self"]_vars

\* A role that is worn is written down, so that it can come off again, whatever the
\* sweep, the panel and refusals do at once; as long as no birthday was deleted, no
\* restart fell between the role and its record, and no record was cleared because
\* the member was not in the cache, which leaves the role on for good.
RoleIsRecorded ==
    Quiet /\ worn /\ history.crashes = 0 /\ ~history.deleted /\ ~history.missed => row.role

\* A role that is worn and written down comes off after the day, unless the row goes
\* or the member is not in the cache when the sweep looks.
RecordedRoleComesOff ==
    (row.role /\ worn) ~> (~worn \/ history.deleted \/ history.missed)
================================================================================
