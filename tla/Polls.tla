--------------------------------- MODULE Polls ---------------------------------
(* One poll, from the moment it is stored to the archive:                      *)
(* black_bloc/cogs/community/polls.py, its table of transitions in polls.py,   *)
(* and api/tools/polls.py.  Buttons, website requests and the loop share one   *)
(* asyncio program; a step is the code between two awaits.  The lock, the row  *)
(* and the message are per poll, so the module follows a single one.           *)
EXTENDS Integers, Sequences, FiniteSets

CONSTANTS
    Tasks,        \* interactive tasks: a pressed button or a website request each
    Loop,         \* the loop, run_due_polls
    Operations,   \* the operations the interactive tasks may start
    Surfaces,     \* "panel": buttons and votes of our own; "native": Discord's poll
    Voters,       \* members
    Options,      \* what a single-choice poll offers
    PostMayFail,  \* may Discord refuse what it is asked to send, find or change?
    Reminders,    \* does the guild want last calls (poll_reminder_minutes)?
    NoReviewRoom, \* may the guild have no channel for a review card?
    MaxCrashes    \* how often the program may die and be started again

Procs == Tasks \cup {Loop}

AllOperations == {"create", "approve", "deny", "close", "cancel", "vote"}

ASSUME PollsAssumption == /\ Loop \notin Tasks
                          /\ Operations \subseteq AllOperations
                          /\ Surfaces \subseteq {"panel", "native"}
                          /\ {PostMayFail, Reminders, NoReviewRoom} \subseteq BOOLEAN
                          /\ MaxCrashes \in Nat

VARIABLES
    row,       \* the database: the poll's row
    votes,     \* the database: poll_votes
    results,   \* poll_results and the log: what was counted, or that nothing was
    late,      \* history, since the program started: who voted too late
    pc, op,    \* where each task stands, and what it is doing
    lock,      \* the lock object each task holds or waits for
    gen,       \* how many lock objects drop_lock has taken out of the table
    seen,      \* the message id in the row each task last read
    answer,    \* what a voting task is to write
    tally,     \* the votes a task that closes a panel has counted
    stamp,     \* the clock the loop read when its pass began
    sent,      \* Discord: how many messages were sent for the poll
    board,     \* Discord: can the message be voted on?
    lastCalls, \* Discord: how many last calls were sent
    decisions, \* the log: poll.approved and poll.denied, in order
    hour,      \* the clock: "early", "soon" (a last call is due) or "over"
    crashes    \* how often the program has died

taskVars == <<pc, op, lock, gen, seen, answer, tally, stamp>>
outside  == <<sent, board, lastCalls>>
vars == <<row, votes, results, late, pc, op, lock, gen, seen, answer, tally, stamp,
          sent, board, lastCalls, decisions, hour, crashes>>

Absent   == "absent"
Statuses == {"pending_review", "open", "closed", "archived", "denied", "cancelled"}

\* TRANSITIONS, without the status of templates, which are never posted.
Transitions == [pending_review |-> {"open", "denied", "cancelled"},
                open           |-> {"closed", "cancelled"},
                closed         |-> {"archived"},
                cancelled      |-> {"archived"},
                denied         |-> {"open"},
                archived       |-> {}]

CanTransition(from, to) == from \in Statuses /\ to \in Transitions[from]

NoPoll == [status |-> Absent, surface |-> "panel", held |-> FALSE,
           message |-> 0, reminded |-> FALSE]

Rows == [status : Statuses \cup {Absent}, surface : {"panel", "native"},
         held : BOOLEAN, message : Nat, reminded : BOOLEAN]

\* A whole answer of one person to a single-choice poll; the empty one clears it.
Choices   == {{}} \cup {{o} : o \in Options}
NoAnswer  == <<>>
Answers   == (Voters \X Choices) \cup {NoAnswer}
AnswerOf(v) == {x \in votes : x[1] = v}

\* Is there a results row, and of which votes; was the message looked for in vain?
NoResults == [row |-> FALSE, votes |-> {}, failed |-> FALSE]

-------------------------------------------------------------------------------
Goto(p, label) == pc' = [pc EXCEPT ![p] = label]

\* A task that is over keeps nothing.
Finish(p) == /\ pc'     = [pc EXCEPT ![p] = "idle"]
             /\ op'     = [op EXCEPT ![p] = "none"]
             /\ lock'   = [lock EXCEPT ![p] = 0]
             /\ seen'   = [seen EXCEPT ![p] = 0]
             /\ answer' = [answer EXCEPT ![p] = NoAnswer]
             /\ tally'  = [tally EXCEPT ![p] = {}]
             /\ stamp'  = IF p = Loop THEN "early" ELSE stamp

\* poll_lock: the object the table holds, or a new one under the same number.
Queue(p, o) == /\ pc'   = [pc EXCEPT ![p] = "wait"]
               /\ op'   = [op EXCEPT ![p] = o]
               /\ lock' = [lock EXCEPT ![p] = gen]

\* close_poll keeps its lock until the result is posted, the others let it go.
Holds(p) == \/ pc[p] \in {"set", "release", "drop", "delete", "insert"}
            \/ pc[p] \in {"count", "save", "fetch", "end"} /\ op[p] = "close"

Free(p) == \A q \in Procs : Holds(q) => lock[q] # lock[p]

Quiet == \A p \in Procs : pc[p] = "idle"

-------------------------------------------------------------------------------
(* A poll is stored, and posted or held for review.                            *)

\* create_poll and add_options.  The row of a poll nobody reviews is open
\* before there is a message.
Create(p) ==
    /\ pc[p] = "idle" /\ p \in Tasks /\ "create" \in Operations
    /\ row.status = Absent
    /\ \E surface \in Surfaces, held \in BOOLEAN :
         /\ row' = [NoPoll EXCEPT !.surface = surface, !.held = held,
                                  !.status = IF held THEN "pending_review" ELSE "open"]
         /\ pc' = [pc EXCEPT ![p] = IF held THEN "card" ELSE "post"]
    /\ op' = [op EXCEPT ![p] = "create"]
    /\ UNCHANGED <<votes, results, late, lock, gen, seen, answer, tally, stamp, outside,
                   decisions, hour, crashes>>

\* send_review_card: a refused card leaves the poll to the website's list.
SendCard(p) ==
    /\ pc[p] = "card"
    /\ Finish(p)
    /\ UNCHANGED <<row, votes, results, late, gen, outside, decisions, hour, crashes>>

\* No channel for the card: the status is written whatever it has become.
CancelUnreviewed(p) ==
    /\ pc[p] = "card" /\ NoReviewRoom
    /\ row' = [row EXCEPT !.status = "cancelled"]
    /\ Finish(p)
    /\ UNCHANGED <<votes, results, late, gen, outside, decisions, hour, crashes>>

\* post_poll, without the lock.
Send(p) ==
    /\ pc[p] = "post"
    /\ sent' = sent + 1
    /\ board' = "up"
    /\ Goto(p, "setPosted")
    /\ UNCHANGED <<row, votes, results, late, op, lock, gen, seen, answer, tally, stamp,
                   lastCalls, decisions, hour, crashes>>

SendRefused(p) ==
    /\ pc[p] = "post" /\ PostMayFail
    /\ Goto(p, "unposted")
    /\ UNCHANGED <<row, votes, results, late, op, lock, gen, seen, answer, tally, stamp,
                   outside, decisions, hour, crashes>>

SetPosted(p) ==
    /\ pc[p] = "setPosted"
    /\ row' = [row EXCEPT !.message = sent]
    /\ Goto(p, "setOpen")
    /\ UNCHANGED <<votes, results, late, op, lock, gen, seen, answer, tally, stamp,
                   outside, decisions, hour, crashes>>

\* The last statement of post_poll: the status is not looked at.
SetOpen(p) ==
    /\ pc[p] = "setOpen"
    /\ row' = [row EXCEPT !.status = "open"]
    /\ Finish(p)
    /\ UNCHANGED <<votes, results, late, gen, outside, decisions, hour, crashes>>

\* Its callers give up a poll that could not be posted, as blindly.
CancelUnposted(p) ==
    /\ pc[p] = "unposted"
    /\ row' = [row EXCEPT !.status = "cancelled"]
    /\ Finish(p)
    /\ UNCHANGED <<votes, results, late, gen, outside, decisions, hour, crashes>>

-------------------------------------------------------------------------------
(* apply_decision, close_poll, cancel_poll: check and write under the lock.    *)

Wanted(o) == CASE o = "approve" -> "open"
               [] o = "deny"    -> "denied"
               [] o = "close"   -> "closed"
               [] OTHER         -> "cancelled"

Press(p, o) ==
    /\ pc[p] = "idle" /\ p \in Tasks
    /\ o \in Operations \cap {"approve", "deny", "close", "cancel"}
    /\ row.status # Absent
    /\ Queue(p, o)
    /\ UNCHANGED <<row, votes, results, late, gen, seen, answer, tally, stamp, outside,
                   decisions, hour, crashes>>

\* Mutation of Reread: the task does not wait for the lock.
RereadBarging(p) ==
    /\ pc[p] = "wait" /\ op[p] # "vote"
    /\ CanTransition(row.status, Wanted(op[p]))
    /\ seen' = [seen EXCEPT ![p] = row.message]
    /\ Goto(p, "set")
    /\ UNCHANGED <<row, votes, results, late, op, lock, gen, answer, tally, stamp, outside,
                   decisions, hour, crashes>>

\* Mutation of Reread: an approval trusts the card its button is on.
RereadUnasked(p) ==
    /\ pc[p] = "wait" /\ op[p] # "vote" /\ Free(p)
    /\ op[p] = "approve" \/ CanTransition(row.status, Wanted(op[p]))
    /\ seen' = [seen EXCEPT ![p] = row.message]
    /\ Goto(p, "set")
    /\ UNCHANGED <<row, votes, results, late, op, lock, gen, answer, tally, stamp, outside,
                   decisions, hour, crashes>>

\* The lock is given, and the row read again under it.
Reread(p) ==
    /\ pc[p] = "wait" /\ op[p] # "vote" /\ Free(p)
    /\ CanTransition(row.status, Wanted(op[p]))
    /\ seen' = [seen EXCEPT ![p] = row.message]
    /\ Goto(p, "set")
    /\ UNCHANGED <<row, votes, results, late, op, lock, gen, answer, tally, stamp, outside,
                   decisions, hour, crashes>>

TooLate(p) ==
    /\ pc[p] = "wait" /\ op[p] # "vote" /\ Free(p)
    /\ ~CanTransition(row.status, Wanted(op[p]))
    /\ Finish(p)
    /\ UNCHANGED <<row, votes, results, late, gen, outside, decisions, hour, crashes>>

\* Mutation of SetStatus: the verb of the button is written, not the status.
SetStatusVerb(p) ==
    /\ pc[p] = "set"
    /\ row' = [row EXCEPT !.status = op[p]]
    /\ IF op[p] \in {"approve", "deny"}
       THEN decisions' = Append(decisions, op[p]) /\ Goto(p, "release")
       ELSE UNCHANGED decisions /\ Goto(p, "drop")
    /\ UNCHANGED <<votes, results, late, op, lock, gen, seen, answer, tally, stamp, outside,
                   hour, crashes>>

SetStatus(p) ==
    /\ pc[p] = "set"
    /\ row' = [row EXCEPT !.status = Wanted(op[p])]
    /\ IF op[p] \in {"approve", "deny"}
       THEN decisions' = Append(decisions, op[p]) /\ Goto(p, "release")
       ELSE UNCHANGED decisions /\ Goto(p, "drop")
    /\ UNCHANGED <<votes, results, late, op, lock, gen, seen, answer, tally, stamp, outside,
                   hour, crashes>>

\* The lock is let go: an approved poll is posted, a denied one told about.
Approved(p) ==
    /\ pc[p] = "release" /\ op[p] = "approve"
    /\ pc'   = [pc EXCEPT ![p] = "post"]
    /\ lock' = [lock EXCEPT ![p] = 0]
    /\ UNCHANGED <<row, votes, results, late, op, gen, seen, answer, tally, stamp, outside,
                   decisions, hour, crashes>>

Denied(p) ==
    /\ pc[p] = "release" /\ op[p] = "deny"
    /\ Finish(p)
    /\ UNCHANGED <<row, votes, results, late, gen, outside, decisions, hour, crashes>>

\* drop_lock, then what follows a settled status.  A panel is counted and then its
\* buttons go; Discord's poll is looked up, ended and then read.  A cancelled poll
\* only goes, if it ever had a message.
AfterDrop(p) ==
    IF op[p] = "close" THEN IF row.surface = "panel" THEN "count" ELSE "fetch"
    ELSE IF seen[p] # 0 THEN "fetch" ELSE "idle"

DropLock(p) ==
    /\ pc[p] = "drop"
    /\ gen' = gen + 1
    /\ IF AfterDrop(p) = "idle"
       THEN Finish(p)
       ELSE Goto(p, AfterDrop(p)) /\ UNCHANGED <<op, lock, seen, answer, tally, stamp>>
    /\ UNCHANGED <<row, votes, results, late, outside, decisions, hour, crashes>>

\* panel_counts, kept here as the votes it counts, whose sums are the options'
\* totals; the number of voters, which a second query reads, is left out.
CountPanel(p) ==
    /\ pc[p] = "count"
    /\ tally' = [tally EXCEPT ![p] = votes]
    /\ Goto(p, "save")
    /\ UNCHANGED <<row, votes, results, late, op, lock, gen, seen, answer, stamp,
                   outside, decisions, hour, crashes>>

\* save_results replaces the row.  The votes of Discord's own poll are Discord's.
SaveResults(p) ==
    /\ pc[p] = "save"
    /\ results' = [results EXCEPT !.row = TRUE, !.votes = tally[p]]
    /\ IF row.surface = "panel"
       THEN /\ Goto(p, "fetch") /\ tally' = [tally EXCEPT ![p] = {}]
            /\ UNCHANGED <<op, lock, seen, answer, stamp>>
       ELSE Finish(p)
    /\ UNCHANGED <<row, votes, late, gen, outside, decisions, hour, crashes>>

\* fetch_poll_message finds the message ...
FetchMessage(p) ==
    /\ pc[p] = "fetch" /\ seen[p] # 0
    /\ Goto(p, "end")
    /\ UNCHANGED <<row, votes, results, late, op, lock, gen, seen, answer, tally, stamp,
                   outside, decisions, hour, crashes>>

\* ... or does not: it was never posted, or it is gone, out of sight or out of
\* reach.  The results of Discord's poll are given up, although it is closed.
NoMessage(p) ==
    /\ pc[p] = "fetch" /\ (seen[p] = 0 \/ PostMayFail)
    /\ results' = [results EXCEPT
                      !.failed = @ \/ (op[p] = "close" /\ row.surface = "native")]
    /\ Finish(p)
    /\ UNCHANGED <<row, votes, late, gen, outside, decisions, hour, crashes>>

\* _shut_panel, or end_poll; Discord may refuse it, and the code goes on with the
\* message it has.
AfterEnd(p) ==
    IF op[p] = "close" /\ row.surface = "native"
    THEN Goto(p, "save") /\ UNCHANGED <<op, lock, seen, answer, tally, stamp>>
    ELSE Finish(p)

EndVote(p) ==
    /\ pc[p] = "end"
    /\ board' = "off"
    /\ AfterEnd(p)
    /\ UNCHANGED <<row, votes, results, late, gen, sent, lastCalls, decisions, hour, crashes>>

EndRefused(p) ==
    /\ pc[p] = "end" /\ PostMayFail
    /\ AfterEnd(p)
    /\ UNCHANGED <<row, votes, results, late, gen, outside, decisions, hour, crashes>>

-------------------------------------------------------------------------------
(* A member answers a panel.                                                    *)

\* voting_row: the poll is open when the press arrives.
PressVote(p) ==
    /\ pc[p] = "idle" /\ p \in Tasks /\ "vote" \in Operations
    /\ row.surface = "panel" /\ board = "up" /\ row.status = "open"
    /\ \E v \in Voters, c \in Choices : answer' = [answer EXCEPT ![p] = <<v, c>>]
    /\ seen' = [seen EXCEPT ![p] = row.message]
    /\ op' = [op EXCEPT ![p] = "vote"]
    /\ Goto(p, "pressed")
    /\ UNCHANGED <<row, votes, results, late, lock, gen, tally, stamp, outside, decisions,
                   hour, crashes>>

\* cast_vote, after the answer to Discord: the lock is looked up only here.
CastVote(p) ==
    /\ pc[p] = "pressed"
    /\ Queue(p, "vote")
    /\ UNCHANGED <<row, votes, results, late, gen, seen, answer, tally, stamp, outside,
                   decisions, hour, crashes>>

\* Mutation of LockVote: votes do not take the lock.
LockVoteBarging(p) ==
    /\ pc[p] = "wait" /\ op[p] = "vote"
    /\ Goto(p, "delete")
    /\ UNCHANGED <<row, votes, results, late, op, lock, gen, seen, answer, tally, stamp,
                   outside, decisions, hour, crashes>>

LockVote(p) ==
    /\ pc[p] = "wait" /\ op[p] = "vote" /\ Free(p)
    /\ Goto(p, "delete")
    /\ UNCHANGED <<row, votes, results, late, op, lock, gen, seen, answer, tally, stamp,
                   outside, decisions, hour, crashes>>

\* set_panel_vote: what the member said before goes, what is said now comes.
DeleteVotes(p) ==
    /\ pc[p] = "delete"
    /\ votes' = votes \ AnswerOf(answer[p][1])
    /\ late' = IF row.status = "open" THEN late ELSE late \cup {answer[p][1]}
    /\ Goto(p, "insert")
    /\ UNCHANGED <<row, results, op, lock, gen, seen, answer, tally, stamp, outside,
                   decisions, hour, crashes>>

InsertVotes(p) ==
    /\ pc[p] = "insert"
    /\ votes' = votes \cup ({answer[p][1]} \X answer[p][2])
    /\ lock' = [lock EXCEPT ![p] = 0]
    /\ answer' = [answer EXCEPT ![p] = NoAnswer]
    /\ Goto(p, "repaint")
    /\ UNCHANGED <<row, results, late, op, gen, seen, tally, stamp, outside,
                   decisions, hour, crashes>>

\* repaint_panel draws the row of the press, and its buttons with it.
Repaint(p) ==
    /\ pc[p] = "repaint"
    /\ \/ seen[p] # 0 /\ board' = "up"
       \/ (seen[p] = 0 \/ PostMayFail) /\ UNCHANGED board
    /\ Finish(p)
    /\ UNCHANGED <<row, votes, results, late, gen, sent, lastCalls, decisions, hour, crashes>>

-------------------------------------------------------------------------------
(* run_due_polls: last calls, then what is due, then the archive.              *)

LoopGoto(label) == /\ Goto(Loop, label)
                   /\ UNCHANGED <<votes, results, late, op, lock, gen, seen, answer, tally,
                                  stamp, sent, board, decisions, hour, crashes>>

\* Mutation of BeginPass: the clock is read when the loop starts, not in each pass.
BeginPassStale ==
    /\ pc[Loop] = "idle"
    /\ Goto(Loop, "reminders")
    /\ UNCHANGED <<row, votes, results, late, op, lock, gen, seen, answer, tally, stamp,
                   outside, decisions, hour, crashes>>

BeginPass ==
    /\ pc[Loop] = "idle"
    /\ stamp' = hour
    /\ Goto(Loop, "reminders")
    /\ UNCHANGED <<row, votes, results, late, op, lock, gen, seen, answer, tally, outside,
                   decisions, hour, crashes>>

\* reminders_due and _remind, for the clock of the pass.
WantsLastCall == /\ Reminders
                 /\ row.status = "open" /\ ~row.reminded /\ row.message # 0
                 /\ stamp # "early"

RemindersDue ==
    /\ pc[Loop] = "reminders"
    /\ LoopGoto(IF WantsLastCall THEN "claim" ELSE "due")
    /\ UNCHANGED <<row, lastCalls>>

\* Mutation of ClaimReminder: the claim is not written.
ClaimReminderUnwritten ==
    /\ pc[Loop] = "claim"
    /\ LoopGoto(IF row.reminded THEN "due" ELSE "lastCall")
    /\ UNCHANGED <<row, lastCalls>>

\* claim_reminder, whatever the poll's status is by now.
ClaimReminder ==
    /\ pc[Loop] = "claim"
    /\ LoopGoto(IF row.reminded THEN "due" ELSE "lastCall")
    /\ row' = [row EXCEPT !.reminded = TRUE]
    /\ UNCHANGED lastCalls

LastCall ==
    /\ pc[Loop] = "lastCall"
    /\ lastCalls' = lastCalls + 1
    /\ LoopGoto("due")
    /\ UNCHANGED row

LastCallRefused ==
    /\ pc[Loop] = "lastCall" /\ PostMayFail
    /\ LoopGoto("unclaim")
    /\ UNCHANGED <<row, lastCalls>>

ClearReminder ==
    /\ pc[Loop] = "unclaim"
    /\ row' = [row EXCEPT !.reminded = FALSE]
    /\ LoopGoto("due")
    /\ UNCHANGED lastCalls

\* due_polls finds the poll, and close_poll queues for its lock.
CloseDue ==
    /\ pc[Loop] = "due"
    /\ row.status = "open" /\ row.message # 0 /\ stamp = "over"
    /\ Queue(Loop, "close")
    /\ UNCHANGED <<row, votes, results, late, gen, seen, answer, tally, stamp, outside,
                   decisions, hour, crashes>>

NothingDue ==
    /\ pc[Loop] = "due"
    /\ ~(row.status = "open" /\ row.message # 0 /\ stamp = "over")
    /\ Finish(Loop)
    /\ UNCHANGED <<row, votes, results, late, gen, outside, decisions, hour, crashes>>

\* _archive, poll_archive_days after the poll was settled, when every task that
\* had to do with it is long over.
Archive ==
    /\ Quiet /\ CanTransition(row.status, "archived")
    /\ row' = [row EXCEPT !.status = "archived"]
    /\ votes' \in {votes, {}}
    /\ UNCHANGED <<results, late, taskVars, outside, decisions, hour, crashes>>

-------------------------------------------------------------------------------
\* Time goes by towards closes_at, which a posted poll has.
Tick ==
    /\ row.message # 0 /\ hour # "over"
    /\ hour' = IF hour = "early" /\ Reminders THEN "soon" ELSE "over"
    /\ UNCHANGED <<row, votes, results, late, taskVars, outside, decisions, crashes>>

\* The program dies and is started again; locks and tasks are gone.  A death
\* between a vote's DELETE and its commit leaves the old vote, as one before it.
Crash ==
    /\ crashes < MaxCrashes
    /\ \A p \in Procs : pc[p] # "insert"
    /\ crashes' = crashes + 1
    /\ pc' = [p \in Procs |-> "idle"] /\ op' = [p \in Procs |-> "none"]
    /\ lock' = [p \in Procs |-> 0]    /\ gen' = 0
    /\ seen' = [p \in Procs |-> 0]
    /\ answer' = [p \in Procs |-> NoAnswer]
    /\ tally' = [p \in Procs |-> {}]
    /\ stamp' = "early" /\ late' = {}
    /\ UNCHANGED <<row, votes, results, outside, decisions, hour>>

-------------------------------------------------------------------------------
Init == /\ row = NoPoll /\ votes = {} /\ results = NoResults /\ late = {}
        /\ pc = [p \in Procs |-> "idle"] /\ op = [p \in Procs |-> "none"]
        /\ lock = [p \in Procs |-> 0] /\ gen = 0
        /\ seen = [p \in Procs |-> 0]
        /\ answer = [p \in Procs |-> NoAnswer]
        /\ tally = [p \in Procs |-> {}]
        /\ stamp = "early" /\ hour = "early"
        /\ sent = 0 /\ board = "none" /\ lastCalls = 0 /\ decisions = <<>>
        /\ crashes = 0

Start(p) == \/ Create(p) \/ PressVote(p)
            \/ \E o \in Operations : Press(p, o)

\* What a task that is under way does next, on its own ...
Proceed(p) == \/ SendCard(p) \/ CancelUnreviewed(p)
              \/ Send(p) \/ SendRefused(p) \/ SetPosted(p) \/ SetOpen(p)
              \/ CancelUnposted(p)
              \/ SetStatus(p) \/ Approved(p) \/ Denied(p) \/ DropLock(p)
              \/ CountPanel(p) \/ SaveResults(p) \/ FetchMessage(p) \/ NoMessage(p)
              \/ EndVote(p) \/ EndRefused(p)
              \/ CastVote(p) \/ DeleteVotes(p) \/ InsertVotes(p) \/ Repaint(p)

\* ... and what it does when it is given the lock.
Enter(p) == Reread(p) \/ TooLate(p) \/ LockVote(p)

Pass == \/ BeginPass \/ RemindersDue \/ ClaimReminder \/ LastCall
        \/ LastCallRefused \/ ClearReminder \/ CloseDue \/ NothingDue

Next == \/ \E p \in Procs : Start(p) \/ Proceed(p) \/ Enter(p)
        \/ Pass \/ Archive \/ Tick \/ Crash

Spec == Init /\ [][Next]_vars

\* asyncio runs what can run, a lock is first come first served (nothing asked of
\* the polls needs that of any other task than the loop), the loop is restarted
\* when it raises, and time goes by.
FairSpec == /\ Spec
            /\ \A p \in Tasks : WF_vars(Proceed(p))
            /\ WF_vars(Proceed(Loop) \/ Pass) /\ SF_vars(Enter(Loop))
            /\ WF_vars(Tick)

-------------------------------------------------------------------------------
Labels == {"idle", "card", "post", "setPosted", "setOpen", "unposted", "wait",
           "set", "release", "drop", "count", "save", "fetch", "end", "pressed", "delete",
           "insert", "repaint", "reminders", "claim", "lastCall", "unclaim", "due"}

\* Every variable has its type.
TypeOK == /\ row \in Rows
          /\ votes \subseteq Voters \X Options
          /\ results \in [row : BOOLEAN, votes : SUBSET (Voters \X Options), failed : BOOLEAN]
          /\ late \subseteq Voters
          /\ pc \in [Procs -> Labels]
          /\ op \in [Procs -> AllOperations \cup {"none"}]
          /\ lock \in [Procs -> Nat]
          /\ gen \in Nat
          /\ seen \in [Procs -> Nat]
          /\ answer \in [Procs -> Answers]
          /\ tally \in [Procs -> SUBSET (Voters \X Options)]
          /\ stamp \in {"early", "soon", "over"} /\ hour \in {"early", "soon", "over"}
          /\ sent \in Nat /\ lastCalls \in Nat
          /\ board \in {"none", "up", "off"}
          /\ decisions \in Seq({"approve", "deny"})
          /\ crashes \in Nat

\* apply_decision: "Approve or deny once, whoever gets the lock first", from two
\* doors at a time and beside posts, closes and restarts; a denied poll may be
\* approved after all, and that is the end of it.
DecidedOnce == decisions \in {<<>>, <<"approve">>, <<"deny">>, <<"deny", "approve">>}

\* A poll reaches its channel once, and one that was held for review only after
\* staff approved it, although posting runs without the lock.
PostedOnce == /\ sent <= 1
              /\ sent > 0 /\ row.held => \E i \in DOMAIN decisions : decisions[i] = "approve"

\* set_panel_vote replaces an answer by two statements.  As long as all voters
\* queue for the same lock object, nobody has two answers to a single-choice poll.
OneAnswerEach == gen = 0 /\ crashes = 0 =>
                     \A v \in Voters : Cardinality(AnswerOf(v)) <= 1

\* claim_reminder: a restart or a refusal may lose a last call, and never gives two.
LastCallOnce == lastCalls <= 1

\* A poll that is open and up is closed in time, restarts or not.
PostedPollEnds == (row.status = "open" /\ row.message # 0) ~> row.status # "open"

\* _write_results: when everyone is through with a closed poll its results are
\* there, unless the program died; those of Discord's own poll may be missing, and
\* then the log says that there was no message to count.  As long as the poll was
\* closed once, the results of a panel hold each voter's answer as it was given
\* last, whole, except of those who answered after the poll was closed.
ClosedIsCounted ==
    Quiet /\ crashes = 0 /\ row.status = "closed" =>
        /\ results.row \/ (row.surface = "native" /\ results.failed)
        /\ row.surface = "panel" /\ gen <= 1 =>
              \A v \in Voters \ late : {x \in results.votes : x[1] = v} = AnswerOf(v)
================================================================================
