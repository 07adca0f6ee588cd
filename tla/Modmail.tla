-------------------------------- MODULE Modmail --------------------------------
(* One member's modmail tickets: black_bloc/cogs/moderation/modmail.py.        *)
(* Doors that open a ticket, staff who write in it and close it, the sweep of   *)
(* reconcile_tickets and the debounced card of _card_later meet over the        *)
(* ticket's row, its room on Discord and the member's lock (user_lock).         *)
EXTENDS Integers, FiniteSets

CONSTANTS
    Tasks,       \* a direct message, a pressed button, a command or a listener each
    Sweep,       \* the five-minute loop
    Operations,  \* the operations the tasks may start
    MaxTickets,  \* the tickets the member may have, one after the other
    MaxWords,    \* how often the member speaks in a ticket
    MaxMishaps   \* how often Discord refuses, a card is deleted by hand or the
                 \* program dies and is started again, together

\* The timer of a ticket's card is a process of the ticket's number.
Tickets == 1..MaxTickets
Procs   == Tasks \cup {Sweep} \cup Tickets
Nobody  == 0

\* A new card has an identifier no live message, row or task still knows.
NoCard  == 0
\* A message the ticket keeps nothing of, where it stands below a card.
Stray   == -1
CardIds == 1..(Cardinality(Procs) + 2)
Strikes == 2

AllOperations == {"ask", "write", "close", "gone"}

ASSUME ModmailAssumption == /\ MaxTickets \in Nat /\ MaxWords \in Nat \ {0}
                            /\ Operations \subseteq AllOperations
                            /\ MaxMishaps \in Nat
                            /\ IsFiniteSet(Tasks) /\ Sweep \notin Tasks
                            /\ (Tickets \cup {Nobody}) \cap (Tasks \cup {Sweep}) = {}

VARIABLES
    ticket,   \* the database: a row each
    words,    \* the database: what the member said in each ticket
    room,     \* Discord: each ticket's channel or thread, its cards, and what is last:
              \* a card, a message the ticket keeps, or a stray one below a card
    logged,   \* Discord: the transcripts posted of each ticket, the words in the last
    pc, op,   \* where each task stands, and what it is doing
    mine,     \* the ticket a task is at, the card and the words it read
    lock,     \* who holds the member's lock
    dirty,    \* cards asked for while their timer runs
    strikes,  \* how often running the sweep found a ticket's room gone
    notices,  \* deletions of a room Discord told of and no listener has taken up
    mishaps   \* how many there were

store   == <<ticket, words>>
discord == <<room, logged>>
taskVars == <<pc, op, mine>>
memory  == <<lock, dirty, strikes, notices>>
vars == <<store, discord, taskVars, memory, mishaps>>

NoRow   == [status |-> "none", placed |-> FALSE, aged |-> FALSE, card |-> NoCard]
NoRoom  == [is |-> "none", cards |-> {}, last |-> NoCard]
Nothing == [t |-> 0, card |-> NoCard, new |-> NoCard, words |-> 0]

-------------------------------------------------------------------------------
Goto(p, label) == pc' = [pc EXCEPT ![p] = label]

Finish(p) == /\ pc'   = [pc EXCEPT ![p] = "idle"]
             /\ op'   = [op EXCEPT ![p] = "none"]
             /\ mine' = [mine EXCEPT ![p] = Nothing]

Leave(p) == lock' = IF lock = p THEN Nobody ELSE lock

Open     == {t \in Tickets : ticket[t].status = "open"}
Stands(t) == room[t].is = "there"

Mishap == /\ mishaps < MaxMishaps
          /\ mishaps' = mishaps + 1

\* speak: a message lands in the ticket's room, if the row names one and it is there.
Speaks(t, card) ==
    room' = IF ticket[t].placed /\ Stands(t)
            THEN [room EXCEPT ![t].last = card,
                              ![t].cards = IF card = NoCard THEN @ ELSE @ \cup {card}]
            ELSE room

\* A message of a room goes.
Gone(t, card) ==
    room' = [room EXCEPT ![t].cards = @ \ {card},
                         ![t].last = IF @ = card THEN NoCard ELSE @]

-------------------------------------------------------------------------------
(* _inbound, open_a_ticket: one of three doors, under the member's lock.       *)

Ask(p) ==
    /\ pc[p] = "idle" /\ p \in Tasks /\ "ask" \in Operations
    /\ op' = [op EXCEPT ![p] = "ask"]
    /\ Goto(p, "ask")
    /\ UNCHANGED <<store, discord, mine, memory, mishaps>>

\* Mutation of LockAsk: the doors do not wait for the member's lock.
LockAskBarging(p) ==
    /\ pc[p] = "ask" /\ lock' = p
    /\ IF Open = {}
       THEN /\ \E t \in Tickets : ticket[t].status = "none"
            /\ Goto(p, "create") /\ UNCHANGED <<op, mine>>
       ELSE /\ \E t \in Open : words[t] < MaxWords /\ mine' = [mine EXCEPT ![p].t = t]
            /\ Goto(p, "record") /\ UNCHANGED op
    /\ UNCHANGED <<store, discord, dirty, strikes, notices, mishaps>>

\* open_ticket_for, under the lock: a direct message goes into the open ticket, the
\* button and the staff's door refuse.
LockAsk(p) ==
    /\ pc[p] = "ask" /\ lock = Nobody
    /\ \/ /\ Open = {} /\ \E t \in Tickets : ticket[t].status = "none"
          /\ lock' = p
          /\ Goto(p, "create") /\ UNCHANGED <<op, mine>>
       \/ /\ \E t \in Open : words[t] < MaxWords /\ mine' = [mine EXCEPT ![p].t = t]
          /\ lock' = p
          /\ Goto(p, "record") /\ UNCHANGED op
       \/ /\ Open # {}
          /\ Finish(p) /\ UNCHANGED lock
    /\ UNCHANGED <<store, discord, dirty, strikes, notices, mishaps>>

\* create_ticket: a row that is open and has no place yet.
Create(p) ==
    /\ pc[p] = "create"
    /\ \E t \in Tickets :
         /\ ticket[t].status = "none"
         /\ \A u \in 1..(t - 1) : ticket[u].status # "none"
         /\ ticket' = [ticket EXCEPT ![t].status = "open"]
         /\ mine' = [mine EXCEPT ![p].t = t]
    /\ Goto(p, "make")
    /\ UNCHANGED <<words, discord, op, memory, mishaps>>

\* make_place.
Make(p) ==
    /\ pc[p] = "make"
    /\ room' = [room EXCEPT ![mine[p].t].is = "there"]
    /\ Goto(p, "place")
    /\ UNCHANGED <<store, logged, op, mine, memory, mishaps>>

MakeRefused(p) ==
    /\ pc[p] = "make" /\ Mishap
    /\ Goto(p, "abandon")
    /\ UNCHANGED <<store, discord, op, mine, memory>>

\* Mutation of Abandon: a status of its own, which no query knows.
AbandonNamed(p) ==
    /\ pc[p] = "abandon"
    /\ ticket' = [ticket EXCEPT ![mine[p].t].status = "abandoned"]
    /\ Finish(p) /\ Leave(p)
    /\ UNCHANGED <<words, discord, dirty, strikes, notices, mishaps>>

\* abandon_ticket.
Abandon(p) ==
    /\ pc[p] = "abandon"
    /\ ticket' = [ticket EXCEPT ![mine[p].t].status = "closed"]
    /\ Finish(p) /\ Leave(p)
    /\ UNCHANGED <<words, discord, dirty, strikes, notices, mishaps>>

\* set_ticket_place.
Place(p) ==
    /\ pc[p] = "place"
    /\ ticket' = [ticket EXCEPT ![mine[p].t].placed = TRUE]
    /\ Goto(p, "header")
    /\ UNCHANGED <<words, discord, op, mine, memory, mishaps>>

\* post_header; then the member's first words, or at the staff's door theirs.
Header(p) ==
    /\ pc[p] = "header"
    /\ Speaks(mine[p].t, NoCard)
    /\ Goto(p, "record")
    /\ UNCHANGED <<store, logged, op, mine, memory, mishaps>>

\* record_inbound: the row first, then the room, then the card.
Record(p) ==
    /\ pc[p] = "record"
    /\ words' = [words EXCEPT ![mine[p].t] = @ + 1]
    /\ Goto(p, "relay")
    /\ UNCHANGED <<ticket, discord, op, mine, memory, mishaps>>

Relay(p) ==
    /\ pc[p] = "relay"
    /\ Speaks(mine[p].t, NoCard)
    /\ Goto(p, "bump")
    /\ UNCHANGED <<store, logged, op, mine, memory, mishaps>>

RelayRefused(p) ==
    /\ pc[p] = "relay" /\ Mishap
    /\ Goto(p, "bump")
    /\ UNCHANGED <<store, discord, op, mine, memory>>

\* Mutation of Bumped: a card that is in flight is not asked for again.
BumpedOnce(p) ==
    /\ pc[p] = "bump"
    /\ pc' = [pc EXCEPT ![p] = "idle", ![mine[p].t] = IF @ = "idle" THEN "sleep" ELSE @]
    /\ op' = [op EXCEPT ![p] = "none"] /\ mine' = [mine EXCEPT ![p] = Nothing]
    /\ Leave(p)
    /\ UNCHANGED <<store, discord, dirty, strikes, notices, mishaps>>

\* bump_card: the row this task read was open; a timer starts, or the card is dirty.
Bumped(p) ==
    /\ pc[p] = "bump"
    /\ LET t == mine[p].t
       IN  /\ pc' = [pc EXCEPT ![p] = "idle", ![t] = IF @ = "idle" THEN "sleep" ELSE @]
           /\ dirty' = IF pc[t] = "idle" THEN dirty ELSE dirty \cup {t}
    /\ op' = [op EXCEPT ![p] = "none"] /\ mine' = [mine EXCEPT ![p] = Nothing]
    /\ Leave(p)
    /\ UNCHANGED <<store, discord, strikes, notices, mishaps>>

-------------------------------------------------------------------------------
(* Staff: send_reply and _staff_message take no lock; close_ticket does.       *)

\* A command or the website replies in a ticket whose row is open, or closes it.
Pick(p) ==
    /\ pc[p] = "idle" /\ p \in Tasks
    /\ \E o \in Operations \cap {"write", "close"}, t \in Open :
         /\ op' = [op EXCEPT ![p] = o]
         /\ mine' = [mine EXCEPT ![p].t = t]
         /\ Goto(p, IF o = "write" THEN "relay" ELSE "close")
    /\ UNCHANGED <<store, discord, memory, mishaps>>

\* _staff_message: a note typed in the ticket's room is there already; it is written
\* down and the card moves.  (A typed reply is echoed, and is a Pick as well; what is
\* typed and neither, is a Stay.)
Note(p) ==
    /\ pc[p] = "idle" /\ p \in Tasks /\ "write" \in Operations
    /\ \E t \in Open :
         /\ ticket[t].placed /\ Stands(t)
         /\ Speaks(t, NoCard)
         /\ mine' = [mine EXCEPT ![p].t = t]
    /\ op' = [op EXCEPT ![p] = "write"]
    /\ Goto(p, "bump")
    /\ UNCHANGED <<store, logged, memory, mishaps>>

\* on_guild_channel_delete, on_thread_delete: every open ticket of the room is closed.
Notice(p) ==
    /\ pc[p] = "idle" /\ p \in Tasks /\ "gone" \in Operations
    /\ \E t \in notices :
         /\ notices' = notices \ {t}
         /\ IF ticket[t].status = "open" /\ ticket[t].placed
            THEN /\ op' = [op EXCEPT ![p] = "close"]
                 /\ mine' = [mine EXCEPT ![p].t = t]
                 /\ Goto(p, "close")
            ELSE UNCHANGED taskVars
    /\ UNCHANGED <<store, discord, lock, dirty, strikes, mishaps>>

\* close_ticket: the row is read again under the lock.
LockClose(p) ==
    /\ pc[p] = "close" /\ lock = Nobody
    /\ LET row == ticket[mine[p].t]
       IN  IF row.status = "open"
           THEN /\ lock' = p
                /\ mine' = [mine EXCEPT ![p].card = row.card]
                /\ Goto(p, IF row.card = NoCard THEN "read" ELSE "drop")
                /\ UNCHANGED op
           ELSE UNCHANGED lock /\ Finish(p)
    /\ UNCHANGED <<store, discord, dirty, strikes, notices, mishaps>>

\* drop_card: the row forgets the card, then the card goes.
Drop(p) ==
    /\ pc[p] = "drop"
    /\ ticket' = [ticket EXCEPT ![mine[p].t].card = NoCard]
    /\ Goto(p, "dropOld")
    /\ UNCHANGED <<words, discord, op, mine, memory, mishaps>>

\* ticket_messages.
Read(p) ==
    /\ pc[p] = "read"
    /\ mine' = [mine EXCEPT ![p].words = words[mine[p].t]]
    /\ Goto(p, "mark")
    /\ UNCHANGED <<store, discord, op, memory, mishaps>>

\* mark_closed.
MarkClosed(p) ==
    /\ pc[p] = "mark"
    /\ ticket' = [ticket EXCEPT ![mine[p].t].status = "closed"]
    /\ Goto(p, "transcript")
    /\ UNCHANGED <<words, discord, op, mine, memory, mishaps>>

\* post_transcript, of the words read before.
Transcript(p) ==
    /\ pc[p] = "transcript"
    /\ logged' = [logged EXCEPT ![mine[p].t] = [times |-> @.times + 1,
                                                  words |-> mine[p].words]]
    /\ Goto(p, "remove")
    /\ UNCHANGED <<store, room, op, mine, memory, mishaps>>

\* No transcript: the room is kept.
TranscriptRefused(p) ==
    /\ pc[p] = "transcript" /\ Mishap
    /\ Finish(p) /\ Leave(p)
    /\ UNCHANGED <<store, discord, dirty, strikes, notices>>

\* remove_place: deleted, or archived and locked; a refusal is logged.
Remove(p) ==
    /\ pc[p] = "remove"
    /\ \/ /\ room' = [room EXCEPT ![mine[p].t] =
                         IF @.is = "there" THEN [NoRoom EXCEPT !.is = "removed"] ELSE @]
          /\ UNCHANGED mishaps
       \/ Stands(mine[p].t) /\ Mishap /\ UNCHANGED room
    /\ Finish(p) /\ Leave(p)
    /\ UNCHANGED <<store, logged, dirty, strikes, notices>>

-------------------------------------------------------------------------------
(* _card_later and refresh_card: the card moves below what was said.           *)

\* The end of a card's move: a dirty card goes round again.
Moved(q) ==
    IF q \in dirty
    THEN /\ Goto(q, "sleep") /\ UNCHANGED op
         /\ mine' = [mine EXCEPT ![q] = Nothing]
    ELSE Finish(q)

Wake(t) ==
    /\ t \in Tickets /\ pc[t] = "sleep"
    /\ dirty' = dirty \ {t}
    /\ mine' = [mine EXCEPT ![t].t = t]
    /\ Goto(t, "look")
    /\ UNCHANGED <<store, discord, op, lock, strikes, notices, mishaps>>

\* refresh_card reads the row to know whose lock to take.
Look(q) ==
    /\ pc[q] = "look"
    /\ IF ticket[mine[q].t].status = "open"
       THEN Goto(q, "card") /\ UNCHANGED <<op, mine>>
       ELSE Moved(q)
    /\ UNCHANGED <<store, discord, memory, mishaps>>

\* Mutation of LockCard: post_card trusts the row that was read before the lock.
LockCardUnread(q) ==
    /\ pc[q] = "card" /\ lock = Nobody
    /\ lock' = q
    /\ mine' = [mine EXCEPT ![q].card = ticket[mine[q].t].card]
    /\ Goto(q, "send")
    /\ UNCHANGED <<store, discord, op, dirty, strikes, notices, mishaps>>

\* post_card reads it again under the lock.
LockCard(q) ==
    /\ pc[q] = "card" /\ lock = Nobody
    /\ IF ticket[mine[q].t].status = "open"
       THEN /\ lock' = q
            /\ mine' = [mine EXCEPT ![q].card = ticket[mine[q].t].card]
            /\ Goto(q, "send") /\ UNCHANGED op
       ELSE UNCHANGED lock /\ Moved(q)
    /\ UNCHANGED <<store, discord, dirty, strikes, notices, mishaps>>

Fresh(c) == /\ \A t \in Tickets : c \notin room[t].cards /\ c # ticket[t].card
            /\ \A p \in Procs : c \notin {mine[p].card, mine[p].new}

Send(q) ==
    /\ pc[q] = "send"
    /\ IF ticket[mine[q].t].placed /\ Stands(mine[q].t)
       THEN \E new \in CardIds :
              /\ Fresh(new) /\ \A c \in 1..(new - 1) : ~Fresh(c)
              /\ Speaks(mine[q].t, new)
              /\ mine' = [mine EXCEPT ![q].new = new]
              /\ Goto(q, "setCard") /\ UNCHANGED <<op, lock>>
       ELSE Moved(q) /\ Leave(q) /\ UNCHANGED room
    /\ UNCHANGED <<store, logged, dirty, strikes, notices, mishaps>>

SendRefused(q) ==
    /\ pc[q] = "send" /\ Mishap
    /\ Moved(q) /\ Leave(q)
    /\ UNCHANGED <<store, discord, dirty, strikes, notices>>

\* set_card_message, and only then the one it replaced goes.
SetCard(q) ==
    /\ pc[q] = "setCard"
    /\ ticket' = [ticket EXCEPT ![mine[q].t].card = mine[q].new]
    /\ IF mine[q].card = NoCard THEN Moved(q) /\ Leave(q)
                                ELSE Goto(q, "dropOld") /\ UNCHANGED <<op, mine, lock>>
    /\ UNCHANGED <<words, discord, dirty, strikes, notices, mishaps>>

\* drop_old_card, for a card that moved and for a ticket that closes.
AfterDrop(q) == IF op[q] = "close"
                THEN Goto(q, "read") /\ UNCHANGED <<op, mine, lock>>
                ELSE Moved(q) /\ Leave(q)

DropOld(q) ==
    /\ pc[q] = "dropOld"
    /\ Gone(mine[q].t, mine[q].card)
    /\ AfterDrop(q)
    /\ UNCHANGED <<store, logged, dirty, strikes, notices, mishaps>>

DropRefused(q) ==
    /\ pc[q] = "dropOld" /\ Mishap
    /\ AfterDrop(q)
    /\ UNCHANGED <<store, discord, dirty, strikes, notices>>

-------------------------------------------------------------------------------
(* _sweep: the rows are read once; _recheck closes an open ticket whose room    *)
(* is gone or never was, and puts a card back that is gone.                     *)

BeginSweep ==
    /\ pc[Sweep] = "idle"
    /\ \E t \in Open :
         /\ ticket[t].placed \/ ticket[t].aged
         /\ mine' = [mine EXCEPT ![Sweep].t = t, ![Sweep].card = ticket[t].card]
         /\ op' = [op EXCEPT ![Sweep] = IF ticket[t].placed THEN "sweep" ELSE "close"]
         /\ Goto(Sweep, IF ticket[t].placed THEN "resolve" ELSE "close")
    /\ UNCHANGED <<store, discord, memory, mishaps>>

\* Mutation of Resolve: a card the row names is taken to be there.
ResolveTrusts ==
    /\ pc[Sweep] = "resolve" /\ Stands(mine[Sweep].t)
    /\ strikes' = [strikes EXCEPT ![mine[Sweep].t] = 0]
    /\ IF mine[Sweep].card # NoCard
       THEN Finish(Sweep)
       ELSE Goto(Sweep, "look") /\ UNCHANGED <<op, mine>>
    /\ UNCHANGED <<store, discord, lock, dirty, notices, mishaps>>

\* The room is there: is its card?
Resolve ==
    /\ pc[Sweep] = "resolve" /\ Stands(mine[Sweep].t)
    /\ strikes' = [strikes EXCEPT ![mine[Sweep].t] = 0]
    /\ IF mine[Sweep].card \in room[mine[Sweep].t].cards
       THEN Finish(Sweep)
       ELSE Goto(Sweep, "look") /\ UNCHANGED <<op, mine>>
    /\ UNCHANGED <<store, discord, lock, dirty, notices, mishaps>>

\* Mutation of Strike: every pass counts from the beginning.
StrikeOne ==
    /\ pc[Sweep] = "resolve" /\ ~Stands(mine[Sweep].t)
    /\ strikes' = [strikes EXCEPT ![mine[Sweep].t] = 1]
    /\ Finish(Sweep)
    /\ UNCHANGED <<store, discord, lock, dirty, notices, mishaps>>

\* A room gone twice in a row closes its ticket.
Strike ==
    /\ pc[Sweep] = "resolve" /\ ~Stands(mine[Sweep].t)
    /\ LET seen == strikes[mine[Sweep].t] + 1
       IN  IF seen < Strikes
           THEN /\ strikes' = [strikes EXCEPT ![mine[Sweep].t] = seen]
                /\ Finish(Sweep)
           ELSE /\ strikes' = [strikes EXCEPT ![mine[Sweep].t] = 0]
                /\ op' = [op EXCEPT ![Sweep] = "close"]
                /\ Goto(Sweep, "close") /\ UNCHANGED mine
    /\ UNCHANGED <<store, discord, lock, dirty, notices, mishaps>>

\* Discord does not say.
Unknown ==
    /\ pc[Sweep] = "resolve" /\ Mishap
    /\ strikes' = [strikes EXCEPT ![mine[Sweep].t] = 0]
    /\ Finish(Sweep)
    /\ UNCHANGED <<store, discord, lock, dirty, notices>>

-------------------------------------------------------------------------------
(* People, the clock and the machine.                                          *)

DeleteRoom(t) ==
    /\ Stands(t) /\ "gone" \in Operations
    /\ room' = [room EXCEPT ![t] = [NoRoom EXCEPT !.is = "gone"]]
    /\ notices' = notices \cup {t}
    /\ UNCHANGED <<store, logged, taskVars, lock, dirty, strikes, mishaps>>

DeleteCard(t) ==
    /\ \E c \in room[t].cards : Gone(t, c)
    /\ Mishap
    /\ UNCHANGED <<store, logged, taskVars, memory>>

\* _staff_message returns, and the card stays where it is: a command's prefix, a mention
\* of the bot, somebody who is not staff, or a server where what is typed in a ticket
\* stays in the ticket.  Below what the ticket keeps it makes no difference.
Stay(t) ==
    /\ Stands(t) /\ "write" \in Operations
    /\ room[t].last \in CardIds
    /\ room' = [room EXCEPT ![t].last = Stray]
    /\ UNCHANGED <<store, logged, taskVars, memory, mishaps>>

\* The five minutes of ORPHAN_GRACE_MINUTES go by.
Age(t) ==
    /\ ticket[t].status = "open" /\ ~ticket[t].placed /\ ~ticket[t].aged
    /\ ticket' = [ticket EXCEPT ![t].aged = TRUE]
    /\ UNCHANGED <<words, discord, taskVars, memory, mishaps>>

Crash ==
    /\ Mishap
    /\ pc' = [p \in Procs |-> "idle"] /\ op' = [p \in Procs |-> "none"]
    /\ mine' = [p \in Procs |-> Nothing]
    /\ lock' = Nobody /\ dirty' = {} /\ notices' = {}
    /\ strikes' = [t \in Tickets |-> 0]
    /\ UNCHANGED <<store, discord>>

Init == /\ ticket = [t \in Tickets |-> NoRow]
        /\ words = [t \in Tickets |-> 0]
        /\ room = [t \in Tickets |-> NoRoom]
        /\ logged = [t \in Tickets |-> [times |-> 0, words |-> 0]]
        /\ pc = [p \in Procs |-> "idle"] /\ op = [p \in Procs |-> "none"]
        /\ mine = [p \in Procs |-> Nothing]
        /\ lock = Nobody /\ dirty = {} /\ notices = {}
        /\ strikes = [t \in Tickets |-> 0]
        /\ mishaps = 0

Start(p) == Ask(p) \/ Pick(p) \/ Note(p)

Enter(p) == LockAsk(p) \/ LockClose(p) \/ LockCard(p)

Refusal(p) == \/ MakeRefused(p) \/ RelayRefused(p) \/ TranscriptRefused(p)
              \/ SendRefused(p) \/ DropRefused(p)

Proceed(p) == \/ Create(p) \/ Make(p) \/ Abandon(p) \/ Place(p) \/ Header(p)
              \/ Record(p) \/ Relay(p) \/ Bumped(p)
              \/ Drop(p) \/ Read(p) \/ MarkClosed(p) \/ Transcript(p) \/ Remove(p)
              \/ Wake(p) \/ Look(p) \/ Send(p) \/ SetCard(p) \/ DropOld(p)

Recheck == Resolve \/ Strike

Next == \/ \E p \in Procs : Start(p) \/ Notice(p) \/ Enter(p) \/ Proceed(p) \/ Refusal(p)
        \/ BeginSweep \/ Recheck \/ Unknown
        \/ \E t \in Tickets : DeleteRoom(t) \/ DeleteCard(t) \/ Stay(t) \/ Age(t)
        \/ Crash

Spec == Init /\ [][Next]_vars

\* asyncio runs what can run, a lock is first come first served (nothing asked of the
\* tickets needs that of any other task than the sweep), the loop goes on for ever and
\* time passes.
FairSpec == /\ Spec
            /\ \A p \in Procs \ {Sweep} : WF_vars(Proceed(p))
            /\ WF_vars(BeginSweep \/ Recheck \/ Proceed(Sweep)) /\ SF_vars(Enter(Sweep))
            /\ \A t \in Tickets : WF_vars(Age(t))

-------------------------------------------------------------------------------
Labels == {"idle", "ask", "create", "make", "abandon", "place", "header", "record",
           "relay", "bump", "close", "drop", "dropOld", "read", "mark",
           "transcript", "remove", "sleep", "look", "card", "send", "setCard", "resolve"}

\* Every variable has its type.
TypeOK == /\ ticket \in [Tickets -> [status : {"none", "open", "closed"},
                                      placed : BOOLEAN, aged : BOOLEAN,
                                      card : CardIds \cup {NoCard}]]
          /\ words \in [Tickets -> Nat]
          /\ room \in [Tickets -> [is : {"none", "there", "gone", "removed"},
                                    cards : SUBSET CardIds,
                                    last : CardIds \cup {NoCard, Stray}]]
          /\ logged \in [Tickets -> [times : Nat, words : Nat]]
          /\ pc \in [Procs -> Labels]
          /\ op \in [Procs -> AllOperations \cup {"none", "sweep"}]
          /\ mine \in [Procs -> [t : 0..MaxTickets, card : CardIds \cup {NoCard},
                                  new : CardIds \cup {NoCard}, words : Nat]]
          /\ lock \in Procs \cup {Nobody}
          /\ dirty \subseteq Tickets /\ notices \subseteq Tickets
          /\ strikes \in [Tickets -> 0..(Strikes - 1)]
          /\ mishaps \in 0..MaxMishaps

\* "One open ticket per member, made the same way whichever door asked for it": the
\* member's lock alone sees to it, and the unique index of the table is never hit.
OneOpenTicket == \A t, u \in Open : t = u

\* However staff, the sweep and a deleted room's listener race, a ticket is closed once:
\* it has one transcript, with whatever the member said in it, a word said while the
\* ticket was being closed too; and the program takes a room away only after that.
EveryWordIsKept ==
    \A t \in Tickets :
        logged[t].times > 0 \/ room[t].is = "removed"
            => logged[t] = [times |-> 1, words |-> words[t]]

\* "Closing a ticket takes its card with it": no move that was on its way when the
\* ticket was closed puts a card into a closed ticket.
ClosedHasNoCard ==
    \A t \in Tickets : ticket[t].status = "closed" => ticket[t].card = NoCard

Quiet(t) == \A p \in Procs : mine[p].t # t /\ ~(p = t /\ pc[p] # "idle")

\* "Exactly one card, always last": once nobody writes in an open ticket and no move
\* is due, its card is the only one and below every message the ticket keeps (the
\* member's words, replies and notes), whichever writes, moves and sweeps overlapped;
\* as long as nothing was refused, deleted or restarted.  A message it does not keep may
\* stand below it: the code moves no card for those.
OneCardAndLast ==
    \A t \in Tickets :
        /\ mishaps = 0 /\ ticket[t].status = "open" /\ ticket[t].placed
        /\ Stands(t) /\ Quiet(t)
        => room[t].cards = {ticket[t].card} /\ room[t].last \in {ticket[t].card, Stray}

\* An open ticket whose room is gone, or that never got one, is closed in the end,
\* though the listener, a restart or a lookup lose the news.
LostRoomCloses ==
    \A t \in Tickets :
        (ticket[t].status = "open" /\ ~Stands(t)) ~> (ticket[t].status = "closed" \/ Stands(t))

\* A card that was deleted by hand comes back while the ticket and its room are there.
CardComesBack ==
    \A t \in Tickets :
        (ticket[t].status = "open" /\ ticket[t].placed)
            ~> (ticket[t].card \in room[t].cards \/ ticket[t].status = "closed" \/ ~Stands(t))
================================================================================
