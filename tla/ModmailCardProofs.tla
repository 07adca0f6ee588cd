--------------------------- MODULE ModmailCardProofs ---------------------------
(* The card of an open ticket: as long as nothing went wrong there is one,     *)
(* it is the one the ticket's row names, and it ends up last in its room.      *)
EXTENDS ModmailProofs

-------------------------------------------------------------------------------
(* The card of an open ticket.                                                 *)

\* Does the ticket show a card, and which one does its row name?
Shown(t) == ticket[t].status = "open" /\ Stands(t)
Named(t)  == IF ticket[t].card = NoCard THEN {} ELSE {ticket[t].card}

\* Where the timer of a card may be.
Timer(t) == /\ pc[t] \in {"idle", "sleep", "look", "card", "send", "setCard", "dropOld"}
            /\ pc[t] \notin {"idle", "sleep"} => mine[t].t = t
            /\ t \in dirty => pc[t] # "idle"
Timers == \A t \in Tickets : Timer(t)

\* A ticket that was never opened has no room.
Unopened == \A t \in Tickets :
                ticket[t].status = "none" => room[t].is = "none" /\ room[t].cards = {}

\* What a task that puts up or takes down a card of the ticket has in hand.
Holding(p, t) ==
    /\ pc[p] = "make" => room[t].cards = {}
    /\ pc[p] \in {"send", "drop"} => mine[p].card = ticket[t].card
    /\ pc[p] = "drop" => mine[p].card # NoCard
    /\ pc[p] = "setCard" =>
         /\ mine[p].card = ticket[t].card
         /\ mine[p].new \in CardIds /\ mine[p].new # mine[p].card
         /\ Shown(t) => /\ room[t].cards = Named(t) \cup {mine[p].new}
                        /\ room[t].last \in {NoCard, mine[p].new, Stray}
    /\ pc[p] = "dropOld" /\ op[p] # "close" =>
         /\ mine[p].card # ticket[t].card /\ ticket[t].card # NoCard
         /\ Shown(t) => room[t].cards = {mine[p].card, ticket[t].card}
    /\ pc[p] = "dropOld" /\ op[p] = "close" =>
         (Shown(t) => room[t].cards = {mine[p].card})
Hand(p) == \A t \in Tickets : mine[p].t = t => Holding(p, t)

\* When nobody has a card of the ticket in hand there is the one its row names.
Plain(t) ==
    (\A p \in Procs : mine[p].t = t => pc[p] \notin {"setCard", "dropOld"})
        => (Shown(t) => room[t].cards = Named(t))

\* Is the task still to move the ticket's card, to have it moved or to close the ticket?
Brings(p, t) ==
    \/ mine[p].t = t /\ pc[p] \in {"place", "header", "record", "relay", "bump"}
    \/ mine[p].t = t /\ op[p] = "close" /\ pc[p] \in {"drop", "dropOld", "read", "mark"}
    \/ p = t /\ (t \in dirty \/ pc[t] \in {"sleep", "look", "card", "send"})
Sent(p, t) == mine[p].t = t /\ pc[p] = "setCard" /\ room[t].last \in {mine[p].new, Stray}
Bottom(t) ==
    Shown(t) /\ ticket[t].placed =>
        \/ \E p \in Procs : Brings(p, t) \/ Sent(p, t)
        \/ room[t].last \in {ticket[t].card, Stray} /\ ticket[t].card # NoCard

Carried == /\ \A p \in Procs : Hand(p)
           /\ \A t \in Tickets : Plain(t) /\ Bottom(t)
CardSafe == Timers /\ Unopened /\ (mishaps = 0 => Carried)

\* A step beside the cards: it takes none but with its room, and at most says something.
Beside == \A t \in Tickets :
            /\ ticket'[t].card = ticket[t].card
            /\ \/ room'[t].cards = room[t].cards /\ room'[t].last \in {room[t].last, NoCard, Stray}
               \/ room'[t].cards = {} /\ ~Stands(t)'
            /\ Stands(t)' => Stands(t)
            /\ Shown(t)' => Shown(t)
            /\ ticket'[t].status = "none" =>
                 ticket[t].status = "none" /\ room'[t].is = room[t].is

\* Who said something, or was to move the card, is to move it now.
Onward(p, t) ==
    /\ Shown(t)' /\ ticket'[t].placed
    /\ \/ p \in Procs /\ Brings(p, t)
       \/ room'[t].last \notin {room[t].last, Stray}
       \/ ~ticket[t].placed
    => p \in Procs /\ Brings(p, t)'

\* The timers that did not take the step are where they were.
LEMMA TimersStay ==
    ASSUME Timers, NEW p, \A q \in Procs : q # p => Kept(q),
           dirty' = dirty \/ dirty' = dirty \ {p},
           p \in Tickets => Timer(p)'
    PROVE  Timers'
<1>1. \A t \in Tickets : t # p => Timer(t)'
  BY Names DEF Timers, Timer, Kept
<1> QED
  BY <1>1 DEF Timers

\* Such a step leaves every card in its place.
LEMMA Aside ==
    ASSUME TypeOK, Paths, CardSafe, NEW p,
           \A q \in Procs : q # p => Kept(q),
           dirty' = dirty \/ dirty' = dirty \ {p},
           mishaps' = mishaps,
           p \in Tickets => Timer(p)',
           p \in Procs => pc[p] \notin {"setCard", "dropOld"} /\ Hand(p)',
           Beside, \A t \in Tickets : Onward(p, t)
    PROVE  CardSafe'
<1>1. Timers'
  BY TimersStay DEF CardSafe
<1>2. Unopened'
  BY DEF CardSafe, Unopened, Beside, Stands
<1>3. ASSUME mishaps = 0 PROVE Carried'
  <2>1. /\ \A q \in Procs : Hand(q)
        /\ \A t \in Tickets : Plain(t) /\ Bottom(t)
    BY <1>3 DEF CardSafe, Carried
  <2>2. ASSUME NEW q \in Procs, q # p PROVE Hand(q)'
    <3>1. Kept(q) /\ Hand(q)
      BY <2>1, <2>2
    <3>2. ASSUME NEW t \in Tickets, mine[q].t = t PROVE Holding(q, t)'
      <4>1. Holding(q, t)
        BY <3>1, <3>2 DEF Hand
      <4>2. /\ ticket'[t].card = ticket[t].card
            /\ \/ room'[t].cards = room[t].cards /\ room'[t].last \in {room[t].last, NoCard, Stray}
               \/ room'[t].cards = {} /\ ~Shown(t)'
            /\ Shown(t)' => Shown(t)
        BY DEF Beside, Shown
      <4>3. Named(t)' = Named(t)
        BY <4>2 DEF Named
      <4> QED
        BY <3>1, <4>1, <4>2, <4>3 DEF Holding, Kept
    <3> QED
      BY <3>1, <3>2 DEF Hand, Kept
  <2>3. ASSUME NEW t \in Tickets PROVE Plain(t)'
    <3> SUFFICES ASSUME \A q \in Procs : mine'[q].t = t => pc'[q] \notin {"setCard", "dropOld"},
                        Shown(t)'
                 PROVE  room'[t].cards = Named(t)'
      BY DEF Plain
    <3>1. Shown(t) /\ room'[t].cards = room[t].cards /\ ticket'[t].card = ticket[t].card
      BY DEF Beside, Shown
    <3>2. \A q \in Procs : mine[q].t = t => pc[q] \notin {"setCard", "dropOld"}
      BY DEF Kept
    <3> QED
      BY <2>1, <3>1, <3>2 DEF Plain, Named
  <2>4. ASSUME NEW t \in Tickets PROVE Bottom(t)'
    <3> SUFFICES ASSUME Shown(t)', ticket'[t].placed
                 PROVE  \/ \E q \in Procs : Brings(q, t)' \/ Sent(q, t)'
                        \/ room'[t].last \in {ticket'[t].card, Stray} /\ ticket'[t].card # NoCard
      BY DEF Bottom
    <3>1. Shown(t) /\ ticket'[t].card = ticket[t].card
      BY DEF Beside
    <3>2. CASE \/ p \in Procs /\ Brings(p, t)
               \/ room'[t].last \notin {room[t].last, Stray}
               \/ ~ticket[t].placed
      BY <3>2 DEF Onward
    <3>3. CASE /\ ~(p \in Procs /\ Brings(p, t))
               /\ room'[t].last \in {room[t].last, Stray}
               /\ ticket[t].placed
      <4>1. \/ \E q \in Procs : Brings(q, t) \/ Sent(q, t)
            \/ room[t].last \in {ticket[t].card, Stray} /\ ticket[t].card # NoCard
        BY <2>1, <3>1, <3>3 DEF Bottom
      <4>2. ASSUME NEW q \in Procs, Brings(q, t) PROVE Brings(q, t)'
        <5>1. q # p /\ Kept(q)
          BY <3>3, <4>2
        <5> QED
          BY <4>2, <5>1 DEF Brings, Kept
      <4>3. ASSUME NEW q \in Procs, Sent(q, t) PROVE Sent(q, t)'
        <5>1. q # p /\ Kept(q)
          BY <4>3 DEF Sent
        <5> QED
          BY <4>3, <5>1, <3>3 DEF Sent, Kept
      <4> QED
        BY <4>1, <4>2, <4>3, <3>1, <3>3
    <3> QED
      BY <3>2, <3>3
  <2> QED
    BY <2>2, <2>3, <2>4 DEF Carried
<1> QED
  BY <1>1, <1>2, <1>3 DEF CardSafe

\* After a mishap only the timers have to be told of.
LEMMA Astray ==
    ASSUME CardSafe, Mishap, Timers', mishaps \in Nat,
           \A t \in Tickets : ticket'[t].status = "none" =>
               /\ ticket[t].status = "none"
               /\ room'[t].is = room[t].is
               /\ room[t].cards = {} => room'[t].cards = {}
    PROVE  CardSafe'
<1>1. Unopened'
  BY DEF CardSafe, Unopened
<1>2. mishaps' # 0
  BY DEF Mishap
<1> QED
  BY <1>1, <1>2 DEF CardSafe

\* While one task has the lock no other has a card in hand.
LEMMA Alone ==
    ASSUME Locked, NEW p \in Procs, Holds(p), \A q \in Procs : q # p => Kept(q)
    PROVE  \A q \in Procs : q # p => /\ pc[q] \notin {"make", "send", "drop", "setCard"}
                                     /\ pc[q] # "dropOld"
                                     /\ pc'[q] = pc[q] /\ mine'[q] = mine[q] /\ op'[q] = op[q]
                                     /\ Hand(q)'
<1>1. \A q \in Procs : q # p => ~Holds(q)
  BY Names DEF Locked
<1>2. \A q \in Procs : q # p => /\ pc[q] \notin {"make", "send", "drop", "setCard"}
                                /\ pc[q] # "dropOld"
  BY <1>1 DEF Holds, Writing
<1> QED
  BY <1>2 DEF Kept, Hand, Holding

\* The other tickets see nothing of it.
LEMMA Elsewhere ==
    ASSUME Timers, NEW p \in Procs, p \in Tickets => mine[p].t = p,
           \A q \in Procs : q # p => Kept(q), dirty' = dirty,
           NEW u \in Tickets, mine[p].t # u, mine'[p].t # u,
           room'[u] = room[u], ticket'[u] = ticket[u], Plain(u), Bottom(u)
    PROVE  Plain(u)' /\ Bottom(u)'
<1>1. Shown(u)' <=> Shown(u)
  BY DEF Shown, Stands
<1>2. Plain(u)'
  <2> SUFFICES ASSUME \A q \in Procs : mine'[q].t = u => pc'[q] \notin {"setCard", "dropOld"},
                      Shown(u)'
               PROVE  room'[u].cards = Named(u)'
    BY DEF Plain
  <2>1. \A q \in Procs : mine[q].t = u => pc[q] \notin {"setCard", "dropOld"}
    BY DEF Kept
  <2> QED
    BY <1>1, <2>1 DEF Plain, Named
<1>3. ASSUME NEW q \in Procs, Brings(q, u) PROVE Brings(q, u)'
  <2>1. q # p
    BY <1>3 DEF Brings
  <2> QED
    BY <1>3, <2>1 DEF Brings, Kept
<1>4. ASSUME NEW q \in Procs, Sent(q, u) PROVE Sent(q, u)'
  <2>1. q # p
    BY <1>4 DEF Sent
  <2> QED
    BY <1>4, <2>1 DEF Sent, Kept
<1>5. Bottom(u)'
  BY <1>1, <1>3, <1>4 DEF Bottom
<1> QED
  BY <1>2, <1>5

\* A room that is made has no card yet, and the first words are to come.
LEMMA MakeKeeps ==
    ASSUME TypeOK, Paths, Locked, Knowledge, CardSafe, NEW p \in Procs, Make(p)
    PROVE  CardSafe'
<1>0. WorldTyped /\ TasksTyped /\ PlaceTyped /\ Timers /\ Unopened
  BY TypeOKParts DEF TasksTyped, CardSafe
<1>1. PICK t \in Tickets : t = mine[p].t
  BY DEF Make, Paths, Way
<1>2. ticket[t].status = "open" /\ ticket[t].card = NoCard
  BY <1>1 DEF Make, Knowledge, Knows
<1>3. /\ pc[p] = "make" /\ pc' = [pc EXCEPT ![p] = "place"] /\ p \notin Tickets
      /\ UNCHANGED <<ticket, op, mine, dirty, mishaps>>
  BY <1>0 DEF Make, Goto, Timers, Timer, store, memory
<1>4. \A q \in Procs : q # p => Kept(q)
  BY <1>0, <1>3 DEF Kept, PlaceTyped
<1>5. /\ \A u \in Tickets : u # t => room'[u] = room[u]
      /\ room'[t].cards = room[t].cards
  BY <1>0, <1>1 DEF Make, WorldTyped, RoomRows
<1>6. Timers'
  BY <1>0, <1>3, <1>4, TimersStay
<1>7. Unopened'
  BY <1>0, <1>2, <1>3, <1>5 DEF Unopened
<1>8. ASSUME mishaps = 0 PROVE Carried'
  <2>1. /\ \A q \in Procs : Hand(q)
        /\ \A u \in Tickets : Plain(u) /\ Bottom(u)
    BY <1>8 DEF CardSafe, Carried
  <2>2. pc'[p] = "place" /\ mine'[p].t = t
    BY <1>0, <1>1, <1>3 DEF PlaceTyped
  <2>3. Hand(p)'
    BY <2>2 DEF Hand, Holding
  <2>4. \A q \in Procs : q # p => Hand(q)'
    BY <1>3, <1>4, Alone DEF Holds, Writing
  <2>5. ASSUME NEW u \in Tickets, u # t PROVE Plain(u)' /\ Bottom(u)'
    BY <1>0, <1>1, <1>3, <1>4, <1>5, <2>1, <2>2, <2>5, Elsewhere
  <2>6. Plain(t)'
    <3>1. room[t].cards = {}
      BY <1>1, <1>3, <2>1 DEF Hand, Holding
    <3> QED
      BY <1>2, <1>3, <1>5, <3>1 DEF Plain, Named
  <2>7. Bottom(t)'
    BY <2>2 DEF Bottom, Brings
  <2> QED
    BY <2>3, <2>4, <2>5, <2>6, <2>7 DEF Carried
<1> QED
  BY <1>6, <1>7, <1>3, <1>8 DEF CardSafe

\* The card of a ticket that is being closed goes: first from the row.
LEMMA DropKeeps ==
    ASSUME TypeOK, Paths, Locked, Knowledge, CardSafe, NEW p \in Procs, Drop(p)
    PROVE  CardSafe'
<1>0. WorldTyped /\ TasksTyped /\ PlaceTyped /\ Timers /\ Unopened
  BY TypeOKParts DEF TasksTyped, CardSafe
<1>1. PICK t \in Tickets : t = mine[p].t
  BY DEF Drop, Paths, Way
<1>2. ticket[t].status = "open"
  BY <1>1 DEF Drop, Knowledge, Knows
<1>3. /\ pc[p] = "drop" /\ pc' = [pc EXCEPT ![p] = "dropOld"] /\ p \notin Tickets
      /\ op[p] = "close" /\ UNCHANGED <<room, op, mine, dirty, mishaps>>
  BY <1>0 DEF Drop, Goto, Timers, Timer, Paths, Way, discord, memory
<1>4. \A q \in Procs : q # p => Kept(q)
  BY <1>0, <1>3 DEF Kept, PlaceTyped
<1>5. /\ \A u \in Tickets : u # t => ticket'[u] = ticket[u]
      /\ ticket'[t].card = NoCard /\ ticket'[t].status = "open"
  BY <1>0, <1>1, <1>2 DEF Drop, WorldTyped, TicketRows
<1>6. Timers'
  BY <1>0, <1>3, <1>4, TimersStay
<1>7. Unopened'
  BY <1>0, <1>3, <1>5 DEF Unopened
<1>8. ASSUME mishaps = 0 PROVE Carried'
  <2>1. /\ \A q \in Procs : Hand(q)
        /\ \A u \in Tickets : Plain(u) /\ Bottom(u)
    BY <1>8 DEF CardSafe, Carried
  <2>2. /\ pc'[p] = "dropOld" /\ mine'[p].t = t /\ op'[p] = "close"
        /\ mine'[p].card = mine[p].card
    BY <1>0, <1>1, <1>3 DEF PlaceTyped
  <2>3. \A q \in Procs : q # p => pc[q] \notin {"setCard", "dropOld"} /\ Hand(q)'
    BY <1>3, <1>4, Alone DEF Holds, Writing
  <2>4. Shown(t)' => Shown(t)
    BY <1>2, <1>3 DEF Shown, Stands
  <2>5. Hand(p)'
    <3>1. mine[p].card = ticket[t].card /\ mine[p].card # NoCard
      BY <1>1, <1>3, <2>1 DEF Hand, Holding
    <3>2. Shown(t) => room[t].cards = Named(t)
      BY <1>3, <2>1, <2>3 DEF Plain
    <3>3. Shown(t)' => room'[t].cards = {mine'[p].card}
      BY <1>3, <2>2, <2>4, <3>1, <3>2 DEF Named
    <3>4. Holding(p, t)'
      BY <2>2, <3>3 DEF Holding
    <3> QED
      BY <2>2, <3>4 DEF Hand
  <2>6. ASSUME NEW u \in Tickets, u # t PROVE Plain(u)' /\ Bottom(u)'
    BY <1>0, <1>1, <1>3, <1>4, <1>5, <2>1, <2>2, <2>6, Elsewhere
  <2>7. Plain(t)' /\ Bottom(t)'
    BY <2>2 DEF Plain, Bottom, Brings
  <2> QED
    BY <2>3, <2>5, <2>6, <2>7 DEF Carried
<1> QED
  BY <1>6, <1>7, <1>3, <1>8 DEF CardSafe

\* A move that is over leaves its task idle, or asleep if the card was asked for again.
LEMMA MovedOn ==
    ASSUME TypeOK, Timers, NEW p \in Procs, Moved(p)
    PROVE  /\ \A q \in Procs : q # p => Kept(q)
           /\ pc'[p] = IF p \in dirty THEN "sleep" ELSE "idle"
           /\ mine'[p].t = 0 /\ (p \in Tickets /\ dirty' = dirty => Timer(p)')
<1>0. TasksTyped /\ PlaceTyped
  BY TypeOKParts DEF TasksTyped
<1>1. \A q \in Procs : q # p => Kept(q)
  BY <1>0 DEF Moved, Finish, Goto, Kept, PlaceTyped
<1>2. pc'[p] = IF p \in dirty THEN "sleep" ELSE "idle"
  BY <1>0 DEF Moved, Finish, Goto, PlaceTyped
<1>3. mine'[p].t = 0
  BY <1>0 DEF Moved, Finish, PlaceTyped, Nothing
<1> QED
  BY <1>1, <1>2, <1>3 DEF Timer

\* A card that is sent is below what was said, and next to the one the row names.
LEMMA SendKeeps ==
    ASSUME TypeOK, Paths, Locked, Knowledge, CardSafe, NEW p \in Procs, Send(p),
           ticket[mine[p].t].placed /\ Stands(mine[p].t)
    PROVE  CardSafe'
<1>0. WorldTyped /\ TasksTyped /\ PlaceTyped /\ Timers /\ Unopened
  BY TypeOKParts DEF TasksTyped, CardSafe
<1>1. PICK t \in Tickets : t = mine[p].t
  BY DEF Send, Paths, Way
<1>2. ticket[t].status = "open"
  BY <1>1 DEF Send, Knowledge, Knows
<1>3. PICK new \in CardIds : /\ Fresh(new) /\ Speaks(t, new)
                             /\ mine' = [mine EXCEPT ![p].new = new]
                             /\ pc' = [pc EXCEPT ![p] = "setCard"]
  BY <1>1 DEF Send, Goto
<1>4. pc[p] = "send" /\ UNCHANGED <<ticket, op, dirty, mishaps>>
  BY <1>1 DEF Send, store
<1>5. \A q \in Procs : q # p => Kept(q)
  BY <1>0, <1>3, <1>4 DEF Kept, PlaceTyped
<1>6. /\ \A u \in Tickets : u # t => room'[u] = room[u]
      /\ room'[t].cards = room[t].cards \cup {new} /\ room'[t].last = new
      /\ room'[t].is = room[t].is
  BY <1>0, <1>1, <1>3, Names DEF Speaks, WorldTyped, RoomRows
<1>7. /\ pc'[p] = "setCard" /\ mine'[p].t = t /\ mine'[p].new = new
      /\ mine'[p].card = mine[p].card
  BY <1>0, <1>1, <1>3 DEF PlaceTyped, Minds
<1>7a. p \in Tickets => mine[p].t = p
  BY <1>0, <1>4 DEF Timers, Timer
<1>8. Timers'
  <2>1. p \in Tickets => Timer(p)'
    BY <1>1, <1>7, <1>7a DEF Timer
  <2> QED
    BY <1>0, <1>4, <1>5, <2>1, TimersStay
<1>9. Unopened'
  BY <1>0, <1>2, <1>4, <1>6 DEF Unopened
<1>10. ASSUME mishaps = 0 PROVE Carried'
  <2>1. /\ \A q \in Procs : Hand(q)
        /\ \A u \in Tickets : Plain(u) /\ Bottom(u)
    BY <1>10 DEF CardSafe, Carried
  <2>2. \A q \in Procs : q # p => pc[q] \notin {"setCard", "dropOld"} /\ Hand(q)'
    BY <1>4, <1>5, Alone DEF Holds, Writing
  <2>3. Hand(p)'
    <3>1. mine[p].card = ticket[t].card
      BY <1>1, <1>4, <2>1 DEF Hand, Holding
    <3>2. Shown(t) => room[t].cards = Named(t)
      BY <1>4, <2>1, <2>2 DEF Plain
    <3>3. Shown(t)' => Shown(t) /\ room'[t].cards = Named(t)' \cup {new}
      BY <1>2, <1>4, <1>6, <3>2 DEF Shown, Stands, Named
    <3>4. new # mine[p].card
      BY <1>3 DEF Fresh
    <3>5. Holding(p, t)'
      BY <1>4, <1>6, <1>7, <3>1, <3>3, <3>4 DEF Holding
    <3> QED
      BY <1>7, <3>5 DEF Hand
  <2>4. ASSUME NEW u \in Tickets, u # t PROVE Plain(u)' /\ Bottom(u)'
    BY <1>0, <1>1, <1>4, <1>5, <1>6, <1>7, <1>7a, <2>1, <2>4, Elsewhere
  <2>5. Plain(t)' /\ Bottom(t)'
    BY <1>6, <1>7 DEF Plain, Bottom, Sent
  <2> QED
    BY <2>2, <2>3, <2>4, <2>5 DEF Carried
<1> QED
  BY <1>4, <1>8, <1>9, <1>10 DEF CardSafe

\* The row names the new card.
LEMMA SetCardKeeps ==
    ASSUME TypeOK, Paths, Locked, Knowledge, CardSafe, NEW p \in Procs, SetCard(p)
    PROVE  CardSafe'
<1>0. WorldTyped /\ TasksTyped /\ PlaceTyped /\ Timers /\ Unopened
  BY TypeOKParts DEF TasksTyped, CardSafe
<1>1. PICK t \in Tickets : t = mine[p].t
  BY DEF SetCard, Paths, Way
<1>2. ticket[t].status = "open"
  BY <1>1 DEF SetCard, Knowledge, Knows
<1>3. /\ pc[p] = "setCard" /\ op[p] # "close" /\ UNCHANGED <<room, dirty, mishaps>>
      /\ ticket' = [ticket EXCEPT ![t].card = mine[p].new]
      /\ IF mine[p].card = NoCard THEN Moved(p)
                                  ELSE Goto(p, "dropOld") /\ UNCHANGED <<op, mine>>
  BY <1>1 DEF SetCard, Paths, Way, discord
<1>4. p \in Tickets => mine[p].t = p
  BY <1>0, <1>3 DEF Timers, Timer
<1>5. /\ \A q \in Procs : q # p => Kept(q)
      /\ IF mine[p].card = NoCard
         THEN pc'[p] = (IF p \in dirty THEN "sleep" ELSE "idle") /\ mine'[p].t = 0
         ELSE pc'[p] = "dropOld" /\ op'[p] = op[p] /\ mine'[p] = mine[p]
      /\ p \in Tickets => Timer(p)'
  <2>1. CASE mine[p].card = NoCard
    BY <1>0, <1>3, <2>1, MovedOn
  <2>2. CASE mine[p].card # NoCard
    BY <1>0, <1>3, <1>4, <2>2 DEF Goto, Kept, PlaceTyped, Timer
  <2> QED
    BY <2>1, <2>2
<1>6. /\ \A u \in Tickets : u # t => ticket'[u] = ticket[u]
      /\ ticket'[t].card = mine[p].new /\ ticket'[t].status = "open"
      /\ ticket'[t].placed = ticket[t].placed
  BY <1>0, <1>2, <1>3 DEF WorldTyped, TicketRows
<1>7. Timers'
  BY <1>0, <1>3, <1>5, TimersStay
<1>8. Unopened'
  BY <1>0, <1>3, <1>6 DEF Unopened
<1>9. ASSUME mishaps = 0 PROVE Carried'
  <2>1. /\ \A q \in Procs : Hand(q)
        /\ \A u \in Tickets : Plain(u) /\ Bottom(u)
    BY <1>9 DEF CardSafe, Carried
  <2>2. \A q \in Procs : q # p => pc[q] \notin {"setCard", "dropOld"} /\ Hand(q)'
    BY <1>3, <1>5, Alone DEF Holds, Writing
  <2>3. /\ mine[p].card = ticket[t].card
        /\ mine[p].new \in CardIds /\ mine[p].new # mine[p].card /\ mine[p].new # NoCard
        /\ Shown(t) => /\ room[t].cards = Named(t) \cup {mine[p].new}
                       /\ room[t].last \in {NoCard, mine[p].new, Stray}
    BY <1>1, <1>3, <2>1, Names DEF Hand, Holding
  <2>4. Shown(t)' <=> Shown(t)
    BY <1>2, <1>3, <1>6 DEF Shown, Stands
  <2>5. Hand(p)'
    <3>1. CASE mine[p].card = NoCard
      BY <1>5, <3>1 DEF Hand, Holding
    <3>2. CASE mine[p].card # NoCard
      <4>1. Holding(p, t)'
        BY <1>3, <1>5, <1>6, <2>3, <2>4, <3>2 DEF Holding, Named
      <4> QED
        BY <1>1, <1>5, <3>2, <4>1 DEF Hand
    <3> QED
      BY <3>1, <3>2
  <2>6. ASSUME NEW u \in Tickets, u # t PROVE Plain(u)' /\ Bottom(u)'
    <3>1. mine'[p].t # u
      BY <1>1, <1>5, <2>6 DEF Tickets
    <3> QED
      BY <1>0, <1>1, <1>3, <1>4, <1>5, <1>6, <2>1, <2>6, <3>1, Elsewhere
  <2>7. Plain(t)'
    <3>1. CASE mine[p].card = NoCard
      BY <1>3, <1>6, <2>3, <2>4, <3>1 DEF Plain, Named
    <3>2. CASE mine[p].card # NoCard
      BY <1>1, <1>5, <3>2 DEF Plain
    <3> QED
      BY <3>1, <3>2
  <2>8. Bottom(t)'
    <3> SUFFICES ASSUME Shown(t)', ticket'[t].placed
                 PROVE  \/ \E q \in Procs : Brings(q, t)' \/ Sent(q, t)'
                        \/ room'[t].last \in {ticket'[t].card, Stray} /\ ticket'[t].card # NoCard
      BY DEF Bottom
    <3>1. CASE room[t].last \in {mine[p].new, Stray}
      BY <1>3, <1>6, <2>3, <3>1
    <3>2. CASE room[t].last \notin {mine[p].new, Stray}
      <4>1. room[t].last = NoCard
        BY <2>3, <2>4, <3>2
      <4>2. ~Sent(p, t) /\ \A q \in Procs : q # p => ~Sent(q, t)
        BY <2>2, <3>2 DEF Sent
      <4>3. PICK q \in Procs : Brings(q, t)
        BY <1>6, <2>1, <2>4, <4>1, <4>2 DEF Bottom, NoCard, Stray
      <4>4. CASE q = p
        <5>1. p = t /\ t \in dirty
          BY <1>3, <4>3, <4>4 DEF Brings
        <5> QED
          BY <1>3, <5>1 DEF Brings
      <4>5. CASE q # p
        BY <1>3, <1>5, <4>3, <4>5 DEF Brings, Kept
      <4> QED
        BY <4>4, <4>5
    <3> QED
      BY <3>1, <3>2
  <2> QED
    BY <2>2, <2>5, <2>6, <2>7, <2>8 DEF Carried
<1> QED
  BY <1>3, <1>7, <1>8, <1>9 DEF CardSafe

\* A stray message is no card.
LEMMA Strange == Stray \notin CardIds \cup {NoCard}
  BY DEF Stray, CardIds, NoCard

\* And the one it replaced goes, or the one of a ticket that is being closed.
LEMMA DropOldKeeps ==
    ASSUME TypeOK, Paths, Locked, Knowledge, CardSafe, NEW p \in Procs, DropOld(p)
    PROVE  CardSafe'
<1>0. WorldTyped /\ TasksTyped /\ PlaceTyped /\ Timers /\ Unopened
  BY TypeOKParts DEF TasksTyped, CardSafe
<1>1. PICK t \in Tickets : t = mine[p].t
  BY DEF DropOld, Paths, Way
<1>2. op[p] = "close" => ticket[t].card = NoCard
  BY <1>1 DEF DropOld, Knowledge, Knows
<1>3. /\ pc[p] = "dropOld" /\ UNCHANGED <<ticket, dirty, mishaps>>
      /\ Gone(t, mine[p].card)
      /\ IF op[p] = "close" THEN Goto(p, "read") /\ UNCHANGED <<op, mine>> ELSE Moved(p)
  BY <1>1 DEF DropOld, AfterDrop, store
<1>4. p \in Tickets => mine[p].t = p /\ op[p] # "close"
  BY <1>0, <1>3 DEF Timers, Timer, Paths, Way
<1>5. /\ \A q \in Procs : q # p => Kept(q)
      /\ IF op[p] = "close"
         THEN pc'[p] = "read" /\ op'[p] = op[p] /\ mine'[p] = mine[p]
         ELSE pc'[p] = (IF p \in dirty THEN "sleep" ELSE "idle") /\ mine'[p].t = 0
      /\ p \in Tickets => Timer(p)'
  <2>1. CASE op[p] # "close"
    BY <1>0, <1>3, <2>1, MovedOn
  <2>2. CASE op[p] = "close"
    BY <1>0, <1>3, <1>4, <2>2 DEF Goto, Kept, PlaceTyped
  <2> QED
    BY <2>1, <2>2
<1>6. /\ \A u \in Tickets : u # t => room'[u] = room[u]
      /\ room'[t].cards = room[t].cards \ {mine[p].card} /\ room'[t].is = room[t].is
      /\ room[t].last # mine[p].card => room'[t].last = room[t].last
  BY <1>0, <1>3 DEF Gone, WorldTyped, RoomRows
<1>7. Timers'
  BY <1>0, <1>3, <1>5, TimersStay
<1>8. Unopened'
  BY <1>0, <1>3, <1>6 DEF Unopened
<1>9. ASSUME mishaps = 0 PROVE Carried'
  <2>1. /\ \A q \in Procs : Hand(q)
        /\ \A u \in Tickets : Plain(u) /\ Bottom(u)
    BY <1>9 DEF CardSafe, Carried
  <2>2. \A q \in Procs : q # p => pc[q] \notin {"setCard", "dropOld"} /\ Hand(q)'
    BY <1>3, <1>5, Alone DEF Holds, Writing
  <2>3. IF op[p] = "close"
        THEN Shown(t) => room[t].cards = {mine[p].card}
        ELSE /\ mine[p].card # ticket[t].card /\ ticket[t].card # NoCard
             /\ Shown(t) => room[t].cards = {mine[p].card, ticket[t].card}
    BY <1>1, <1>3, <2>1 DEF Hand, Holding
  <2>4. Shown(t)' <=> Shown(t)
    BY <1>3, <1>6 DEF Shown, Stands
  <2>5. Hand(p)'
    BY <1>5 DEF Hand, Holding
  <2>6. ASSUME NEW u \in Tickets, u # t PROVE Plain(u)' /\ Bottom(u)'
    <3>1. mine'[p].t # u
      BY <1>1, <1>5, <2>6 DEF Tickets
    <3> QED
      BY <1>0, <1>1, <1>3, <1>4, <1>5, <1>6, <2>1, <2>6, <3>1, Elsewhere
  <2>7. Plain(t)'
    <3>1. Shown(t) => room[t].cards \ {mine[p].card} = Named(t)
      BY <1>2, <2>3 DEF Named
    <3> QED
      BY <1>3, <1>6, <2>4, <3>1 DEF Plain, Named
  <2>8. Bottom(t)'
    <3> SUFFICES ASSUME Shown(t)', ticket'[t].placed
                 PROVE  \/ \E q \in Procs : Brings(q, t)' \/ Sent(q, t)'
                        \/ room'[t].last \in {ticket'[t].card, Stray} /\ ticket'[t].card # NoCard
      BY DEF Bottom
    <3>1. CASE op[p] = "close"
      BY <1>1, <1>5, <3>1 DEF Brings
    <3>2. CASE op[p] # "close"
      <4>1. \A q \in Procs : ~Sent(q, t)
        BY <1>3, <2>2 DEF Sent
      <4>2. \/ \E q \in Procs : Brings(q, t)
            \/ room[t].last \in {ticket[t].card, Stray} /\ ticket[t].card # NoCard
        BY <1>3, <2>1, <2>4, <4>1 DEF Bottom
      <4>3. ASSUME NEW q \in Procs, Brings(q, t) PROVE Brings(q, t)'
        <5>1. CASE q = p
          <6>1. p = t /\ t \in dirty
            BY <1>3, <3>2, <4>3, <5>1 DEF Brings
          <6> QED
            BY <1>3, <5>1, <6>1 DEF Brings
        <5>2. CASE q # p
          BY <1>3, <1>5, <4>3, <5>2 DEF Brings, Kept
        <5> QED
          BY <5>1, <5>2
      <4>4. mine[p].card # Stray
        BY <1>0, Strange DEF TasksTyped, PlaceTyped, Minds
      <4> QED
        BY <1>3, <1>6, <2>3, <3>2, <4>2, <4>3, <4>4
    <3> QED
      BY <3>1, <3>2
  <2> QED
    BY <2>2, <2>5, <2>6, <2>7, <2>8 DEF Carried
<1> QED
  BY <1>3, <1>7, <1>8, <1>9 DEF CardSafe

\* The move that is asked for is begun, or to be made again.
LEMMA BumpedKeeps ==
    ASSUME TypeOK, Paths, CardSafe, NEW p \in Procs, Bumped(p)
    PROVE  CardSafe'
<1>0. WorldTyped /\ TasksTyped /\ PlaceTyped /\ Timers /\ Unopened
  BY TypeOKParts DEF TasksTyped, CardSafe
<1>1. PICK t \in Tickets : t = mine[p].t
  BY DEF Bumped, Paths, Way
<1>2. /\ pc[p] = "bump" /\ p \notin Tickets /\ UNCHANGED <<ticket, room, mishaps>>
      /\ pc' = [pc EXCEPT ![p] = "idle", ![t] = IF @ = "idle" THEN "sleep" ELSE @]
      /\ op' = [op EXCEPT ![p] = "none"] /\ mine' = [mine EXCEPT ![p] = Nothing]
      /\ dirty' = IF pc[t] = "idle" THEN dirty ELSE dirty \cup {t}
  BY <1>0, <1>1 DEF Bumped, Timers, Timer, store, discord
<1>3. /\ \A q \in Procs : q # p => op'[q] = op[q] /\ mine'[q] = mine[q]
      /\ \A q \in Procs : q # p /\ q # t => pc'[q] = pc[q]
      /\ pc'[t] = IF pc[t] = "idle" THEN "sleep" ELSE pc[t]
      /\ pc'[p] = "idle" /\ mine'[p].t = 0
  BY <1>0, <1>1, <1>2, Names DEF PlaceTyped, Nothing
<1>4. Timers'
  <2>1. \A u \in Tickets : u \in Procs /\ u # p
    BY <1>2, Names
  <2>2. ASSUME NEW u \in Tickets PROVE Timer(u)'
    <3>1. mine'[u] = mine[u] /\ op'[u] = op[u]
      BY <1>3, <2>1
    <3>2. /\ pc'[u] \in {pc[u]} \cup (IF pc[u] = "idle" THEN {"sleep"} ELSE {})
          /\ pc[u] # "idle" => pc'[u] = pc[u]
      BY <1>3, <2>1
    <3>3. u \in dirty' => u \in dirty \/ pc[u] # "idle"
      BY <1>2
    <3> QED
      BY <1>0, <3>1, <3>2, <3>3 DEF Timers, Timer
  <2> QED
    BY <2>2 DEF Timers
<1>5. Unopened'
  BY <1>0, <1>2 DEF Unopened
<1>6. ASSUME mishaps = 0 PROVE Carried'
  <2>1. /\ \A q \in Procs : Hand(q)
        /\ \A u \in Tickets : Plain(u) /\ Bottom(u)
    BY <1>6 DEF CardSafe, Carried
  <2>2. \A u \in Tickets : /\ Shown(u)' <=> Shown(u)
                           /\ Named(u)' = Named(u)
    BY <1>2 DEF Shown, Stands, Named
  <2>3. ASSUME NEW q \in Procs PROVE Hand(q)'
    <3>1. CASE pc'[q] \in {"make", "send", "drop", "setCard", "dropOld"}
      <4>1. q # p /\ pc'[q] = pc[q]
        BY <1>3, <3>1
      <4>2. ASSUME NEW u \in Tickets, mine[q].t = u PROVE Holding(q, u)'
        <5>1. Holding(q, u)
          BY <2>1, <4>2 DEF Hand
        <5> QED
          BY <1>2, <1>3, <2>2, <4>1, <5>1 DEF Holding
      <4> QED
        BY <1>3, <4>1, <4>2 DEF Hand
    <3>2. CASE pc'[q] \notin {"make", "send", "drop", "setCard", "dropOld"}
      BY <3>2 DEF Hand, Holding
    <3> QED
      BY <3>1, <3>2
  <2>4. ASSUME NEW u \in Tickets PROVE Plain(u)'
    <3>1. \A q \in Procs : mine[q].t = u /\ pc[q] \in {"setCard", "dropOld"}
                               => mine'[q].t = u /\ pc'[q] \in {"setCard", "dropOld"}
      BY <1>2, <1>3
    <3> QED
      BY <1>2, <2>1, <2>2, <3>1 DEF Plain
  <2>5. Bottom(t)'
    BY <1>2, <1>3, Names DEF Bottom, Brings
  <2>6. ASSUME NEW u \in Tickets, u # t PROVE Bottom(u)'
    <3>1. ASSUME NEW q \in Procs, Brings(q, u) PROVE Brings(q, u)'
      <4>1. q # p
        BY <1>1, <1>2, <2>6, <3>1 DEF Brings
      <4>2. pc'[q] = pc[q] \/ pc[q] = "idle"
        BY <1>3, <4>1
      <4>3. u \in dirty => u \in dirty'
        BY <1>2
      <4>4. pc'[u] = pc[u]
        BY <1>2, <1>3, <2>6, Names
      <4> QED
        BY <1>3, <3>1, <4>1, <4>2, <4>3, <4>4 DEF Brings
    <3>2. ASSUME NEW q \in Procs, Sent(q, u) PROVE Sent(q, u)'
      <4>1. q # p /\ pc'[q] = pc[q]
        BY <1>2, <1>3, <3>2 DEF Sent
      <4> QED
        BY <1>2, <1>3, <3>2, <4>1 DEF Sent
    <3> QED
      BY <1>2, <2>1, <2>2, <3>1, <3>2 DEF Bottom
  <2> QED
    BY <2>3, <2>4, <2>5, <2>6 DEF Carried
<1> QED
  BY <1>2, <1>4, <1>5, <1>6 DEF CardSafe

\* No step of a task, of Discord, of people or of the clock loses the card.
LEMMA CardStep ==
    ASSUME TypeOK, Paths, Locked, World, Knowledge, CardSafe, [Next]_vars PROVE CardSafe'
<1>0. WorldTyped /\ TasksTyped /\ RestTyped /\ PlaceTyped /\ Timers /\ Unopened
  BY TypeOKParts DEF TasksTyped, CardSafe
<1> USE <1>0
<1>1. ASSUME NEW p \in Procs, Ask(p) PROVE CardSafe'
  <2>1. \A q \in Procs : q # p => Kept(q)
    BY <1>1 DEF Ask, Goto, Kept, TasksTyped, PlaceTyped
  <2>2. pc[p] = "idle" /\ p \notin Tickets /\ pc'[p] = "ask"
    BY <1>1, Names DEF Ask, Goto, Timers, Timer, Paths, Way, TasksTyped, PlaceTyped, Minds
  <2>3. Beside
    BY <1>1 DEF Ask, store, discord, Beside, Shown, Stands
  <2>4. dirty' = dirty /\ mishaps' = mishaps
    BY <1>1 DEF Ask, memory
  <2>5. Hand(p)'
    BY <2>2 DEF Hand, Holding
  <2>6. \A t \in Tickets : Onward(p, t)
    BY <1>1, <2>2 DEF Ask, store, discord, Onward, Brings
  <2> QED
    BY <2>1, <2>2, <2>3, <2>4, <2>5, <2>6, Aside
<1>2. ASSUME NEW p \in Procs, Pick(p) PROVE CardSafe'
  <2>1. \A q \in Procs : q # p => Kept(q)
    BY <1>2 DEF Pick, Goto, Open, Kept, TasksTyped, PlaceTyped
  <2>2. pc[p] = "idle" /\ p \notin Tickets /\ pc'[p] \in {"relay", "close"}
    BY <1>2, Names DEF Pick, Goto, Open, Timers, Timer, Paths, Way, TasksTyped, PlaceTyped, Minds
  <2>3. Beside
    BY <1>2 DEF Pick, store, discord, Beside, Shown, Stands
  <2>4. dirty' = dirty /\ mishaps' = mishaps
    BY <1>2 DEF Pick, memory
  <2>5. Hand(p)'
    BY <2>2 DEF Hand, Holding
  <2>6. \A t \in Tickets : Onward(p, t)
    BY <1>2, <2>2 DEF Pick, store, discord, Onward, Brings
  <2> QED
    BY <2>1, <2>2, <2>3, <2>4, <2>5, <2>6, Aside
<1>3. ASSUME NEW p \in Procs, Notice(p) PROVE CardSafe'
  <2>1. \A q \in Procs : q # p => Kept(q)
    BY <1>3 DEF Notice, Goto, taskVars, Kept, TasksTyped, PlaceTyped
  <2>2. pc[p] = "idle" /\ p \notin Tickets /\ pc'[p] \in {"idle", "close"}
    BY <1>3, Names DEF Notice, Goto, taskVars, Timers, Timer, Paths, Way, TasksTyped, PlaceTyped,
           Minds
  <2>3. Beside
    BY <1>3 DEF Notice, store, discord, Beside, Shown, Stands
  <2>4. dirty' = dirty /\ mishaps' = mishaps
    BY <1>3 DEF Notice, memory
  <2>5. Hand(p)'
    BY <2>2 DEF Hand, Holding
  <2>6. \A t \in Tickets : Onward(p, t)
    BY <1>3, <2>2 DEF Notice, store, discord, Onward, Brings
  <2> QED
    BY <2>1, <2>2, <2>3, <2>4, <2>5, <2>6, Aside
<1>4. ASSUME NEW p \in Procs, LockAsk(p) PROVE CardSafe'
  <2>1. \A q \in Procs : q # p => Kept(q)
    BY <1>4 DEF LockAsk, Goto, Finish, Kept, TasksTyped, PlaceTyped
  <2>2. pc[p] = "ask" /\ p \notin Tickets /\ pc'[p] \in {"create", "record", "idle"}
    BY <1>4, Names DEF LockAsk, Goto, Finish, Timers, Timer, Paths, Way, TasksTyped, PlaceTyped,
           Minds
  <2>3. Beside
    BY <1>4 DEF LockAsk, store, discord, Beside, Shown, Stands
  <2>4. dirty' = dirty /\ mishaps' = mishaps
    BY <1>4 DEF LockAsk, memory
  <2>5. Hand(p)'
    BY <2>2 DEF Hand, Holding
  <2>6. \A t \in Tickets : Onward(p, t)
    BY <1>4, <2>2 DEF LockAsk, store, discord, Onward, Brings
  <2> QED
    BY <2>1, <2>2, <2>3, <2>4, <2>5, <2>6, Aside
<1>5. ASSUME NEW p \in Procs, LockClose(p) PROVE CardSafe'
  <2>1. \A q \in Procs : q # p => Kept(q)
    BY <1>5 DEF LockClose, Goto, Finish, Kept, TasksTyped, PlaceTyped
  <2>2. /\ pc[p] = "close" /\ p \notin Tickets /\ pc'[p] \in {"idle", "read", "drop"}
        /\ pc'[p] = "drop" => /\ mine'[p].t = mine[p].t /\ mine'[p].t \in Tickets
                              /\ mine'[p].card = ticket[mine[p].t].card
                              /\ mine'[p].card # NoCard
    BY <1>5, Names DEF LockClose, Goto, Finish, Timers, Timer, Paths, Way, TasksTyped,
           PlaceTyped, Minds
  <2>3. Beside
    BY <1>5 DEF LockClose, store, discord, Beside, Shown, Stands
  <2>4. dirty' = dirty /\ mishaps' = mishaps
    BY <1>5 DEF LockClose, memory
  <2>5. Hand(p)'
    BY <2>2, <2>3 DEF Hand, Holding, Beside
  <2>6. \A t \in Tickets : Onward(p, t)
    BY <1>5, <2>2 DEF LockClose, store, discord, Onward, Brings
  <2> QED
    BY <2>1, <2>2, <2>3, <2>4, <2>5, <2>6, Aside
<1>6. ASSUME NEW p \in Procs, Note(p) PROVE CardSafe'
  <2>1. \A q \in Procs : q # p => Kept(q)
    BY <1>6 DEF Note, Goto, Kept, TasksTyped, PlaceTyped
  <2>2. PICK u \in Tickets : /\ mine'[p].t = u /\ Speaks(u, NoCard)
                             /\ pc[p] = "idle" /\ pc'[p] = "bump" /\ p \notin Tickets
                             /\ ticket' = ticket
    BY <1>6, Names DEF Note, Goto, Open, Timers, Timer, Paths, Way, store, TasksTyped,
           PlaceTyped, Minds
  <2>3. \A t \in Tickets : /\ room'[t].cards = room[t].cards /\ room'[t].is = room[t].is
                           /\ room'[t].last \in {room[t].last, NoCard}
                           /\ t # u => room'[t].last = room[t].last
    BY <2>2 DEF Speaks, WorldTyped, RoomRows
  <2>4. dirty' = dirty /\ mishaps' = mishaps
    BY <1>6 DEF Note, memory
  <2>5. Hand(p)'
    BY <2>2 DEF Hand, Holding
  <2>6. \A t \in Tickets : Onward(p, t)
    BY <2>2, <2>3 DEF Onward, Brings
  <2>7. Beside
    <3>1. \A t \in Tickets : (Stands(t)' <=> Stands(t)) /\ (Shown(t)' <=> Shown(t))
      BY <2>2, <2>3 DEF Shown, Stands
    <3> QED
      BY <2>2, <2>3, <3>1 DEF Beside
  <2> QED
    BY <2>1, <2>2, <2>4, <2>5, <2>6, <2>7, Aside
<1>7. ASSUME NEW p \in Procs, Header(p) PROVE CardSafe'
  <2>1. \A q \in Procs : q # p => Kept(q)
    BY <1>7 DEF Header, Goto, Kept, TasksTyped, PlaceTyped
  <2>2. PICK u \in Tickets : /\ mine'[p].t = u /\ Speaks(u, NoCard)
                             /\ pc[p] = "header" /\ pc'[p] = "record" /\ p \notin Tickets
                             /\ ticket' = ticket /\ mine[p].t = u
    BY <1>7, Names DEF Header, Goto, Open, Timers, Timer, Paths, Way, store, TasksTyped,
           PlaceTyped, Minds
  <2>3. \A t \in Tickets : /\ room'[t].cards = room[t].cards /\ room'[t].is = room[t].is
                           /\ room'[t].last \in {room[t].last, NoCard}
                           /\ t # u => room'[t].last = room[t].last
    BY <2>2 DEF Speaks, WorldTyped, RoomRows
  <2>4. dirty' = dirty /\ mishaps' = mishaps
    BY <1>7 DEF Header, memory
  <2>5. Hand(p)'
    BY <2>2 DEF Hand, Holding
  <2>6. \A t \in Tickets : Onward(p, t)
    BY <2>2, <2>3 DEF Onward, Brings
  <2>7. Beside
    <3>1. \A t \in Tickets : (Stands(t)' <=> Stands(t)) /\ (Shown(t)' <=> Shown(t))
      BY <2>2, <2>3 DEF Shown, Stands
    <3> QED
      BY <2>2, <2>3, <3>1 DEF Beside
  <2> QED
    BY <2>1, <2>2, <2>4, <2>5, <2>6, <2>7, Aside
<1>8. ASSUME NEW p \in Procs, Relay(p) PROVE CardSafe'
  <2>1. \A q \in Procs : q # p => Kept(q)
    BY <1>8 DEF Relay, Goto, Kept, TasksTyped, PlaceTyped
  <2>2. PICK u \in Tickets : /\ mine'[p].t = u /\ Speaks(u, NoCard)
                             /\ pc[p] = "relay" /\ pc'[p] = "bump" /\ p \notin Tickets
                             /\ ticket' = ticket /\ mine[p].t = u
    BY <1>8, Names DEF Relay, Goto, Open, Timers, Timer, Paths, Way, store, TasksTyped,
           PlaceTyped, Minds
  <2>3. \A t \in Tickets : /\ room'[t].cards = room[t].cards /\ room'[t].is = room[t].is
                           /\ room'[t].last \in {room[t].last, NoCard}
                           /\ t # u => room'[t].last = room[t].last
    BY <2>2 DEF Speaks, WorldTyped, RoomRows
  <2>4. dirty' = dirty /\ mishaps' = mishaps
    BY <1>8 DEF Relay, memory
  <2>5. Hand(p)'
    BY <2>2 DEF Hand, Holding
  <2>6. \A t \in Tickets : Onward(p, t)
    BY <2>2, <2>3 DEF Onward, Brings
  <2>7. Beside
    <3>1. \A t \in Tickets : (Stands(t)' <=> Stands(t)) /\ (Shown(t)' <=> Shown(t))
      BY <2>2, <2>3 DEF Shown, Stands
    <3> QED
      BY <2>2, <2>3, <3>1 DEF Beside
  <2> QED
    BY <2>1, <2>2, <2>4, <2>5, <2>6, <2>7, Aside
<1>9. ASSUME NEW p \in Procs, Record(p) PROVE CardSafe'
  <2>1. \A q \in Procs : q # p => Kept(q)
    BY <1>9 DEF Record, Goto, Kept, TasksTyped, PlaceTyped
  <2>2. pc[p] = "record" /\ p \notin Tickets /\ pc'[p] = "relay" /\ mine'[p].t = mine[p].t
    BY <1>9, Names DEF Record, Goto, Timers, Timer, Paths, Way, TasksTyped, PlaceTyped, Minds
  <2>3. Beside
    BY <1>9 DEF Record, discord, Beside, Shown, Stands
  <2>4. dirty' = dirty /\ mishaps' = mishaps
    BY <1>9 DEF Record, memory
  <2>5. Hand(p)'
    BY <2>2 DEF Hand, Holding
  <2>6. \A t \in Tickets : Onward(p, t)
    BY <1>9, <2>2 DEF Record, discord, Onward, Brings
  <2> QED
    BY <2>1, <2>2, <2>3, <2>4, <2>5, <2>6, Aside
<1>10. ASSUME NEW p \in Procs, Read(p) PROVE CardSafe'
  <2>1. \A q \in Procs : q # p => Kept(q)
    BY <1>10 DEF Read, Goto, Kept, TasksTyped, PlaceTyped
  <2>2. pc[p] = "read" /\ p \notin Tickets /\ pc'[p] = "mark" /\ mine'[p].t = mine[p].t /\ op'[p] = op[p]
    BY <1>10, Names DEF Read, Goto, Timers, Timer, Paths, Way, TasksTyped, PlaceTyped, Minds
  <2>3. Beside
    BY <1>10 DEF Read, store, discord, Beside, Shown, Stands
  <2>4. dirty' = dirty /\ mishaps' = mishaps
    BY <1>10 DEF Read, memory
  <2>5. Hand(p)'
    BY <2>2 DEF Hand, Holding
  <2>6. \A t \in Tickets : Onward(p, t)
    BY <1>10, <2>2 DEF Read, store, discord, Onward, Brings
  <2> QED
    BY <2>1, <2>2, <2>3, <2>4, <2>5, <2>6, Aside
<1>11. ASSUME NEW p \in Procs, Transcript(p) PROVE CardSafe'
  <2>1. \A q \in Procs : q # p => Kept(q)
    BY <1>11 DEF Transcript, Goto, Kept, TasksTyped, PlaceTyped
  <2>2. pc[p] = "transcript" /\ p \notin Tickets /\ pc'[p] = "remove" /\ mine'[p].t = mine[p].t
    BY <1>11, Names DEF Transcript, Goto, Timers, Timer, Paths, Way, TasksTyped, PlaceTyped, Minds
  <2>3. Beside
    BY <1>11 DEF Transcript, store, discord, Beside, Shown, Stands
  <2>4. dirty' = dirty /\ mishaps' = mishaps
    BY <1>11 DEF Transcript, memory
  <2>5. Hand(p)'
    BY <2>2 DEF Hand, Holding
  <2>6. \A t \in Tickets : Onward(p, t)
    BY <1>11, <2>2 DEF Transcript, store, discord, Onward, Brings
  <2> QED
    BY <2>1, <2>2, <2>3, <2>4, <2>5, <2>6, Aside
<1>12. ASSUME NEW p \in Procs, Place(p) PROVE CardSafe'
  <2>1. \A q \in Procs : q # p => Kept(q)
    BY <1>12 DEF Place, Goto, Kept, TasksTyped, PlaceTyped
  <2>2. pc[p] = "place" /\ p \notin Tickets /\ pc'[p] = "header" /\ mine'[p].t = mine[p].t /\ mine[p].t \in Tickets
    BY <1>12, Names DEF Place, Goto, Timers, Timer, Paths, Way, TasksTyped, PlaceTyped, Minds
  <2>3. Beside
    BY <1>12 DEF Place, discord, Beside, Shown, Stands, WorldTyped, TicketRows
  <2>4. dirty' = dirty /\ mishaps' = mishaps
    BY <1>12 DEF Place, memory
  <2>5. Hand(p)'
    BY <2>2 DEF Hand, Holding
  <2>6. \A t \in Tickets : Onward(p, t)
    BY <1>12, <2>2 DEF Place, discord, Onward, Brings, WorldTyped, TicketRows
  <2> QED
    BY <2>1, <2>2, <2>3, <2>4, <2>5, <2>6, Aside
<1>13. ASSUME NEW p \in Procs, Abandon(p) PROVE CardSafe'
  <2>1. \A q \in Procs : q # p => Kept(q)
    BY <1>13 DEF Abandon, Goto, Finish, Kept, TasksTyped, PlaceTyped
  <2>2. pc[p] = "abandon" /\ p \notin Tickets /\ pc'[p] \in {"idle", "transcript"} /\ mine[p].t \in Tickets
    BY <1>13, Names DEF Abandon, Goto, Finish, Timers, Timer, Paths, Way, TasksTyped, PlaceTyped,
           Minds
  <2>3. Beside
    BY <1>13 DEF Abandon, discord, Beside, Shown, Stands, WorldTyped, TicketRows
  <2>4. dirty' = dirty /\ mishaps' = mishaps
    BY <1>13 DEF Abandon, memory
  <2>5. Hand(p)'
    BY <2>2 DEF Hand, Holding
  <2>6. \A t \in Tickets : Onward(p, t)
    BY <1>13, <2>2 DEF Abandon, discord, Onward, Brings, Shown, WorldTyped, TicketRows
  <2> QED
    BY <2>1, <2>2, <2>3, <2>4, <2>5, <2>6, Aside
<1>14. ASSUME NEW p \in Procs, MarkClosed(p) PROVE CardSafe'
  <2>1. \A q \in Procs : q # p => Kept(q)
    BY <1>14 DEF MarkClosed, Goto, Finish, Kept, TasksTyped, PlaceTyped
  <2>2. pc[p] = "mark" /\ p \notin Tickets /\ pc'[p] \in {"idle", "transcript"} /\ mine[p].t \in Tickets
    BY <1>14, Names DEF MarkClosed, Goto, Finish, Timers, Timer, Paths, Way, TasksTyped,
           PlaceTyped, Minds
  <2>3. Beside
    BY <1>14 DEF MarkClosed, discord, Beside, Shown, Stands, WorldTyped, TicketRows
  <2>4. dirty' = dirty /\ mishaps' = mishaps
    BY <1>14 DEF MarkClosed, memory
  <2>5. Hand(p)'
    BY <2>2 DEF Hand, Holding
  <2>6. \A t \in Tickets : Onward(p, t)
    BY <1>14, <2>2 DEF MarkClosed, discord, Onward, Brings, Shown, WorldTyped, TicketRows
  <2> QED
    BY <2>1, <2>2, <2>3, <2>4, <2>5, <2>6, Aside
<1>15. ASSUME NEW p \in Procs, Create(p) PROVE CardSafe'
  <2>1. \A q \in Procs : q # p => Kept(q)
    BY <1>15 DEF Create, Goto, Kept, TasksTyped, PlaceTyped
  <2>2. pc[p] = "create" /\ p \notin Tickets /\ pc'[p] = "make"
    BY <1>15, Names DEF Create, Goto, Timers, Timer, Paths, Way, TasksTyped, PlaceTyped, Minds
  <2>3. Beside
    BY <1>15 DEF Create, discord, Beside, Shown, Stands, Unopened, WorldTyped, TicketRows
  <2>4. dirty' = dirty /\ mishaps' = mishaps
    BY <1>15 DEF Create, memory
  <2>5. Hand(p)'
    BY <2>2, <1>15 DEF Hand, Holding, Create, Unopened, discord, TasksTyped, PlaceTyped, Minds
  <2>6. \A t \in Tickets : Onward(p, t)
    BY <1>15, <2>2 DEF Create, discord, Onward, Brings, WorldTyped, TicketRows
  <2> QED
    BY <2>1, <2>2, <2>3, <2>4, <2>5, <2>6, Aside
<1>16. ASSUME NEW p \in Procs, Wake(p) PROVE CardSafe'
  <2>1. \A q \in Procs : q # p => Kept(q)
    BY <1>16 DEF Wake, Goto, Kept, TasksTyped, PlaceTyped
  <2>2. /\ pc[p] = "sleep" /\ p \in Tickets /\ pc'[p] = "look"
        /\ mine'[p].t = p /\ p \in Procs
    BY <1>16, Names DEF Wake, Goto, Timers, Timer, Paths, Way, TasksTyped, PlaceTyped, Minds
  <2>3. Beside
    BY <1>16 DEF Wake, store, discord, Beside, Shown, Stands
  <2>4. dirty' = dirty \ {p} /\ mishaps' = mishaps
    BY <1>16 DEF Wake, memory
  <2>5. Hand(p)'
    BY <2>2 DEF Hand, Holding
  <2>6. \A t \in Tickets : Onward(p, t)
    BY <1>16, <2>2 DEF Wake, store, discord, Onward, Brings
  <2>7. p \in Tickets => Timer(p)'
    BY <1>16, <2>2 DEF Wake, Timer
  <2> QED
    BY <2>1, <2>2, <2>3, <2>4, <2>5, <2>6, <2>7, Aside
<1>17. ASSUME NEW p \in Procs, Look(p) PROVE CardSafe'
  <2>1. \A q \in Procs : q # p => Kept(q)
    BY <1>17 DEF Look, Goto, Finish, Moved, Kept, TasksTyped, PlaceTyped
  <2>2. /\ pc[p] = "look" /\ (p \in Tickets => mine[p].t = p)
        /\ IF ticket[mine[p].t].status = "open"
           THEN pc'[p] = "card" /\ mine'[p].t = mine[p].t /\ mine[p].t \in Tickets
           ELSE pc'[p] = IF p \in dirty THEN "sleep" ELSE "idle"
    BY <1>17, Names DEF Look, Goto, Finish, Moved, Timers, Timer, Paths, Way, TasksTyped,
           PlaceTyped, Minds
  <2>3. Beside
    BY <1>17 DEF Look, store, discord, Beside, Shown, Stands
  <2>4. dirty' = dirty /\ mishaps' = mishaps
    BY <1>17 DEF Look, memory
  <2>5. Hand(p)'
    BY <2>2 DEF Hand, Holding
  <2>6. \A t \in Tickets : Onward(p, t)
    BY <1>17, <2>2 DEF Look, store, discord, Onward, Brings, Shown
  <2>7. p \in Tickets => Timer(p)'
    BY <1>17, <2>2 DEF Look, Timer, memory
  <2> QED
    BY <2>1, <2>2, <2>3, <2>4, <2>5, <2>6, <2>7, Aside
<1>18. ASSUME NEW p \in Procs, LockCard(p) PROVE CardSafe'
  <2>1. \A q \in Procs : q # p => Kept(q)
    BY <1>18 DEF LockCard, Goto, Finish, Moved, Kept, TasksTyped, PlaceTyped
  <2>2. /\ pc[p] = "card" /\ (p \in Tickets => mine[p].t = p)
        /\ IF ticket[mine[p].t].status = "open"
           THEN pc'[p] = "send" /\ mine'[p].t = mine[p].t /\ mine[p].t \in Tickets
           ELSE pc'[p] = IF p \in dirty THEN "sleep" ELSE "idle"
    BY <1>18, Names DEF LockCard, Goto, Finish, Moved, Timers, Timer, Paths, Way, TasksTyped,
           PlaceTyped, Minds
  <2>3. Beside
    BY <1>18 DEF LockCard, store, discord, Beside, Shown, Stands
  <2>4. dirty' = dirty /\ mishaps' = mishaps
    BY <1>18 DEF LockCard, memory
  <2>5. Hand(p)'
    BY <2>2, <1>18 DEF Hand, Holding, LockCard, store, TasksTyped, PlaceTyped, Minds
  <2>6. \A t \in Tickets : Onward(p, t)
    BY <1>18, <2>2 DEF LockCard, store, discord, Onward, Brings, Shown
  <2>7. p \in Tickets => Timer(p)'
    BY <1>18, <2>2 DEF LockCard, Timer, memory
  <2> QED
    BY <2>1, <2>2, <2>3, <2>4, <2>5, <2>6, <2>7, Aside
<1>19. ASSUME BeginSweep PROVE CardSafe'
  <2>1. \A q \in Procs : q # Sweep => Kept(q)
    BY <1>19, Names DEF BeginSweep, Goto, Open, Kept, TasksTyped, PlaceTyped
  <2>2. pc[Sweep] = "idle" /\ pc'[Sweep] \in {"resolve", "close"} /\ Sweep \notin Tickets
    BY <1>19, Names DEF BeginSweep, Goto, Open, Timers, Timer, Paths, Way, TasksTyped,
           PlaceTyped, Minds
  <2>3. Beside
    BY <1>19 DEF BeginSweep, store, discord, Beside, Shown, Stands
  <2>4. dirty' = dirty /\ mishaps' = mishaps
    BY <1>19 DEF BeginSweep, memory
  <2>5. Hand(Sweep)'
    BY <2>2 DEF Hand, Holding
  <2>6. \A t \in Tickets : Onward(Sweep, t)
    BY <1>19, <2>2 DEF BeginSweep, store, discord, Onward, Brings
  <2> QED
    BY <2>1, <2>2, <2>3, <2>4, <2>5, <2>6, Aside, Names
<1>20. ASSUME Resolve PROVE CardSafe'
  <2>1. \A q \in Procs : q # Sweep => Kept(q)
    BY <1>20, Names DEF Resolve, Goto, Finish, Kept, TasksTyped, PlaceTyped
  <2>2. pc[Sweep] = "resolve" /\ pc'[Sweep] \in {"idle", "look"} /\ Sweep \notin Tickets
    BY <1>20, Names DEF Resolve, Goto, Finish, Timers, Timer, Paths, Way, TasksTyped, PlaceTyped,
           Minds
  <2>3. Beside
    BY <1>20 DEF Resolve, store, discord, Beside, Shown, Stands
  <2>4. dirty' = dirty /\ mishaps' = mishaps
    BY <1>20 DEF Resolve, memory
  <2>5. Hand(Sweep)'
    BY <2>2 DEF Hand, Holding
  <2>6. \A t \in Tickets : Onward(Sweep, t)
    BY <1>20, <2>2 DEF Resolve, store, discord, Onward, Brings
  <2> QED
    BY <2>1, <2>2, <2>3, <2>4, <2>5, <2>6, Aside, Names
<1>21. ASSUME Strike PROVE CardSafe'
  <2>1. \A q \in Procs : q # Sweep => Kept(q)
    BY <1>21, Names DEF Strike, Goto, Finish, Kept, TasksTyped, PlaceTyped
  <2>2. pc[Sweep] = "resolve" /\ pc'[Sweep] \in {"idle", "close"} /\ Sweep \notin Tickets
    BY <1>21, Names DEF Strike, Goto, Finish, Timers, Timer, Paths, Way, TasksTyped, PlaceTyped,
           Minds
  <2>3. Beside
    BY <1>21 DEF Strike, store, discord, Beside, Shown, Stands
  <2>4. dirty' = dirty /\ mishaps' = mishaps
    BY <1>21 DEF Strike, memory
  <2>5. Hand(Sweep)'
    BY <2>2 DEF Hand, Holding
  <2>6. \A t \in Tickets : Onward(Sweep, t)
    BY <1>21, <2>2 DEF Strike, store, discord, Onward, Brings
  <2> QED
    BY <2>1, <2>2, <2>3, <2>4, <2>5, <2>6, Aside, Names
<1>22. ASSUME NEW t \in Tickets, Age(t) PROVE CardSafe'
  <2>1. \A q \in Procs : Kept(q)
    BY <1>22 DEF Age, Kept, taskVars
  <2>2. dirty' = dirty /\ mishaps' = mishaps
    BY <1>22 DEF Age, memory
  <2>3. Beside
    BY <1>22 DEF Age, discord, Beside, Shown, Stands, WorldTyped, TicketRows
  <2>4. \A u \in Tickets : Onward(Nobody, u)
    BY <1>22, Names DEF Age, discord, Onward, Brings, WorldTyped, TicketRows
  <2> QED
    BY <2>1, <2>2, <2>3, <2>4, Names, Aside DEF Nobody, Tickets
<1>40. ASSUME NEW t \in Tickets, Stay(t) PROVE CardSafe'
  <2>1. \A q \in Procs : Kept(q)
    BY <1>40 DEF Stay, Kept, taskVars
  <2>2. dirty' = dirty /\ mishaps' = mishaps
    BY <1>40 DEF Stay, memory
  <2>3. Beside
    BY <1>40 DEF Stay, store, Beside, Shown, Stands, WorldTyped, RoomRows
  <2>4. \A u \in Tickets : Onward(Nobody, u)
    BY <1>40, Names DEF Stay, store, Onward, Brings, Shown, Stands, WorldTyped, RoomRows
  <2> QED
    BY <2>1, <2>2, <2>3, <2>4, Names, Aside DEF Nobody, Tickets
<1>23. ASSUME NEW t \in Tickets, DeleteRoom(t) PROVE CardSafe'
  <2>1. \A q \in Procs : Kept(q)
    BY <1>23 DEF DeleteRoom, Kept, taskVars
  <2>2. dirty' = dirty /\ mishaps' = mishaps
    BY <1>23 DEF DeleteRoom, memory
  <2>3. Beside
    BY <1>23 DEF DeleteRoom, store, Beside, Shown, Stands, Unopened, WorldTyped, RoomRows, NoRoom
  <2>4. \A u \in Tickets : Onward(Nobody, u)
    BY <1>23, Names DEF DeleteRoom, store, Onward, Brings, Shown, Stands, WorldTyped, RoomRows,
           NoRoom
  <2> QED
    BY <2>1, <2>2, <2>3, <2>4, Names, Aside DEF Nobody, Tickets
<1>24. CASE UNCHANGED vars
  <2>1. \A q \in Procs : Kept(q)
    BY <1>24 DEF vars, Kept, taskVars
  <2>2. dirty' = dirty /\ mishaps' = mishaps
    BY <1>24 DEF vars, memory
  <2>3. Beside
    BY <1>24 DEF vars, store, discord, Beside, Shown, Stands
  <2>4. \A u \in Tickets : Onward(Nobody, u)
    BY <1>24, Names DEF vars, store, discord, Onward, Brings
  <2> QED
    BY <2>1, <2>2, <2>3, <2>4, Names, Aside DEF Nobody, Tickets
<1>25. ASSUME NEW p \in Procs, MakeRefused(p) PROVE CardSafe'
  <2>1. \A q \in Procs : q # p => Kept(q)
    BY <1>25, Names DEF MakeRefused, Goto, Kept, TasksTyped, PlaceTyped
  <2>2. p \in Tickets => Timer(p)'
    BY <1>25, Names DEF MakeRefused, Goto, Timers, Timer, Paths, Way, TasksTyped, PlaceTyped, memory
  <2>3. Timers'
    BY <1>25, <2>1, <2>2, TimersStay DEF MakeRefused, memory
  <2> QED
    BY <1>25, <2>3, Astray, ModmailAssumption DEF MakeRefused, RestTyped, store, discord
<1>26. ASSUME NEW p \in Procs, RelayRefused(p) PROVE CardSafe'
  <2>1. \A q \in Procs : q # p => Kept(q)
    BY <1>26, Names DEF RelayRefused, Goto, Kept, TasksTyped, PlaceTyped
  <2>2. p \in Tickets => Timer(p)'
    BY <1>26, Names DEF RelayRefused, Goto, Timers, Timer, Paths, Way, TasksTyped, PlaceTyped,
           memory
  <2>3. Timers'
    BY <1>26, <2>1, <2>2, TimersStay DEF RelayRefused, memory
  <2> QED
    BY <1>26, <2>3, Astray, ModmailAssumption DEF RelayRefused, RestTyped, store, discord
<1>27. ASSUME NEW p \in Procs, TranscriptRefused(p) PROVE CardSafe'
  <2>1. \A q \in Procs : q # p => Kept(q)
    BY <1>27, Names DEF TranscriptRefused, Goto, Finish, Kept, TasksTyped, PlaceTyped
  <2>2. p \in Tickets => Timer(p)'
    BY <1>27, Names DEF TranscriptRefused, Goto, Finish, Timers, Timer, Paths, Way, TasksTyped,
           PlaceTyped, memory
  <2>3. Timers'
    BY <1>27, <2>1, <2>2, TimersStay DEF TranscriptRefused, memory
  <2> QED
    BY <1>27, <2>3, Astray, ModmailAssumption DEF TranscriptRefused, RestTyped, store, discord
<1>28. ASSUME NEW p \in Procs, SendRefused(p) PROVE CardSafe'
  <2>1. \A q \in Procs : q # p => Kept(q)
    BY <1>28, Names DEF SendRefused, Goto, Finish, Moved, Kept, TasksTyped, PlaceTyped
  <2>2. p \in Tickets => Timer(p)'
    BY <1>28, Names DEF SendRefused, Goto, Finish, Moved, Timers, Timer, Paths, Way, TasksTyped,
           PlaceTyped, memory
  <2>3. Timers'
    BY <1>28, <2>1, <2>2, TimersStay DEF SendRefused, memory
  <2> QED
    BY <1>28, <2>3, Astray, ModmailAssumption DEF SendRefused, RestTyped, store, discord
<1>29. ASSUME NEW p \in Procs, DropRefused(p) PROVE CardSafe'
  <2>1. \A q \in Procs : q # p => Kept(q)
    BY <1>29, Names DEF DropRefused, Goto, Finish, Moved, AfterDrop, Kept, TasksTyped, PlaceTyped
  <2>2. p \in Tickets => Timer(p)'
    BY <1>29, Names DEF DropRefused, Goto, Finish, Moved, AfterDrop, Timers, Timer, Paths, Way,
           TasksTyped, PlaceTyped, memory
  <2>3. Timers'
    BY <1>29, <2>1, <2>2, TimersStay DEF DropRefused, memory
  <2> QED
    BY <1>29, <2>3, Astray, ModmailAssumption DEF DropRefused, RestTyped, store, discord
<1>30. ASSUME Unknown PROVE CardSafe'
  <2>1. \A q \in Procs : q # Sweep => Kept(q)
    BY <1>30, Names DEF Unknown, Goto, Finish, Kept, TasksTyped, PlaceTyped
  <2>2. Sweep \in Tickets => Timer(Sweep)'
    BY <1>30, Names DEF Unknown, Goto, Finish, Timers, Timer, Paths, Way, TasksTyped, PlaceTyped,
           memory
  <2>3. Timers'
    BY <1>30, <2>1, <2>2, TimersStay DEF Unknown, memory
  <2> QED
    BY <1>30, <2>3, Astray, ModmailAssumption DEF Unknown, RestTyped, store, discord
<1>31. ASSUME NEW t \in Tickets, DeleteCard(t) PROVE CardSafe'
  <2>1. \A q \in Procs : Kept(q)
    BY <1>31 DEF DeleteCard, Kept, taskVars
  <2>2. Timers'
    BY <1>31, <2>1 DEF DeleteCard, Timers, Timer, Kept, Procs, memory
  <2>3. \A u \in Tickets : /\ room'[u].is = room[u].is
                           /\ room[u].cards = {} => room'[u].cards = {}
    BY <1>31 DEF DeleteCard, Gone, WorldTyped, RoomRows
  <2> QED
    BY <1>31, <2>2, <2>3, Astray DEF DeleteCard, RestTyped, store
<1>32. ASSUME Crash PROVE CardSafe'
  <2>1. Timers'
    BY <1>32 DEF Crash, Timers, Timer, Procs
  <2> QED
    BY <1>32, <2>1, Astray DEF Crash, RestTyped, store, discord
<1>33. ASSUME NEW p \in Procs, Make(p) PROVE CardSafe'
  BY <1>33, MakeKeeps
<1>34. ASSUME NEW p \in Procs, Drop(p) PROVE CardSafe'
  BY <1>34, DropKeeps
<1>35. ASSUME NEW p \in Procs, SetCard(p) PROVE CardSafe'
  BY <1>35, SetCardKeeps
<1>36. ASSUME NEW p \in Procs, DropOld(p) PROVE CardSafe'
  BY <1>36, DropOldKeeps
<1>37. ASSUME NEW p \in Procs, Bumped(p) PROVE CardSafe'
  BY <1>37, BumpedKeeps
<1>38. ASSUME NEW p \in Procs, Send(p) PROVE CardSafe'
  <2>1. CASE ticket[mine[p].t].placed /\ Stands(mine[p].t)
    BY <1>38, <2>1, SendKeeps
  <2>2. CASE ~(ticket[mine[p].t].placed /\ Stands(mine[p].t))
    <3>1. /\ pc[p] = "send" /\ (p \in Tickets => mine[p].t = p) /\ Moved(p)
          /\ UNCHANGED <<ticket, room, dirty, mishaps>>
      BY <1>38, <2>2 DEF Send, Timers, Timer, store
    <3>2. /\ \A q \in Procs : q # p => Kept(q)
          /\ pc'[p] \in {"sleep", "idle"}
          /\ p \in Tickets => Timer(p)'
      BY <3>1, MovedOn
    <3>3. Beside
      BY <3>1 DEF Beside, Shown, Stands
    <3>4. Hand(p)'
      BY <3>2 DEF Hand, Holding
    <3>5. \A t \in Tickets : Onward(p, t)
      BY <2>2, <3>1, <3>2 DEF Onward, Brings, Shown, Stands
    <3> QED
      BY <3>1, <3>2, <3>3, <3>4, <3>5, Aside
  <2> QED
    BY <2>1, <2>2
<1>39. ASSUME NEW p \in Procs, Remove(p) PROVE CardSafe'
  <2>1. pc[p] = "remove" /\ p \notin Tickets /\ Finish(p) /\ UNCHANGED <<ticket, dirty>>
    BY <1>39 DEF Remove, Timers, Timer, store
  <2>2. \A q \in Procs : q # p => Kept(q)
    BY <2>1 DEF Finish, Kept, PlaceTyped
  <2>3. PICK t \in Tickets : t = mine[p].t
    BY <2>1 DEF Paths, Way
  <2>4. ticket[t].status = "closed"
    BY <2>1, <2>3 DEF Knowledge, Knows
  <2>5. CASE Mishap /\ UNCHANGED room
    <3>1. Timers'
      BY <2>1, <2>2, TimersStay
    <3> QED
      BY <2>1, <2>5, <3>1, Astray DEF RestTyped
  <2>6. CASE /\ UNCHANGED mishaps
             /\ room' = [room EXCEPT ![t] =
                           IF @.is = "there" THEN [NoRoom EXCEPT !.is = "removed"] ELSE @]
    <3>1. /\ \A u \in Tickets : u # t => room'[u] = room[u]
          /\ \/ room'[t].cards = {} /\ room'[t].is = "removed"
             \/ room'[t] = room[t] /\ room'[t].is # "there"
      BY <2>3, <2>6 DEF WorldTyped, RoomRows, NoRoom
    <3>2. Beside
      BY <2>1, <2>4, <3>1 DEF Beside, Shown, Stands
    <3>3. pc'[p] = "idle"
      BY <2>1 DEF Finish, PlaceTyped
    <3>4. Hand(p)'
      BY <3>3 DEF Hand, Holding
    <3>5. \A u \in Tickets : Onward(p, u)
      BY <2>1, <2>4, <3>1 DEF Onward, Brings, Shown
    <3> QED
      BY <2>1, <2>2, <2>6, <3>2, <3>4, <3>5, Aside
  <2> QED
    BY <1>39, <2>3, <2>5, <2>6 DEF Remove
<1> QED
  BY <1>1, <1>2, <1>3, <1>4, <1>5, <1>6, <1>7, <1>8, <1>9, <1>10, <1>11, <1>12, <1>13, <1>14,
     <1>15, <1>16, <1>17, <1>18, <1>19, <1>20, <1>21, <1>22, <1>23, <1>24, <1>25, <1>26, <1>27,
     <1>28, <1>29, <1>30, <1>31, <1>32, <1>33, <1>34, <1>35, <1>36, <1>37, <1>38, <1>39, <1>40
     DEF Next, Start, Enter, Refusal, Proceed, Recheck

\* OneCardAndLast with what it rests on.
LEMMA CardsHold == Spec => [](Safe /\ CardSafe)
<1>1. Init => Safe /\ CardSafe
  <2>1. ASSUME Init PROVE CardSafe
    <3>1. Timers /\ Unopened
      BY <2>1, Names DEF Init, Timers, Timer, Unopened, NoRow, NoRoom
    <3>2. \A p \in Procs : Hand(p)
      BY <2>1 DEF Init, Hand, Holding
    <3>3. \A t \in Tickets : Plain(t) /\ Bottom(t)
      BY <2>1 DEF Init, Plain, Bottom, Shown, NoRow
    <3> QED
      BY <3>1, <3>2, <3>3 DEF CardSafe, Carried
  <2> QED
    BY <2>1, SafeInit
<1>2. Safe /\ CardSafe /\ [Next]_vars => (Safe /\ CardSafe)'
  BY SafeStep, CardStep DEF Safe
<1> QED
  BY <1>1, <1>2, PTL DEF Spec

\* However writes, moves of the card, the sweep and the closing of the ticket overlap: when
\* nobody is at the ticket its card is the only one, and no message the ticket keeps stands
\* below it, for any number of tasks, tickets and words; as long as nothing was refused,
\* deleted or restarted.
THEOREM CardStaysLast == Spec => []OneCardAndLast
<1>1. TypeOK /\ CardSafe => OneCardAndLast
  <2> SUFFICES ASSUME TypeOK, CardSafe, mishaps = 0, NEW t \in Tickets,
                      ticket[t].status = "open", ticket[t].placed, Stands(t), Quiet(t)
               PROVE  room[t].cards = {ticket[t].card} /\ room[t].last \in {ticket[t].card, Stray}
    BY DEF OneCardAndLast
  <2>1. t \in Procs /\ pc[t] = "idle" /\ t \notin dirty
    BY Names DEF Quiet, CardSafe, Timers, Timer
  <2>2. \A p \in Procs : ~Brings(p, t) /\ ~Sent(p, t)
    BY <2>1 DEF Quiet, Brings, Sent
  <2>3. room[t].last \in {ticket[t].card, Stray} /\ ticket[t].card # NoCard
    BY <2>2 DEF CardSafe, Carried, Bottom, Shown
  <2>4. room[t].cards = Named(t)
    BY DEF CardSafe, Carried, Plain, Shown, Quiet
  <2> QED
    BY <2>3, <2>4 DEF Named
<1>2. Safe => TypeOK
  BY DEF Safe
<1> QED
  BY <1>1, <1>2, CardsHold, PTL
================================================================================
