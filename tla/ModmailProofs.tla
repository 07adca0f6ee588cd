----------------------------- MODULE ModmailProofs -----------------------------
(* The member's lock, and what it keeps of a ticket: one is open at a time, its *)
(* transcript has every word, and a closed one has no card; however many doors, *)
(* staff, tickets and mishaps there are.                                        *)
EXTENDS Modmail, TLAPS

TicketRows == [status : {"none", "open", "closed"}, placed : BOOLEAN, aged : BOOLEAN,
               card : CardIds \cup {NoCard}]
RoomRows   == [is : {"none", "there", "gone", "removed"}, cards : SUBSET CardIds,
               last : CardIds \cup {NoCard, Stray}]
Minds      == [t : 0..MaxTickets, card : CardIds \cup {NoCard},
               new : CardIds \cup {NoCard}, words : Nat]

WorldTyped == /\ ticket \in [Tickets -> TicketRows] /\ words \in [Tickets -> Nat]
              /\ room \in [Tickets -> RoomRows]
              /\ logged \in [Tickets -> [times : Nat, words : Nat]]
PlaceTyped == /\ pc \in [Procs -> Labels]
              /\ op \in [Procs -> AllOperations \cup {"none", "sweep"}]
              /\ mine \in [Procs -> Minds]
TasksTyped == PlaceTyped /\ lock \in Procs \cup {Nobody}
RestTyped  == /\ dirty \subseteq Tickets /\ notices \subseteq Tickets
              /\ strikes \in [Tickets -> 0..(Strikes - 1)]
              /\ mishaps \in 0..MaxMishaps

\* Where a task holds the member's lock.
Writing == {"create", "make", "abandon", "place", "header", "record", "drop", "dropOld",
            "read", "mark", "transcript", "remove", "send", "setCard"}
Holds(p) == pc[p] \in Writing \/ (pc[p] \in {"relay", "bump"} /\ op[p] = "ask")
Locked   == \A p \in Procs : Holds(p) <=> lock = p

\* What a task is doing where it stands.
Way(p) == /\ pc[p] \notin {"idle", "ask", "create", "sleep"} => mine[p].t \in Tickets
          /\ pc[p] \in {"ask", "create", "make", "abandon", "place", "header", "record"}
                 => op[p] = "ask"
          /\ pc[p] \in {"close", "drop", "read", "mark", "transcript", "remove"}
                 => op[p] = "close"
          /\ pc[p] \in {"relay", "bump"} => op[p] \in {"ask", "write"}
          /\ pc[p] \in {"idle", "sleep", "look", "card", "send", "setCard", "resolve"}
                 => op[p] \in {"none", "sweep"}
          /\ p \in Tickets => op[p] = "none"
          /\ pc[p] = "sleep" => p \in Tickets
Paths == \A p \in Procs : Way(p)

\* What a ticket's row says of its card, its transcript and its room.
Row(t) == /\ ticket[t].status # "open" => ticket[t].card = NoCard
          /\ ticket[t].status # "closed" => logged[t].times = 0 /\ room[t].is # "removed"
World == (\A t \in Tickets : Row(t)) /\ OneOpenTicket /\ EveryWordIsKept

\* What a task that holds the lock knows of the ticket it is at.
Knows(p) ==
    /\ pc[p] = "create" => Open = {}
    /\ \/ pc[p] \in {"make", "abandon", "place", "header", "record", "drop", "read", "mark",
                     "send", "setCard"}
       \/ pc[p] = "dropOld" /\ op[p] = "close"
       => ticket[mine[p].t].status = "open"
    /\ \/ pc[p] \in {"make", "abandon", "read", "mark"}
       \/ pc[p] = "dropOld" /\ op[p] = "close"
       => ticket[mine[p].t].card = NoCard
    /\ pc[p] \in {"mark", "transcript"} => mine[p].words = words[mine[p].t]
    /\ pc[p] = "transcript" => ticket[mine[p].t].status = "closed" /\ logged[mine[p].t].times = 0
    /\ pc[p] = "remove" => /\ ticket[mine[p].t].status = "closed"
                           /\ logged[mine[p].t] = [times |-> 1, words |-> words[mine[p].t]]
Knowledge == \A p \in Procs : Knows(p)

-------------------------------------------------------------------------------
(* Types.                                                                      *)

\* TypeOK in its parts.
LEMMA TypeOKParts == TypeOK <=> WorldTyped /\ TasksTyped /\ RestTyped
  BY DEF TypeOK, WorldTyped, TasksTyped, PlaceTyped, RestTyped, TicketRows, RoomRows, Minds

\* The lock has no name of a process, the sweep none of a ticket.
LEMMA Names == /\ Nobody \notin Procs /\ Sweep \in Procs /\ Sweep \notin Tickets
               /\ \A p \in Tasks : p \notin Tickets
               /\ Tickets \subseteq Procs /\ Tickets \subseteq 0..MaxTickets
               /\ 0 \in 0..MaxTickets /\ NoCard \notin CardIds
  BY ModmailAssumption DEF Procs, Tickets, Nobody, NoCard, CardIds

\* What nobody has in mind, and what there is before there is anything.
LEMMA Blank == NoRow \in TicketRows /\ NoRoom \in RoomRows /\ Nothing \in Minds
  BY Names DEF NoRow, NoRoom, Nothing, TicketRows, RoomRows, Minds

\* What the statements make of a ticket's row,
LEMMA Written ==
    ASSUME WorldTyped
    PROVE  \A t \in 0..MaxTickets :
             /\ \A s \in {"none", "open", "closed"} :
                  [ticket EXCEPT ![t].status = s] \in [Tickets -> TicketRows]
             /\ [ticket EXCEPT ![t].placed = TRUE] \in [Tickets -> TicketRows]
             /\ [ticket EXCEPT ![t].aged = TRUE] \in [Tickets -> TicketRows]
             /\ \A c \in CardIds \cup {NoCard} :
                  [ticket EXCEPT ![t].card = c] \in [Tickets -> TicketRows]
<1> SUFFICES ASSUME NEW t \in 0..MaxTickets
             PROVE  /\ \A s \in {"none", "open", "closed"} :
                         [ticket EXCEPT ![t].status = s] \in [Tickets -> TicketRows]
                    /\ [ticket EXCEPT ![t].placed = TRUE] \in [Tickets -> TicketRows]
                    /\ [ticket EXCEPT ![t].aged = TRUE] \in [Tickets -> TicketRows]
                    /\ \A c \in CardIds \cup {NoCard} :
                         [ticket EXCEPT ![t].card = c] \in [Tickets -> TicketRows]
  OBVIOUS
<1>1. ASSUME NEW s \in {"none", "open", "closed"}
      PROVE  [ticket EXCEPT ![t].status = s] \in [Tickets -> TicketRows]
  BY DEF WorldTyped, TicketRows
<1>2. [ticket EXCEPT ![t].placed = TRUE] \in [Tickets -> TicketRows]
  BY DEF WorldTyped, TicketRows
<1>3. [ticket EXCEPT ![t].aged = TRUE] \in [Tickets -> TicketRows]
  BY DEF WorldTyped, TicketRows
<1>4. ASSUME NEW c \in CardIds \cup {NoCard}
      PROVE  [ticket EXCEPT ![t].card = c] \in [Tickets -> TicketRows]
  BY DEF WorldTyped, TicketRows
<1> QED
  BY <1>1, <1>2, <1>3, <1>4

\* the member's words, the log,
LEMMA Counted ==
    ASSUME WorldTyped
    PROVE  \A t :
             /\ [words EXCEPT ![t] = @ + 1] \in [Tickets -> Nat]
             /\ \A w \in Nat :
                  [logged EXCEPT ![t] = [times |-> @.times + 1, words |-> w]]
                      \in [Tickets -> [times : Nat, words : Nat]]
<1> SUFFICES ASSUME NEW t
             PROVE  /\ [words EXCEPT ![t] = @ + 1] \in [Tickets -> Nat]
                    /\ \A w \in Nat :
                         [logged EXCEPT ![t] = [times |-> @.times + 1, words |-> w]]
                             \in [Tickets -> [times : Nat, words : Nat]]
  OBVIOUS
<1>1. [words EXCEPT ![t] = @ + 1] \in [Tickets -> Nat]
  <2>1. t \in Tickets => words[t] + 1 \in Nat
    BY DEF WorldTyped
  <2> QED
    BY <2>1 DEF WorldTyped
<1>2. ASSUME NEW w \in Nat
      PROVE  [logged EXCEPT ![t] = [times |-> @.times + 1, words |-> w]]
                 \in [Tickets -> [times : Nat, words : Nat]]
  <2>1. t \in Tickets => logged[t].times \in Nat
    BY DEF WorldTyped
  <2>2. t \in Tickets => [times |-> logged[t].times + 1, words |-> w]
                             \in [times : Nat, words : Nat]
    BY <2>1
  <2> QED
    BY <2>2 DEF WorldTyped
<1> QED
  BY <1>1, <1>2

\* the passes that find it,
LEMMA Struck ==
    ASSUME RestTyped
    PROVE  \A t : [strikes EXCEPT ![t] = 0] \in [Tickets -> 0..(Strikes - 1)]
<1> DEFINE Counts == 0..(Strikes - 1)
<1>1. strikes \in [Tickets -> Counts] /\ 0 \in Counts
  BY DEF RestTyped, Strikes
<1> HIDE DEF Counts
<1>2. ASSUME NEW t PROVE [strikes EXCEPT ![t] = 0] \in [Tickets -> Counts]
  BY <1>1
<1> QED
  BY <1>2 DEF Counts

\* the calls of its room,
LEMMA Roomed ==
    ASSUME WorldTyped
    PROVE  \A t \in 0..MaxTickets :
             /\ [room EXCEPT ![t].is = "there"] \in [Tickets -> RoomRows]
             /\ \A s \in {"gone", "removed"} :
                  [room EXCEPT ![t] = [NoRoom EXCEPT !.is = s]] \in [Tickets -> RoomRows]
             /\ \A c \in CardIds \cup {NoCard} :
                  (Speaks(t, c) \/ Gone(t, c)) => room' \in [Tickets -> RoomRows]
<1> SUFFICES ASSUME NEW t \in 0..MaxTickets
             PROVE  /\ [room EXCEPT ![t].is = "there"] \in [Tickets -> RoomRows]
                    /\ \A s \in {"gone", "removed"} :
                         [room EXCEPT ![t] = [NoRoom EXCEPT !.is = s]] \in [Tickets -> RoomRows]
                    /\ \A c \in CardIds \cup {NoCard} :
                         (Speaks(t, c) \/ Gone(t, c)) => room' \in [Tickets -> RoomRows]
  OBVIOUS
<1>1. [room EXCEPT ![t].is = "there"] \in [Tickets -> RoomRows]
  BY DEF WorldTyped, RoomRows
<1>2. ASSUME NEW s \in {"gone", "removed"}
      PROVE  [room EXCEPT ![t] = [NoRoom EXCEPT !.is = s]] \in [Tickets -> RoomRows]
  <2>1. [NoRoom EXCEPT !.is = s] \in RoomRows
    BY <1>2, Blank DEF NoRoom, RoomRows
  <2> QED
    BY <2>1 DEF WorldTyped
<1>3. ASSUME NEW c \in CardIds \cup {NoCard}, Speaks(t, c) PROVE room' \in [Tickets -> RoomRows]
  <2>1. CASE room' = room
    BY <2>1 DEF WorldTyped
  <2>2. CASE room' # room
    <3> DEFINE cards == IF c = NoCard THEN room[t].cards ELSE room[t].cards \cup {c}
    <3>1. room' = [room EXCEPT ![t] = [room[t] EXCEPT !.last = c, !.cards = cards]]
      BY <1>3, <2>2 DEF Speaks
    <3>2. t \in Tickets => [room[t] EXCEPT !.last = c, !.cards = cards] \in RoomRows
      BY DEF WorldTyped, RoomRows
    <3> QED
      BY <3>1, <3>2 DEF WorldTyped
  <2> QED
    BY <2>1, <2>2
<1>4. ASSUME NEW c \in CardIds \cup {NoCard}, Gone(t, c) PROVE room' \in [Tickets -> RoomRows]
  <2> DEFINE last == IF room[t].last = c THEN NoCard ELSE room[t].last
  <2>1. room' = [room EXCEPT ![t] = [room[t] EXCEPT !.cards = @ \ {c}, !.last = last]]
    BY <1>4 DEF Gone
  <2>2. t \in Tickets => [room[t] EXCEPT !.cards = @ \ {c}, !.last = last] \in RoomRows
    BY DEF WorldTyped, RoomRows
  <2> QED
    BY <2>1, <2>2 DEF WorldTyped
<1> QED
  BY <1>1, <1>2, <1>3, <1>4

\* and a task of what it read.
LEMMA Minded ==
    ASSUME PlaceTyped
    PROVE  \A p \in Procs :
             /\ [mine EXCEPT ![p] = Nothing] \in [Procs -> Minds]
             /\ \A t \in 0..MaxTickets :
                  /\ [mine EXCEPT ![p].t = t] \in [Procs -> Minds]
                  /\ \A c \in CardIds \cup {NoCard} :
                       [mine EXCEPT ![p].t = t, ![p].card = c] \in [Procs -> Minds]
             /\ \A c \in CardIds \cup {NoCard} :
                  /\ [mine EXCEPT ![p].card = c] \in [Procs -> Minds]
                  /\ [mine EXCEPT ![p].new = c] \in [Procs -> Minds]
             /\ \A w \in Nat : [mine EXCEPT ![p].words = w] \in [Procs -> Minds]
<1> SUFFICES ASSUME NEW p \in Procs
             PROVE  /\ [mine EXCEPT ![p] = Nothing] \in [Procs -> Minds]
                    /\ \A t \in 0..MaxTickets :
                         /\ [mine EXCEPT ![p].t = t] \in [Procs -> Minds]
                         /\ \A c \in CardIds \cup {NoCard} :
                              [mine EXCEPT ![p].t = t, ![p].card = c] \in [Procs -> Minds]
                    /\ \A c \in CardIds \cup {NoCard} :
                         /\ [mine EXCEPT ![p].card = c] \in [Procs -> Minds]
                         /\ [mine EXCEPT ![p].new = c] \in [Procs -> Minds]
                    /\ \A w \in Nat : [mine EXCEPT ![p].words = w] \in [Procs -> Minds]
  OBVIOUS
<1>1. [mine EXCEPT ![p] = Nothing] \in [Procs -> Minds]
  BY Blank DEF PlaceTyped
<1>2. ASSUME NEW t \in 0..MaxTickets
      PROVE  /\ [mine EXCEPT ![p].t = t] \in [Procs -> Minds]
             /\ \A c \in CardIds \cup {NoCard} :
                  [mine EXCEPT ![p].t = t, ![p].card = c] \in [Procs -> Minds]
  <2>1. [mine EXCEPT ![p].t = t] \in [Procs -> Minds]
    BY DEF PlaceTyped, Minds
  <2>2. ASSUME NEW c \in CardIds \cup {NoCard}
        PROVE  [mine EXCEPT ![p].t = t, ![p].card = c] \in [Procs -> Minds]
    <3>1. [mine[p] EXCEPT !.t = t, !.card = c] \in Minds
      BY DEF PlaceTyped, Minds
    <3>2. [mine EXCEPT ![p] = [mine[p] EXCEPT !.t = t, !.card = c]] \in [Procs -> Minds]
      BY <3>1 DEF PlaceTyped
    <3>3. [mine EXCEPT ![p].t = t, ![p].card = c]
              = [mine EXCEPT ![p] = [mine[p] EXCEPT !.t = t, !.card = c]]
      BY DEF PlaceTyped
    <3> QED
      BY <3>2, <3>3
  <2> QED
    BY <2>1, <2>2
<1>3. ASSUME NEW c \in CardIds \cup {NoCard}
      PROVE  /\ [mine EXCEPT ![p].card = c] \in [Procs -> Minds]
             /\ [mine EXCEPT ![p].new = c] \in [Procs -> Minds]
  <2>1. [mine EXCEPT ![p].card = c] \in [Procs -> Minds]
    BY DEF PlaceTyped, Minds
  <2>2. [mine EXCEPT ![p].new = c] \in [Procs -> Minds]
    BY DEF PlaceTyped, Minds
  <2> QED
    BY <2>1, <2>2
<1>4. ASSUME NEW w \in Nat PROVE [mine EXCEPT ![p].words = w] \in [Procs -> Minds]
  BY DEF PlaceTyped, Minds
<1> QED
  BY <1>1, <1>2, <1>3, <1>4

\* A task that goes on keeps its types,
LEMMA GoTyped ==
    ASSUME PlaceTyped
    PROVE  \A p \in Procs :
             /\ \A label \in Labels : [pc EXCEPT ![p] = label] \in [Procs -> Labels]
             /\ \A o \in AllOperations \cup {"none", "sweep"} :
                  [op EXCEPT ![p] = o] \in [Procs -> AllOperations \cup {"none", "sweep"}]
  BY DEF PlaceTyped

\* and one that is over, or whose card has moved.
LEMMA FinishTyped ==
    ASSUME PlaceTyped, NEW p \in Procs, Finish(p) \/ Moved(p)
    PROVE  PlaceTyped'
<1>1. CASE Finish(p)
  BY <1>1, Minded, GoTyped DEF PlaceTyped, Finish, Labels
<1>2. CASE ~Finish(p)
  <2>1. Goto(p, "sleep") /\ UNCHANGED op /\ mine' = [mine EXCEPT ![p] = Nothing]
    BY <1>2 DEF Moved
  <2> QED
    BY <2>1, Minded, GoTyped DEF PlaceTyped, Goto, Labels
<1> QED
  BY <1>1, <1>2

\* and the lock one who may hold it.
LEMMA LeaveTyped ==
    ASSUME TasksTyped
    PROVE  \A p \in Procs : Leave(p) => lock' \in Procs \cup {Nobody}
  BY DEF TasksTyped, Leave

\* Everything is of its type to begin with,
LEMMA TypeOKInit == Init => TypeOK
  BY Blank, Names, ModmailAssumption
     DEF Init, TypeOK, TicketRows, RoomRows, Minds, Labels, Strikes

\* and stays so.
LEMMA TypeOKStep == TypeOK /\ Paths /\ [Next]_vars => TypeOK'
<1> SUFFICES ASSUME WorldTyped, TasksTyped, RestTyped, Paths, [Next]_vars
             PROVE  WorldTyped' /\ TasksTyped' /\ RestTyped'
  BY TypeOKParts DEF TypeOK, WorldTyped, TasksTyped, PlaceTyped, RestTyped, TicketRows, RoomRows,
         Minds
<1>1. ASSUME NEW p \in Procs, Ask(p) PROVE WorldTyped' /\ TasksTyped' /\ RestTyped'
  <2>1. WorldTyped'
    BY <1>1 DEF Ask, store, discord, WorldTyped
  <2>2. TasksTyped'
    <3>1. lock' \in Procs \cup {Nobody}
      BY <1>1 DEF Ask, TasksTyped, memory
    <3>2. PlaceTyped'
      <4>1. pc' \in [Procs -> Labels]
        BY <1>1, GoTyped DEF Ask, TasksTyped, Goto, Labels, PlaceTyped, taskVars
      <4>2. op' \in [Procs -> AllOperations \cup {"none", "sweep"}]
        BY <1>1, GoTyped DEF Ask, TasksTyped, AllOperations, PlaceTyped, taskVars
      <4>3. mine' \in [Procs -> Minds]
        BY <1>1, Minded, Names DEF Ask, TasksTyped, PlaceTyped, taskVars
      <4> QED
        BY <4>1, <4>2, <4>3 DEF PlaceTyped
    <3> QED
      BY <3>1, <3>2 DEF TasksTyped
  <2>3. RestTyped'
    BY <1>1 DEF Ask, memory, RestTyped
  <2> QED
    BY <2>1, <2>2, <2>3
<1>2. ASSUME NEW p \in Procs, Pick(p) PROVE WorldTyped' /\ TasksTyped' /\ RestTyped'
  <2>1. WorldTyped'
    BY <1>2 DEF Pick, store, discord, WorldTyped
  <2>2. TasksTyped'
    <3>1. lock' \in Procs \cup {Nobody}
      BY <1>2 DEF Pick, TasksTyped, memory
    <3>2. PlaceTyped'
      <4>1. pc' \in [Procs -> Labels]
        BY <1>2, GoTyped DEF Pick, TasksTyped, Goto, Labels, PlaceTyped, taskVars
      <4>2. op' \in [Procs -> AllOperations \cup {"none", "sweep"}]
        BY <1>2, GoTyped DEF Pick, TasksTyped, AllOperations, PlaceTyped, taskVars
      <4>3. mine' \in [Procs -> Minds]
        <5>1. PICK t \in Tickets : mine' = [mine EXCEPT ![p].t = t]
          BY <1>2 DEF Pick, Open
        <5> QED
          BY <5>1, Names, Minded DEF TasksTyped, PlaceTyped, Minds
      <4> QED
        BY <4>1, <4>2, <4>3 DEF PlaceTyped
    <3> QED
      BY <3>1, <3>2 DEF TasksTyped
  <2>3. RestTyped'
    BY <1>2 DEF Pick, memory, RestTyped
  <2> QED
    BY <2>1, <2>2, <2>3
<1>3. ASSUME NEW p \in Procs, Note(p) PROVE WorldTyped' /\ TasksTyped' /\ RestTyped'
  <2>1. WorldTyped'
    BY <1>3, Names, Roomed DEF Note, TasksTyped, PlaceTyped, Minds, Open, store, discord, WorldTyped
  <2>2. TasksTyped'
    <3>1. lock' \in Procs \cup {Nobody}
      BY <1>3 DEF Note, TasksTyped, memory
    <3>2. PlaceTyped'
      <4>1. pc' \in [Procs -> Labels]
        BY <1>3, GoTyped DEF Note, TasksTyped, Goto, Labels, PlaceTyped, taskVars
      <4>2. op' \in [Procs -> AllOperations \cup {"none", "sweep"}]
        BY <1>3, GoTyped DEF Note, TasksTyped, AllOperations, PlaceTyped, taskVars
      <4>3. mine' \in [Procs -> Minds]
        <5>1. PICK t \in Tickets : mine' = [mine EXCEPT ![p].t = t]
          BY <1>3 DEF Note, Open
        <5> QED
          BY <5>1, Names, Minded DEF TasksTyped, PlaceTyped, Minds
      <4> QED
        BY <4>1, <4>2, <4>3 DEF PlaceTyped
    <3> QED
      BY <3>1, <3>2 DEF TasksTyped
  <2>3. RestTyped'
    BY <1>3 DEF Note, memory, RestTyped
  <2> QED
    BY <2>1, <2>2, <2>3
<1>4. ASSUME NEW p \in Procs, Notice(p) PROVE WorldTyped' /\ TasksTyped' /\ RestTyped'
  <2>1. WorldTyped'
    BY <1>4 DEF Notice, store, discord, WorldTyped
  <2>2. TasksTyped'
    <3>1. lock' \in Procs \cup {Nobody}
      BY <1>4 DEF Notice, TasksTyped, memory
    <3>2. PlaceTyped'
      <4>1. pc' \in [Procs -> Labels]
        BY <1>4, GoTyped DEF Notice, TasksTyped, Goto, Labels, PlaceTyped, taskVars
      <4>2. op' \in [Procs -> AllOperations \cup {"none", "sweep"}]
        BY <1>4, GoTyped DEF Notice, TasksTyped, AllOperations, PlaceTyped, taskVars
      <4>3. mine' \in [Procs -> Minds]
        <5>1. CASE mine' = mine
          BY <5>1 DEF TasksTyped, PlaceTyped
        <5>2. CASE mine' # mine
          <6>1. PICK t \in Tickets : mine' = [mine EXCEPT ![p].t = t]
            BY <5>2, <1>4 DEF Notice, RestTyped, taskVars
          <6> QED
            BY <6>1, Names, Minded DEF TasksTyped, PlaceTyped, Minds
        <5> QED
          BY <5>1, <5>2
      <4> QED
        BY <4>1, <4>2, <4>3 DEF PlaceTyped
    <3> QED
      BY <3>1, <3>2 DEF TasksTyped
  <2>3. RestTyped'
    BY <1>4 DEF Notice, memory, RestTyped
  <2> QED
    BY <2>1, <2>2, <2>3
<1>5. ASSUME NEW p \in Procs, LockAsk(p) PROVE WorldTyped' /\ TasksTyped' /\ RestTyped'
  <2>1. WorldTyped'
    BY <1>5 DEF LockAsk, store, discord, WorldTyped
  <2>2. TasksTyped'
    <3>1. lock' \in Procs \cup {Nobody}
      BY <1>5 DEF LockAsk, TasksTyped, memory
    <3>2. PlaceTyped'
      <4>1. CASE Finish(p)
        BY <4>1, FinishTyped DEF TasksTyped
      <4>2. CASE ~Finish(p)
        <5>1. pc' \in [Procs -> Labels]
          BY <4>2, <1>5, GoTyped DEF LockAsk, TasksTyped, Goto, Labels, PlaceTyped, taskVars
        <5>2. op' \in [Procs -> AllOperations \cup {"none", "sweep"}]
          BY <4>2, <1>5, GoTyped DEF LockAsk, TasksTyped, AllOperations, PlaceTyped, taskVars
        <5>3. mine' \in [Procs -> Minds]
          <6>1. CASE mine' = mine
            BY <6>1 DEF TasksTyped, PlaceTyped
          <6>2. CASE mine' # mine
            <7>1. PICK t \in Tickets : mine' = [mine EXCEPT ![p].t = t]
              BY <4>2, <6>2, <1>5 DEF LockAsk, Open
            <7> QED
              BY <7>1, Names, Minded DEF TasksTyped, PlaceTyped, Minds
          <6> QED
            BY <6>1, <6>2
        <5> QED
          BY <5>1, <5>2, <5>3 DEF PlaceTyped
      <4> QED
        BY <4>1, <4>2
    <3> QED
      BY <3>1, <3>2 DEF TasksTyped
  <2>3. RestTyped'
    BY <1>5 DEF LockAsk, memory, RestTyped
  <2> QED
    BY <2>1, <2>2, <2>3
<1>6. ASSUME NEW p \in Procs, LockClose(p) PROVE WorldTyped' /\ TasksTyped' /\ RestTyped'
  <2>1. WorldTyped'
    BY <1>6 DEF LockClose, store, discord, WorldTyped
  <2>2. TasksTyped'
    <3>1. lock' \in Procs \cup {Nobody}
      BY <1>6 DEF LockClose, TasksTyped, memory
    <3>2. PlaceTyped'
      <4>1. CASE Finish(p)
        BY <4>1, FinishTyped DEF TasksTyped
      <4>2. CASE ~Finish(p)
        <5>1. pc' \in [Procs -> Labels]
          BY <4>2, <1>6, GoTyped DEF LockClose, TasksTyped, Goto, Labels, PlaceTyped, taskVars
        <5>2. op' \in [Procs -> AllOperations \cup {"none", "sweep"}]
          BY <4>2, <1>6, GoTyped DEF LockClose, TasksTyped, AllOperations, PlaceTyped, taskVars
        <5>3. mine' \in [Procs -> Minds]
          <6>1. mine' = [mine EXCEPT ![p].card = ticket[mine[p].t].card]
            BY <4>2, <1>6 DEF LockClose
          <6>2. ticket[mine[p].t].card \in CardIds \cup {NoCard}
            BY <1>6 DEF LockClose, Paths, Way, WorldTyped, TicketRows
          <6> QED
            BY <6>1, <6>2, Minded DEF TasksTyped
        <5> QED
          BY <5>1, <5>2, <5>3 DEF PlaceTyped
      <4> QED
        BY <4>1, <4>2
    <3> QED
      BY <3>1, <3>2 DEF TasksTyped
  <2>3. RestTyped'
    BY <1>6 DEF LockClose, memory, RestTyped
  <2> QED
    BY <2>1, <2>2, <2>3
<1>7. ASSUME NEW p \in Procs, LockCard(p) PROVE WorldTyped' /\ TasksTyped' /\ RestTyped'
  <2>1. WorldTyped'
    BY <1>7 DEF LockCard, store, discord, WorldTyped
  <2>2. TasksTyped'
    <3>1. lock' \in Procs \cup {Nobody}
      BY <1>7 DEF LockCard, TasksTyped, memory
    <3>2. PlaceTyped'
      <4>1. CASE Moved(p)
        BY <4>1, FinishTyped DEF TasksTyped
      <4>2. CASE ~Moved(p)
        <5>1. pc' \in [Procs -> Labels]
          BY <4>2, <1>7, GoTyped DEF LockCard, TasksTyped, Moved, Goto, Labels, PlaceTyped, taskVars
        <5>2. op' \in [Procs -> AllOperations \cup {"none", "sweep"}]
          BY <4>2, <1>7, GoTyped
             DEF LockCard, TasksTyped, Moved, AllOperations, PlaceTyped, taskVars
        <5>3. mine' \in [Procs -> Minds]
          <6>1. CASE mine' = mine
            BY <6>1 DEF TasksTyped, PlaceTyped
          <6>2. CASE mine' # mine
            <7>1. mine' = [mine EXCEPT ![p].card = ticket[mine[p].t].card]
              BY <4>2, <6>2, <1>7 DEF LockCard
            <7>2. ticket[mine[p].t].card \in CardIds \cup {NoCard}
              BY <1>7 DEF LockCard, Paths, Way, WorldTyped, TicketRows
            <7> QED
              BY <7>1, <7>2, Minded DEF TasksTyped
          <6> QED
            BY <6>1, <6>2
        <5> QED
          BY <5>1, <5>2, <5>3 DEF PlaceTyped
      <4> QED
        BY <4>1, <4>2
    <3> QED
      BY <3>1, <3>2 DEF TasksTyped
  <2>3. RestTyped'
    BY <1>7 DEF LockCard, memory, RestTyped
  <2> QED
    BY <2>1, <2>2, <2>3
<1>8. ASSUME NEW p \in Procs, MakeRefused(p) PROVE WorldTyped' /\ TasksTyped' /\ RestTyped'
  <2>1. WorldTyped'
    BY <1>8 DEF MakeRefused, store, discord, WorldTyped
  <2>2. TasksTyped'
    <3>1. lock' \in Procs \cup {Nobody}
      BY <1>8 DEF MakeRefused, TasksTyped, memory
    <3>2. PlaceTyped'
      <4>1. pc' \in [Procs -> Labels]
        BY <1>8, GoTyped DEF MakeRefused, TasksTyped, Goto, Labels, PlaceTyped, taskVars
      <4>2. op' \in [Procs -> AllOperations \cup {"none", "sweep"}]
        BY <1>8, GoTyped DEF MakeRefused, TasksTyped, AllOperations, PlaceTyped, taskVars
      <4>3. mine' \in [Procs -> Minds]
        BY <1>8, Minded, Names DEF MakeRefused, TasksTyped, PlaceTyped, taskVars
      <4> QED
        BY <4>1, <4>2, <4>3 DEF PlaceTyped
    <3> QED
      BY <3>1, <3>2 DEF TasksTyped
  <2>3. RestTyped'
    BY <1>8, ModmailAssumption DEF MakeRefused, memory, RestTyped, Mishap
  <2> QED
    BY <2>1, <2>2, <2>3
<1>9. ASSUME NEW p \in Procs, RelayRefused(p) PROVE WorldTyped' /\ TasksTyped' /\ RestTyped'
  <2>1. WorldTyped'
    BY <1>9 DEF RelayRefused, store, discord, WorldTyped
  <2>2. TasksTyped'
    <3>1. lock' \in Procs \cup {Nobody}
      BY <1>9 DEF RelayRefused, TasksTyped, memory
    <3>2. PlaceTyped'
      <4>1. pc' \in [Procs -> Labels]
        BY <1>9, GoTyped DEF RelayRefused, TasksTyped, Goto, Labels, PlaceTyped, taskVars
      <4>2. op' \in [Procs -> AllOperations \cup {"none", "sweep"}]
        BY <1>9, GoTyped DEF RelayRefused, TasksTyped, AllOperations, PlaceTyped, taskVars
      <4>3. mine' \in [Procs -> Minds]
        BY <1>9, Minded, Names DEF RelayRefused, TasksTyped, PlaceTyped, taskVars
      <4> QED
        BY <4>1, <4>2, <4>3 DEF PlaceTyped
    <3> QED
      BY <3>1, <3>2 DEF TasksTyped
  <2>3. RestTyped'
    BY <1>9, ModmailAssumption DEF RelayRefused, memory, RestTyped, Mishap
  <2> QED
    BY <2>1, <2>2, <2>3
<1>10. ASSUME NEW p \in Procs, TranscriptRefused(p) PROVE WorldTyped' /\ TasksTyped' /\ RestTyped'
  <2>1. WorldTyped'
    BY <1>10 DEF TranscriptRefused, store, discord, WorldTyped
  <2>2. TasksTyped'
    <3>1. lock' \in Procs \cup {Nobody}
      BY <1>10, LeaveTyped DEF TranscriptRefused, TasksTyped, memory
    <3>2. PlaceTyped'
      BY <1>10, FinishTyped DEF TranscriptRefused, TasksTyped
    <3> QED
      BY <3>1, <3>2 DEF TasksTyped
  <2>3. RestTyped'
    BY <1>10, ModmailAssumption DEF TranscriptRefused, memory, RestTyped, Mishap
  <2> QED
    BY <2>1, <2>2, <2>3
<1>11. ASSUME NEW p \in Procs, SendRefused(p) PROVE WorldTyped' /\ TasksTyped' /\ RestTyped'
  <2>1. WorldTyped'
    BY <1>11 DEF SendRefused, store, discord, WorldTyped
  <2>2. TasksTyped'
    <3>1. lock' \in Procs \cup {Nobody}
      BY <1>11, LeaveTyped DEF SendRefused, TasksTyped, memory
    <3>2. PlaceTyped'
      BY <1>11, FinishTyped DEF SendRefused, TasksTyped
    <3> QED
      BY <3>1, <3>2 DEF TasksTyped
  <2>3. RestTyped'
    BY <1>11, ModmailAssumption DEF SendRefused, memory, RestTyped, Mishap
  <2> QED
    BY <2>1, <2>2, <2>3
<1>12. ASSUME NEW p \in Procs, DropRefused(p) PROVE WorldTyped' /\ TasksTyped' /\ RestTyped'
  <2>1. WorldTyped'
    BY <1>12 DEF DropRefused, store, discord, WorldTyped
  <2>2. TasksTyped'
    <3>1. lock' \in Procs \cup {Nobody}
      BY <1>12, LeaveTyped DEF DropRefused, TasksTyped, memory, AfterDrop
    <3>2. PlaceTyped'
      <4>1. CASE Moved(p)
        BY <4>1, FinishTyped DEF TasksTyped
      <4>2. CASE ~Moved(p)
        <5>1. pc' \in [Procs -> Labels]
          BY <4>2, <1>12, GoTyped
             DEF DropRefused, TasksTyped, AfterDrop, Moved, Goto, Labels, PlaceTyped, taskVars
        <5>2. op' \in [Procs -> AllOperations \cup {"none", "sweep"}]
          BY <4>2, <1>12, GoTyped
             DEF DropRefused, TasksTyped, AfterDrop, Moved, AllOperations, PlaceTyped, taskVars
        <5>3. mine' \in [Procs -> Minds]
          BY <4>2, <1>12, Minded, Names
             DEF DropRefused, TasksTyped, AfterDrop, Moved, PlaceTyped, taskVars
        <5> QED
          BY <5>1, <5>2, <5>3 DEF PlaceTyped
      <4> QED
        BY <4>1, <4>2
    <3> QED
      BY <3>1, <3>2 DEF TasksTyped
  <2>3. RestTyped'
    BY <1>12, ModmailAssumption DEF DropRefused, memory, RestTyped, Mishap
  <2> QED
    BY <2>1, <2>2, <2>3
<1>13. ASSUME NEW p \in Procs, Create(p) PROVE WorldTyped' /\ TasksTyped' /\ RestTyped'
  <2>1. WorldTyped'
    <3>1. PICK t \in Tickets : ticket' = [ticket EXCEPT ![t].status = "open"]
      BY <1>13 DEF Create
    <3>2. ticket' \in [Tickets -> TicketRows]
      BY <3>1, Names, Written
    <3> QED
      BY <1>13, <3>2 DEF Create, discord, WorldTyped
  <2>2. TasksTyped'
    <3>1. lock' \in Procs \cup {Nobody}
      BY <1>13 DEF Create, TasksTyped, memory
    <3>2. PlaceTyped'
      <4>1. pc' \in [Procs -> Labels]
        BY <1>13, GoTyped DEF Create, TasksTyped, Goto, Labels, PlaceTyped, taskVars
      <4>2. op' \in [Procs -> AllOperations \cup {"none", "sweep"}]
        BY <1>13, GoTyped DEF Create, TasksTyped, AllOperations, PlaceTyped, taskVars
      <4>3. mine' \in [Procs -> Minds]
        <5>1. PICK t \in Tickets : mine' = [mine EXCEPT ![p].t = t]
          BY <1>13 DEF Create
        <5> QED
          BY <5>1, Names, Minded DEF TasksTyped, PlaceTyped, Minds
      <4> QED
        BY <4>1, <4>2, <4>3 DEF PlaceTyped
    <3> QED
      BY <3>1, <3>2 DEF TasksTyped
  <2>3. RestTyped'
    BY <1>13 DEF Create, memory, RestTyped
  <2> QED
    BY <2>1, <2>2, <2>3
<1>14. ASSUME NEW p \in Procs, Make(p) PROVE WorldTyped' /\ TasksTyped' /\ RestTyped'
  <2>1. WorldTyped'
    BY <1>14, Names, Roomed DEF Make, TasksTyped, PlaceTyped, Minds, store, discord, WorldTyped
  <2>2. TasksTyped'
    <3>1. lock' \in Procs \cup {Nobody}
      BY <1>14 DEF Make, TasksTyped, memory
    <3>2. PlaceTyped'
      <4>1. pc' \in [Procs -> Labels]
        BY <1>14, GoTyped DEF Make, TasksTyped, Goto, Labels, PlaceTyped, taskVars
      <4>2. op' \in [Procs -> AllOperations \cup {"none", "sweep"}]
        BY <1>14, GoTyped DEF Make, TasksTyped, AllOperations, PlaceTyped, taskVars
      <4>3. mine' \in [Procs -> Minds]
        BY <1>14, Minded, Names DEF Make, TasksTyped, PlaceTyped, taskVars
      <4> QED
        BY <4>1, <4>2, <4>3 DEF PlaceTyped
    <3> QED
      BY <3>1, <3>2 DEF TasksTyped
  <2>3. RestTyped'
    BY <1>14 DEF Make, memory, RestTyped
  <2> QED
    BY <2>1, <2>2, <2>3
<1>15. ASSUME NEW p \in Procs, Abandon(p) PROVE WorldTyped' /\ TasksTyped' /\ RestTyped'
  <2>1. WorldTyped'
    BY <1>15, Names, Written DEF Abandon, TasksTyped, PlaceTyped, Minds, store, discord, WorldTyped
  <2>2. TasksTyped'
    <3>1. lock' \in Procs \cup {Nobody}
      BY <1>15, LeaveTyped DEF Abandon, TasksTyped, memory
    <3>2. PlaceTyped'
      BY <1>15, FinishTyped DEF Abandon, TasksTyped
    <3> QED
      BY <3>1, <3>2 DEF TasksTyped
  <2>3. RestTyped'
    BY <1>15 DEF Abandon, memory, RestTyped
  <2> QED
    BY <2>1, <2>2, <2>3
<1>16. ASSUME NEW p \in Procs, Place(p) PROVE WorldTyped' /\ TasksTyped' /\ RestTyped'
  <2>1. WorldTyped'
    BY <1>16, Names, Written DEF Place, TasksTyped, PlaceTyped, Minds, store, discord, WorldTyped
  <2>2. TasksTyped'
    <3>1. lock' \in Procs \cup {Nobody}
      BY <1>16 DEF Place, TasksTyped, memory
    <3>2. PlaceTyped'
      <4>1. pc' \in [Procs -> Labels]
        BY <1>16, GoTyped DEF Place, TasksTyped, Goto, Labels, PlaceTyped, taskVars
      <4>2. op' \in [Procs -> AllOperations \cup {"none", "sweep"}]
        BY <1>16, GoTyped DEF Place, TasksTyped, AllOperations, PlaceTyped, taskVars
      <4>3. mine' \in [Procs -> Minds]
        BY <1>16, Minded, Names DEF Place, TasksTyped, PlaceTyped, taskVars
      <4> QED
        BY <4>1, <4>2, <4>3 DEF PlaceTyped
    <3> QED
      BY <3>1, <3>2 DEF TasksTyped
  <2>3. RestTyped'
    BY <1>16 DEF Place, memory, RestTyped
  <2> QED
    BY <2>1, <2>2, <2>3
<1>17. ASSUME NEW p \in Procs, Header(p) PROVE WorldTyped' /\ TasksTyped' /\ RestTyped'
  <2>1. WorldTyped'
    BY <1>17, Names, Roomed DEF Header, TasksTyped, PlaceTyped, Minds, store, discord, WorldTyped
  <2>2. TasksTyped'
    <3>1. lock' \in Procs \cup {Nobody}
      BY <1>17 DEF Header, TasksTyped, memory
    <3>2. PlaceTyped'
      <4>1. pc' \in [Procs -> Labels]
        BY <1>17, GoTyped DEF Header, TasksTyped, Goto, Labels, PlaceTyped, taskVars
      <4>2. op' \in [Procs -> AllOperations \cup {"none", "sweep"}]
        BY <1>17, GoTyped DEF Header, TasksTyped, AllOperations, PlaceTyped, taskVars
      <4>3. mine' \in [Procs -> Minds]
        BY <1>17, Minded, Names DEF Header, TasksTyped, PlaceTyped, taskVars
      <4> QED
        BY <4>1, <4>2, <4>3 DEF PlaceTyped
    <3> QED
      BY <3>1, <3>2 DEF TasksTyped
  <2>3. RestTyped'
    BY <1>17 DEF Header, memory, RestTyped
  <2> QED
    BY <2>1, <2>2, <2>3
<1>18. ASSUME NEW p \in Procs, Record(p) PROVE WorldTyped' /\ TasksTyped' /\ RestTyped'
  <2>1. WorldTyped'
    BY <1>18, Names, Counted DEF Record, TasksTyped, PlaceTyped, Minds, store, discord, WorldTyped
  <2>2. TasksTyped'
    <3>1. lock' \in Procs \cup {Nobody}
      BY <1>18 DEF Record, TasksTyped, memory
    <3>2. PlaceTyped'
      <4>1. pc' \in [Procs -> Labels]
        BY <1>18, GoTyped DEF Record, TasksTyped, Goto, Labels, PlaceTyped, taskVars
      <4>2. op' \in [Procs -> AllOperations \cup {"none", "sweep"}]
        BY <1>18, GoTyped DEF Record, TasksTyped, AllOperations, PlaceTyped, taskVars
      <4>3. mine' \in [Procs -> Minds]
        BY <1>18, Minded, Names DEF Record, TasksTyped, PlaceTyped, taskVars
      <4> QED
        BY <4>1, <4>2, <4>3 DEF PlaceTyped
    <3> QED
      BY <3>1, <3>2 DEF TasksTyped
  <2>3. RestTyped'
    BY <1>18 DEF Record, memory, RestTyped
  <2> QED
    BY <2>1, <2>2, <2>3
<1>19. ASSUME NEW p \in Procs, Relay(p) PROVE WorldTyped' /\ TasksTyped' /\ RestTyped'
  <2>1. WorldTyped'
    BY <1>19, Names, Roomed DEF Relay, TasksTyped, PlaceTyped, Minds, store, discord, WorldTyped
  <2>2. TasksTyped'
    <3>1. lock' \in Procs \cup {Nobody}
      BY <1>19 DEF Relay, TasksTyped, memory
    <3>2. PlaceTyped'
      <4>1. pc' \in [Procs -> Labels]
        BY <1>19, GoTyped DEF Relay, TasksTyped, Goto, Labels, PlaceTyped, taskVars
      <4>2. op' \in [Procs -> AllOperations \cup {"none", "sweep"}]
        BY <1>19, GoTyped DEF Relay, TasksTyped, AllOperations, PlaceTyped, taskVars
      <4>3. mine' \in [Procs -> Minds]
        BY <1>19, Minded, Names DEF Relay, TasksTyped, PlaceTyped, taskVars
      <4> QED
        BY <4>1, <4>2, <4>3 DEF PlaceTyped
    <3> QED
      BY <3>1, <3>2 DEF TasksTyped
  <2>3. RestTyped'
    BY <1>19 DEF Relay, memory, RestTyped
  <2> QED
    BY <2>1, <2>2, <2>3
<1>20. ASSUME NEW p \in Procs, Bumped(p) PROVE WorldTyped' /\ TasksTyped' /\ RestTyped'
  <2>1. WorldTyped'
    BY <1>20 DEF Bumped, store, discord, WorldTyped
  <2>2. TasksTyped'
    <3>1. lock' \in Procs \cup {Nobody}
      BY <1>20, LeaveTyped DEF Bumped, TasksTyped, memory
    <3>2. PlaceTyped'
      <4>1. pc' \in [Procs -> Labels]
        BY <1>20, GoTyped DEF Bumped, TasksTyped, Goto, Labels, PlaceTyped, taskVars
      <4>2. op' \in [Procs -> AllOperations \cup {"none", "sweep"}]
        BY <1>20, GoTyped DEF Bumped, TasksTyped, AllOperations, PlaceTyped, taskVars
      <4>3. mine' \in [Procs -> Minds]
        BY <1>20, Minded, Names DEF Bumped, TasksTyped, PlaceTyped, taskVars
      <4> QED
        BY <4>1, <4>2, <4>3 DEF PlaceTyped
    <3> QED
      BY <3>1, <3>2 DEF TasksTyped
  <2>3. RestTyped'
    BY <1>20 DEF Bumped, memory, RestTyped, Paths, Way
  <2> QED
    BY <2>1, <2>2, <2>3
<1>21. ASSUME NEW p \in Procs, Drop(p) PROVE WorldTyped' /\ TasksTyped' /\ RestTyped'
  <2>1. WorldTyped'
    BY <1>21, Names, Written DEF Drop, TasksTyped, PlaceTyped, Minds, store, discord, WorldTyped
  <2>2. TasksTyped'
    <3>1. lock' \in Procs \cup {Nobody}
      BY <1>21 DEF Drop, TasksTyped, memory
    <3>2. PlaceTyped'
      <4>1. pc' \in [Procs -> Labels]
        BY <1>21, GoTyped DEF Drop, TasksTyped, Goto, Labels, PlaceTyped, taskVars
      <4>2. op' \in [Procs -> AllOperations \cup {"none", "sweep"}]
        BY <1>21, GoTyped DEF Drop, TasksTyped, AllOperations, PlaceTyped, taskVars
      <4>3. mine' \in [Procs -> Minds]
        BY <1>21, Minded, Names DEF Drop, TasksTyped, PlaceTyped, taskVars
      <4> QED
        BY <4>1, <4>2, <4>3 DEF PlaceTyped
    <3> QED
      BY <3>1, <3>2 DEF TasksTyped
  <2>3. RestTyped'
    BY <1>21 DEF Drop, memory, RestTyped
  <2> QED
    BY <2>1, <2>2, <2>3
<1>22. ASSUME NEW p \in Procs, Read(p) PROVE WorldTyped' /\ TasksTyped' /\ RestTyped'
  <2>1. WorldTyped'
    BY <1>22 DEF Read, store, discord, WorldTyped
  <2>2. TasksTyped'
    <3>1. lock' \in Procs \cup {Nobody}
      BY <1>22 DEF Read, TasksTyped, memory
    <3>2. PlaceTyped'
      <4>1. pc' \in [Procs -> Labels]
        BY <1>22, GoTyped DEF Read, TasksTyped, Goto, Labels, PlaceTyped, taskVars
      <4>2. op' \in [Procs -> AllOperations \cup {"none", "sweep"}]
        BY <1>22, GoTyped DEF Read, TasksTyped, AllOperations, PlaceTyped, taskVars
      <4>3. mine' \in [Procs -> Minds]
        <5>1. mine' = [mine EXCEPT ![p].words = words[mine[p].t]] /\ words[mine[p].t] \in Nat
          BY <1>22 DEF Read, Paths, Way, WorldTyped
        <5> QED
          BY <5>1, Minded DEF TasksTyped
      <4> QED
        BY <4>1, <4>2, <4>3 DEF PlaceTyped
    <3> QED
      BY <3>1, <3>2 DEF TasksTyped
  <2>3. RestTyped'
    BY <1>22 DEF Read, memory, RestTyped
  <2> QED
    BY <2>1, <2>2, <2>3
<1>23. ASSUME NEW p \in Procs, MarkClosed(p) PROVE WorldTyped' /\ TasksTyped' /\ RestTyped'
  <2>1. WorldTyped'
    BY <1>23, Names, Written
       DEF MarkClosed, TasksTyped, PlaceTyped, Minds, store, discord, WorldTyped
  <2>2. TasksTyped'
    <3>1. lock' \in Procs \cup {Nobody}
      BY <1>23 DEF MarkClosed, TasksTyped, memory
    <3>2. PlaceTyped'
      <4>1. pc' \in [Procs -> Labels]
        BY <1>23, GoTyped DEF MarkClosed, TasksTyped, Goto, Labels, PlaceTyped, taskVars
      <4>2. op' \in [Procs -> AllOperations \cup {"none", "sweep"}]
        BY <1>23, GoTyped DEF MarkClosed, TasksTyped, AllOperations, PlaceTyped, taskVars
      <4>3. mine' \in [Procs -> Minds]
        BY <1>23, Minded, Names DEF MarkClosed, TasksTyped, PlaceTyped, taskVars
      <4> QED
        BY <4>1, <4>2, <4>3 DEF PlaceTyped
    <3> QED
      BY <3>1, <3>2 DEF TasksTyped
  <2>3. RestTyped'
    BY <1>23 DEF MarkClosed, memory, RestTyped
  <2> QED
    BY <2>1, <2>2, <2>3
<1>24. ASSUME NEW p \in Procs, Transcript(p) PROVE WorldTyped' /\ TasksTyped' /\ RestTyped'
  <2>1. WorldTyped'
    BY <1>24, Names, Counted
       DEF Transcript, TasksTyped, PlaceTyped, Minds, store, discord, WorldTyped
  <2>2. TasksTyped'
    <3>1. lock' \in Procs \cup {Nobody}
      BY <1>24 DEF Transcript, TasksTyped, memory
    <3>2. PlaceTyped'
      <4>1. pc' \in [Procs -> Labels]
        BY <1>24, GoTyped DEF Transcript, TasksTyped, Goto, Labels, PlaceTyped, taskVars
      <4>2. op' \in [Procs -> AllOperations \cup {"none", "sweep"}]
        BY <1>24, GoTyped DEF Transcript, TasksTyped, AllOperations, PlaceTyped, taskVars
      <4>3. mine' \in [Procs -> Minds]
        BY <1>24, Minded, Names DEF Transcript, TasksTyped, PlaceTyped, taskVars
      <4> QED
        BY <4>1, <4>2, <4>3 DEF PlaceTyped
    <3> QED
      BY <3>1, <3>2 DEF TasksTyped
  <2>3. RestTyped'
    BY <1>24 DEF Transcript, memory, RestTyped
  <2> QED
    BY <2>1, <2>2, <2>3
<1>25. ASSUME NEW p \in Procs, Remove(p) PROVE WorldTyped' /\ TasksTyped' /\ RestTyped'
  <2>1. WorldTyped'
    <3>1. PICK t \in 0..MaxTickets : t = mine[p].t
      BY DEF TasksTyped, PlaceTyped, Minds
    <3>2. \/ room' = room \/ room' = [room EXCEPT ![t] = @]
          \/ room' = [room EXCEPT ![t] = [NoRoom EXCEPT !.is = "removed"]]
      BY <1>25, <3>1 DEF Remove
    <3>3. room' \in [Tickets -> RoomRows]
      BY <3>2, Roomed DEF WorldTyped
    <3> QED
      BY <1>25, <3>3 DEF Remove, store, WorldTyped
  <2>2. TasksTyped'
    <3>1. lock' \in Procs \cup {Nobody}
      BY <1>25, LeaveTyped DEF Remove, TasksTyped, memory
    <3>2. PlaceTyped'
      BY <1>25, FinishTyped DEF Remove, TasksTyped
    <3> QED
      BY <3>1, <3>2 DEF TasksTyped
  <2>3. RestTyped'
    BY <1>25, ModmailAssumption DEF Remove, memory, RestTyped, Mishap
  <2> QED
    BY <2>1, <2>2, <2>3
<1>26. ASSUME NEW p \in Procs, Wake(p) PROVE WorldTyped' /\ TasksTyped' /\ RestTyped'
  <2>1. WorldTyped'
    BY <1>26 DEF Wake, store, discord, WorldTyped
  <2>2. TasksTyped'
    <3>1. lock' \in Procs \cup {Nobody}
      BY <1>26 DEF Wake, TasksTyped, memory
    <3>2. PlaceTyped'
      <4>1. pc' \in [Procs -> Labels]
        BY <1>26, GoTyped DEF Wake, TasksTyped, Goto, Labels, PlaceTyped, taskVars
      <4>2. op' \in [Procs -> AllOperations \cup {"none", "sweep"}]
        BY <1>26, GoTyped DEF Wake, TasksTyped, AllOperations, PlaceTyped, taskVars
      <4>3. mine' \in [Procs -> Minds]
        BY <1>26, Minded, Names DEF Wake, TasksTyped, PlaceTyped, taskVars
      <4> QED
        BY <4>1, <4>2, <4>3 DEF PlaceTyped
    <3> QED
      BY <3>1, <3>2 DEF TasksTyped
  <2>3. RestTyped'
    BY <1>26 DEF Wake, memory, RestTyped
  <2> QED
    BY <2>1, <2>2, <2>3
<1>27. ASSUME NEW p \in Procs, Look(p) PROVE WorldTyped' /\ TasksTyped' /\ RestTyped'
  <2>1. WorldTyped'
    BY <1>27 DEF Look, store, discord, WorldTyped
  <2>2. TasksTyped'
    <3>1. lock' \in Procs \cup {Nobody}
      BY <1>27 DEF Look, TasksTyped, memory
    <3>2. PlaceTyped'
      <4>1. CASE Moved(p)
        BY <4>1, FinishTyped DEF TasksTyped
      <4>2. CASE ~Moved(p)
        <5>1. pc' \in [Procs -> Labels]
          BY <4>2, <1>27, GoTyped DEF Look, TasksTyped, Moved, Goto, Labels, PlaceTyped, taskVars
        <5>2. op' \in [Procs -> AllOperations \cup {"none", "sweep"}]
          BY <4>2, <1>27, GoTyped DEF Look, TasksTyped, Moved, AllOperations, PlaceTyped, taskVars
        <5>3. mine' \in [Procs -> Minds]
          BY <4>2, <1>27, Minded, Names DEF Look, TasksTyped, Moved, PlaceTyped, taskVars
        <5> QED
          BY <5>1, <5>2, <5>3 DEF PlaceTyped
      <4> QED
        BY <4>1, <4>2
    <3> QED
      BY <3>1, <3>2 DEF TasksTyped
  <2>3. RestTyped'
    BY <1>27 DEF Look, memory, RestTyped
  <2> QED
    BY <2>1, <2>2, <2>3
<1>28. ASSUME NEW p \in Procs, Send(p) PROVE WorldTyped' /\ TasksTyped' /\ RestTyped'
  <2>1. WorldTyped'
    BY <1>28, Names, Roomed DEF Send, TasksTyped, PlaceTyped, Minds, store, discord, WorldTyped
  <2>2. TasksTyped'
    <3>1. lock' \in Procs \cup {Nobody}
      BY <1>28, LeaveTyped DEF Send, TasksTyped, memory
    <3>2. PlaceTyped'
      <4>1. CASE Moved(p)
        BY <4>1, FinishTyped DEF TasksTyped
      <4>2. CASE ~Moved(p)
        <5>1. pc' \in [Procs -> Labels]
          BY <4>2, <1>28, GoTyped DEF Send, TasksTyped, Moved, Goto, Labels, PlaceTyped, taskVars
        <5>2. op' \in [Procs -> AllOperations \cup {"none", "sweep"}]
          BY <4>2, <1>28, GoTyped DEF Send, TasksTyped, Moved, AllOperations, PlaceTyped, taskVars
        <5>3. mine' \in [Procs -> Minds]
          <6>1. PICK c \in CardIds : mine' = [mine EXCEPT ![p].new = c]
            BY <4>2, <1>28 DEF Send, Moved
          <6> QED
            BY <6>1, Names, Minded DEF TasksTyped, PlaceTyped, Minds
        <5> QED
          BY <5>1, <5>2, <5>3 DEF PlaceTyped
      <4> QED
        BY <4>1, <4>2
    <3> QED
      BY <3>1, <3>2 DEF TasksTyped
  <2>3. RestTyped'
    BY <1>28 DEF Send, memory, RestTyped
  <2> QED
    BY <2>1, <2>2, <2>3
<1>29. ASSUME NEW p \in Procs, SetCard(p) PROVE WorldTyped' /\ TasksTyped' /\ RestTyped'
  <2>1. WorldTyped'
    BY <1>29, Names, Written DEF SetCard, PlaceTyped, Minds, TasksTyped, store, discord, WorldTyped
  <2>2. TasksTyped'
    <3>1. lock' \in Procs \cup {Nobody}
      BY <1>29, LeaveTyped DEF SetCard, TasksTyped, memory
    <3>2. PlaceTyped'
      <4>1. CASE Moved(p)
        BY <4>1, FinishTyped DEF TasksTyped
      <4>2. CASE ~Moved(p)
        <5>1. pc' \in [Procs -> Labels]
          BY <4>2, <1>29, GoTyped DEF SetCard, TasksTyped, Moved, Goto, Labels, PlaceTyped, taskVars
        <5>2. op' \in [Procs -> AllOperations \cup {"none", "sweep"}]
          BY <4>2, <1>29, GoTyped
             DEF SetCard, TasksTyped, Moved, AllOperations, PlaceTyped, taskVars
        <5>3. mine' \in [Procs -> Minds]
          BY <4>2, <1>29, Minded, Names DEF SetCard, TasksTyped, Moved, PlaceTyped, taskVars
        <5> QED
          BY <5>1, <5>2, <5>3 DEF PlaceTyped
      <4> QED
        BY <4>1, <4>2
    <3> QED
      BY <3>1, <3>2 DEF TasksTyped
  <2>3. RestTyped'
    BY <1>29 DEF SetCard, memory, RestTyped
  <2> QED
    BY <2>1, <2>2, <2>3
<1>30. ASSUME NEW p \in Procs, DropOld(p) PROVE WorldTyped' /\ TasksTyped' /\ RestTyped'
  <2>1. WorldTyped'
    BY <1>30, Names, Roomed DEF DropOld, TasksTyped, PlaceTyped, Minds, store, discord, WorldTyped
  <2>2. TasksTyped'
    <3>1. lock' \in Procs \cup {Nobody}
      BY <1>30, LeaveTyped DEF DropOld, TasksTyped, memory, AfterDrop
    <3>2. PlaceTyped'
      <4>1. CASE Moved(p)
        BY <4>1, FinishTyped DEF TasksTyped
      <4>2. CASE ~Moved(p)
        <5>1. pc' \in [Procs -> Labels]
          BY <4>2, <1>30, GoTyped
             DEF DropOld, TasksTyped, AfterDrop, Moved, Goto, Labels, PlaceTyped, taskVars
        <5>2. op' \in [Procs -> AllOperations \cup {"none", "sweep"}]
          BY <4>2, <1>30, GoTyped
             DEF DropOld, TasksTyped, AfterDrop, Moved, AllOperations, PlaceTyped, taskVars
        <5>3. mine' \in [Procs -> Minds]
          BY <4>2, <1>30, Minded, Names
             DEF DropOld, TasksTyped, AfterDrop, Moved, PlaceTyped, taskVars
        <5> QED
          BY <5>1, <5>2, <5>3 DEF PlaceTyped
      <4> QED
        BY <4>1, <4>2
    <3> QED
      BY <3>1, <3>2 DEF TasksTyped
  <2>3. RestTyped'
    BY <1>30 DEF DropOld, memory, RestTyped
  <2> QED
    BY <2>1, <2>2, <2>3
<1>31. ASSUME BeginSweep PROVE WorldTyped' /\ TasksTyped' /\ RestTyped'
  <2>1. WorldTyped'
    BY <1>31 DEF BeginSweep, store, discord, WorldTyped
  <2>2. TasksTyped'
    <3>1. lock' \in Procs \cup {Nobody}
      BY <1>31 DEF BeginSweep, TasksTyped, memory
    <3>2. PlaceTyped'
      <4>1. pc' \in [Procs -> Labels]
        BY <1>31, Names, GoTyped DEF BeginSweep, TasksTyped, Goto, Labels, PlaceTyped, taskVars
      <4>2. op' \in [Procs -> AllOperations \cup {"none", "sweep"}]
        BY <1>31, Names, GoTyped DEF BeginSweep, TasksTyped, AllOperations, PlaceTyped, taskVars
      <4>3. mine' \in [Procs -> Minds]
        <5>1. PICK t \in Tickets : mine' = [mine EXCEPT ![Sweep].t = t, ![Sweep].card = ticket[t].card]
          BY <1>31 DEF BeginSweep, Open
        <5> QED
          BY <5>1, Names, Minded DEF TasksTyped, PlaceTyped, Minds, WorldTyped, TicketRows
      <4> QED
        BY <4>1, <4>2, <4>3 DEF PlaceTyped
    <3> QED
      BY <3>1, <3>2 DEF TasksTyped
  <2>3. RestTyped'
    BY <1>31 DEF BeginSweep, memory, RestTyped
  <2> QED
    BY <2>1, <2>2, <2>3
<1>32. ASSUME Resolve PROVE WorldTyped' /\ TasksTyped' /\ RestTyped'
  <2>1. WorldTyped'
    BY <1>32 DEF Resolve, store, discord, WorldTyped
  <2>2. TasksTyped'
    <3>1. lock' \in Procs \cup {Nobody}
      BY <1>32 DEF Resolve, TasksTyped, memory
    <3>2. PlaceTyped'
      <4>1. CASE Finish(Sweep)
        BY <4>1, FinishTyped, Names DEF TasksTyped
      <4>2. CASE ~Finish(Sweep)
        <5>1. pc' \in [Procs -> Labels]
          <6>1. Goto(Sweep, "look")
            BY <4>2, <1>32 DEF Resolve
          <6>2. "look" \in Labels /\ Sweep \in Procs
            BY Names DEF Labels
          <6> QED
            BY <6>1, <6>2, GoTyped DEF TasksTyped, Goto
        <5>2. op' \in [Procs -> AllOperations \cup {"none", "sweep"}]
          BY <4>2, <1>32, Names, GoTyped
             DEF Resolve, TasksTyped, AllOperations, PlaceTyped, taskVars
        <5>3. mine' \in [Procs -> Minds]
          BY <4>2, <1>32, Names, Minded, Names DEF Resolve, TasksTyped, PlaceTyped, taskVars
        <5> QED
          BY <5>1, <5>2, <5>3 DEF PlaceTyped
      <4> QED
        BY <4>1, <4>2
    <3> QED
      BY <3>1, <3>2 DEF TasksTyped
  <2>3. RestTyped'
    BY <1>32, Names, Struck DEF Resolve, memory, RestTyped, Strikes, TasksTyped, PlaceTyped, Minds
  <2> QED
    BY <2>1, <2>2, <2>3
<1>33. ASSUME Strike PROVE WorldTyped' /\ TasksTyped' /\ RestTyped'
  <2>1. WorldTyped'
    BY <1>33 DEF Strike, store, discord, WorldTyped
  <2>2. TasksTyped'
    <3>1. lock' \in Procs \cup {Nobody}
      BY <1>33 DEF Strike, TasksTyped, memory
    <3>2. PlaceTyped'
      <4>1. CASE Finish(Sweep)
        BY <4>1, FinishTyped, Names DEF TasksTyped
      <4>2. CASE ~Finish(Sweep)
        <5>1. pc' \in [Procs -> Labels]
          BY <4>2, <1>33, Names, GoTyped DEF Strike, TasksTyped, Goto, Labels, PlaceTyped, taskVars
        <5>2. op' \in [Procs -> AllOperations \cup {"none", "sweep"}]
          BY <4>2, <1>33, Names, GoTyped DEF Strike, TasksTyped, AllOperations, PlaceTyped, taskVars
        <5>3. mine' \in [Procs -> Minds]
          BY <4>2, <1>33, Names, Minded, Names DEF Strike, TasksTyped, PlaceTyped, taskVars
        <5> QED
          BY <5>1, <5>2, <5>3 DEF PlaceTyped
      <4> QED
        BY <4>1, <4>2
    <3> QED
      BY <3>1, <3>2 DEF TasksTyped
  <2>3. RestTyped'
    BY <1>33, Names, Struck DEF Strike, memory, RestTyped, Strikes, TasksTyped, PlaceTyped, Minds
  <2> QED
    BY <2>1, <2>2, <2>3
<1>34. ASSUME Unknown PROVE WorldTyped' /\ TasksTyped' /\ RestTyped'
  <2>1. WorldTyped'
    BY <1>34 DEF Unknown, store, discord, WorldTyped
  <2>2. TasksTyped'
    <3>1. lock' \in Procs \cup {Nobody}
      BY <1>34 DEF Unknown, TasksTyped, memory
    <3>2. PlaceTyped'
      BY <1>34, FinishTyped, Names DEF Unknown, TasksTyped
    <3> QED
      BY <3>1, <3>2 DEF TasksTyped
  <2>3. RestTyped'
    BY <1>34, Names, Struck, ModmailAssumption
       DEF Unknown, memory, RestTyped, Mishap, Strikes, TasksTyped, PlaceTyped, Minds
  <2> QED
    BY <2>1, <2>2, <2>3
<1>35. ASSUME NEW t \in Tickets, DeleteRoom(t) PROVE WorldTyped' /\ TasksTyped' /\ RestTyped'
  <2>1. WorldTyped'
    BY <1>35, Names, Roomed DEF DeleteRoom, Stands, store, discord, WorldTyped
  <2>2. TasksTyped'
    BY <1>35 DEF DeleteRoom, memory, taskVars, TasksTyped, PlaceTyped
  <2>3. RestTyped'
    BY <1>35 DEF DeleteRoom, memory, RestTyped
  <2> QED
    BY <2>1, <2>2, <2>3
<1>36. ASSUME NEW t \in Tickets, DeleteCard(t) PROVE WorldTyped' /\ TasksTyped' /\ RestTyped'
  <2>1. WorldTyped'
    BY <1>36, Names, Roomed DEF DeleteCard, RoomRows, store, discord, WorldTyped
  <2>2. TasksTyped'
    BY <1>36 DEF DeleteCard, memory, taskVars, TasksTyped, PlaceTyped
  <2>3. RestTyped'
    BY <1>36, ModmailAssumption DEF DeleteCard, memory, RestTyped, Mishap
  <2> QED
    BY <2>1, <2>2, <2>3
<1>37. ASSUME NEW t \in Tickets, Age(t) PROVE WorldTyped' /\ TasksTyped' /\ RestTyped'
  <2>1. WorldTyped'
    BY <1>37, Names, Written DEF Age, store, discord, WorldTyped
  <2>2. TasksTyped'
    BY <1>37 DEF Age, memory, taskVars, TasksTyped, PlaceTyped
  <2>3. RestTyped'
    BY <1>37 DEF Age, memory, RestTyped
  <2> QED
    BY <2>1, <2>2, <2>3
<1>40. ASSUME NEW t \in Tickets, Stay(t) PROVE WorldTyped' /\ TasksTyped' /\ RestTyped'
  <2>1. WorldTyped'
    <3>1. [room[t] EXCEPT !.last = Stray] \in RoomRows
      BY DEF WorldTyped, RoomRows
    <3> QED
      BY <1>40, <3>1 DEF Stay, store, WorldTyped
  <2>2. TasksTyped'
    BY <1>40 DEF Stay, memory, taskVars, TasksTyped, PlaceTyped
  <2>3. RestTyped'
    BY <1>40 DEF Stay, memory, RestTyped
  <2> QED
    BY <2>1, <2>2, <2>3
<1>38. ASSUME Crash PROVE WorldTyped' /\ TasksTyped' /\ RestTyped'
  <2>1. WorldTyped'
    BY <1>38 DEF Crash, store, discord, WorldTyped
  <2>2. TasksTyped'
    <3>1. lock' \in Procs \cup {Nobody}
      BY <1>38, Names DEF Crash, TasksTyped, memory
    <3>2. PlaceTyped'
      <4>1. pc' \in [Procs -> Labels]
        BY <1>38, GoTyped DEF Crash, TasksTyped, Goto, Labels, PlaceTyped, taskVars
      <4>2. op' \in [Procs -> AllOperations \cup {"none", "sweep"}]
        BY <1>38, GoTyped DEF Crash, TasksTyped, AllOperations, PlaceTyped, taskVars
      <4>3. mine' \in [Procs -> Minds]
        BY <1>38, Minded, Names DEF Crash, TasksTyped, PlaceTyped, taskVars
      <4> QED
        BY <4>1, <4>2, <4>3 DEF PlaceTyped
    <3> QED
      BY <3>1, <3>2 DEF TasksTyped
  <2>3. RestTyped'
    BY <1>38, ModmailAssumption, Names DEF Crash, memory, RestTyped, Mishap, Strikes
  <2> QED
    BY <2>1, <2>2, <2>3
<1>39. CASE UNCHANGED vars
  BY <1>39
     DEF vars, store, discord, taskVars, memory, WorldTyped, TasksTyped, PlaceTyped, RestTyped
<1> QED
  BY <1>1, <1>2, <1>3, <1>4, <1>5, <1>6, <1>7, <1>8, <1>9, <1>10, <1>11, <1>12, <1>13, <1>14,
     <1>15, <1>16, <1>17, <1>18, <1>19, <1>20, <1>21, <1>22, <1>23, <1>24, <1>25, <1>26, <1>27,
     <1>28, <1>29, <1>30, <1>31, <1>32, <1>33, <1>34, <1>35, <1>36, <1>37, <1>38, <1>39, <1>40
     DEF Next, Start, Enter, Refusal, Proceed, Recheck

-------------------------------------------------------------------------------
(* The member's lock.                                                          *)

\* A step that leaves alone what those who hold the lock know.
Same == /\ \A t \in Tickets : /\ ticket'[t].status = ticket[t].status
                              /\ ticket'[t].card = ticket[t].card
                              /\ room'[t].is = "removed" => room[t].is = "removed"
        /\ UNCHANGED <<words, logged>>

Kept(p) == pc'[p] = pc[p] /\ op'[p] = op[p] /\ mine'[p] = mine[p]

\* Such a step disturbs no ticket,
LEMMA Undisturbed == ASSUME World, Same PROVE World' /\ Open' = Open
<1>1. Open' = Open
  BY DEF Same, Open
<1> QED
  BY <1>1 DEF Same, World, Row, OneOpenTicket, EveryWordIsKept

\* and no one's knowledge.
LEMMA StillKnows ==
    ASSUME Paths, Knowledge, World, Same
    PROVE  \A q \in Procs : Kept(q) => Knows(q)'
<1> SUFFICES ASSUME NEW q \in Procs, Kept(q) PROVE Knows(q)'
  OBVIOUS
<1>1. Open' = Open
  BY Undisturbed
<1>2. pc[q] \notin {"idle", "ask", "create", "sleep"} => mine[q].t \in Tickets
  BY DEF Paths, Way
<1> QED
  BY <1>1, <1>2 DEF Knowledge, Knows, Kept, Same

\* Who does not hold the lock has nothing to know.
LEMMA Idle == \A q \in Procs : ~Holds(q) => Knows(q)
  BY DEF Holds, Writing, Knows

\* One task's step: the others keep apart.
LEMMA Others ==
    ASSUME Paths, Locked, World, Knowledge, NEW p \in Procs,
           \A q \in Procs : q # p => Kept(q),
           Same \/ lock = p,
           \/ lock' = lock
           \/ lock = p /\ lock' = Nobody
           \/ lock = Nobody /\ lock' = p,
           Way(p)', Holds(p)' <=> lock' = p, Knows(p)'
    PROVE  Paths' /\ Locked' /\ Knowledge'
<1>1. \A q \in Procs : q # p => Way(q)'
  BY DEF Paths, Way, Kept
<1>2. \A q \in Procs : q # p => (Holds(q)' <=> lock' = q)
  BY Names DEF Locked, Holds, Kept
<1>3. \A q \in Procs : q # p => Knows(q)'
  <2>1. CASE Same
    BY <2>1, StillKnows
  <2>2. CASE lock = p
    <3>1. \A q \in Procs : q # p => ~Holds(q)'
      BY <2>2, <1>2, Names
    <3> QED
      BY <3>1 DEF Holds, Writing, Knows
  <2> QED
    BY <2>1, <2>2
<1> QED
  BY <1>1, <1>2, <1>3 DEF Paths, Locked, Knowledge

\* A task that is over, or goes to sleep again, keeps to its way and holds no lock.
LEMMA Over ==
    ASSUME PlaceTyped, RestTyped, Paths, NEW p \in Procs, Finish(p) \/ Moved(p)
    PROVE  Way(p)' /\ ~Holds(p)' /\ Knows(p)'
<1>1. mine'[p] = Nothing
  BY DEF PlaceTyped, Finish, Moved
<1>2. \/ pc'[p] = "idle" /\ op'[p] = "none"
      \/ pc'[p] = "sleep" /\ op'[p] = op[p] /\ p \in Tickets
  BY DEF PlaceTyped, RestTyped, Finish, Moved, Goto
<1>3. p \in Tickets => op[p] = "none"
  BY DEF Paths, Way
<1> QED
  BY <1>1, <1>2, <1>3 DEF Way, Holds, Writing, Knows

\* The inductive invariant.
Safe == TypeOK /\ Paths /\ Locked /\ World /\ Knowledge

\* All this is so to begin with,
LEMMA SafeInit == Init => Safe
<1> SUFFICES ASSUME Init PROVE Safe
  OBVIOUS
<1>1. Paths /\ Locked /\ Knowledge
  BY Names DEF Init, Paths, Way, Locked, Holds, Writing, Knowledge, Knows
<1>2. World
  BY DEF Init, World, Row, OneOpenTicket, EveryWordIsKept, Open, NoRow, NoRoom
<1> QED
  BY <1>1, <1>2, TypeOKInit DEF Safe

\* and no step of a task, of Discord, of people or of the clock ends it.
LEMMA SafeStep == Safe /\ [Next]_vars => Safe'
<1> SUFFICES ASSUME WorldTyped, TasksTyped, RestTyped, Paths, Locked, World, Knowledge, [Next]_vars
             PROVE  Paths' /\ Locked' /\ World' /\ Knowledge'
  BY TypeOKParts, TypeOKStep DEF Safe
<1>1. ASSUME NEW p \in Procs, Ask(p)
      PROVE  Paths' /\ Locked' /\ World' /\ Knowledge'
  <2>1. \A q \in Procs : q # p => Kept(q)
    BY <1>1 DEF Ask, Goto, Kept, TasksTyped, PlaceTyped
  <2>2. Same /\ World'
    BY <1>1, Undisturbed DEF Ask, Same, store, discord
  <2>3. \/ lock' = lock
        \/ lock = p /\ lock' = Nobody
        \/ lock = Nobody /\ lock' = p
    BY <1>1 DEF Ask, memory
  <2>4. Way(p)'
    BY <1>1, Names DEF Ask, Goto, Paths, Way, TasksTyped, PlaceTyped, Nothing
  <2>5. Holds(p)' <=> lock' = p
    BY <1>1, Names DEF Ask, Goto, Locked, Holds, Writing, Paths, Way, TasksTyped, PlaceTyped, memory
  <2>6. Knows(p)'
    BY <1>1
       DEF Ask, Goto, Knowledge, Knows, Paths, Way, TasksTyped, PlaceTyped, WorldTyped, store,
           discord, memory
  <2> QED
    BY <2>1, <2>2, <2>3, <2>4, <2>5, <2>6, Others
<1>2. ASSUME NEW p \in Procs, Pick(p)
      PROVE  Paths' /\ Locked' /\ World' /\ Knowledge'
  <2>1. \A q \in Procs : q # p => Kept(q)
    BY <1>2 DEF Pick, Goto, Kept, TasksTyped, PlaceTyped
  <2>2. Same /\ World'
    BY <1>2, Undisturbed DEF Pick, Same, store, discord
  <2>3. \/ lock' = lock
        \/ lock = p /\ lock' = Nobody
        \/ lock = Nobody /\ lock' = p
    BY <1>2 DEF Pick, memory
  <2>4. Way(p)'
    BY <1>2, Names DEF Pick, Goto, Open, Paths, Way, TasksTyped, PlaceTyped, Nothing
  <2>5. Holds(p)' <=> lock' = p
    BY <1>2, Names
       DEF Pick, Goto, Open, Locked, Holds, Writing, Paths, Way, TasksTyped, PlaceTyped, memory
  <2>6. Knows(p)'
    BY <1>2
       DEF Pick, Goto, Open, Knowledge, Knows, Paths, Way, TasksTyped, PlaceTyped, WorldTyped,
           store, discord, memory
  <2> QED
    BY <2>1, <2>2, <2>3, <2>4, <2>5, <2>6, Others
<1>3. ASSUME NEW p \in Procs, Note(p)
      PROVE  Paths' /\ Locked' /\ World' /\ Knowledge'
  <2>1. \A q \in Procs : q # p => Kept(q)
    BY <1>3 DEF Note, Goto, Kept, TasksTyped, PlaceTyped
  <2>2. Same /\ World'
    BY <1>3, Undisturbed
       DEF Note, Speaks, Stands, Same, store, discord, WorldTyped, TicketRows, RoomRows
  <2>3. \/ lock' = lock
        \/ lock = p /\ lock' = Nobody
        \/ lock = Nobody /\ lock' = p
    BY <1>3 DEF Note, memory
  <2>4. Way(p)'
    BY <1>3, Names DEF Note, Goto, Open, Paths, Way, TasksTyped, PlaceTyped, Nothing
  <2>5. Holds(p)' <=> lock' = p
    BY <1>3, Names
       DEF Note, Goto, Open, Locked, Holds, Writing, Paths, Way, TasksTyped, PlaceTyped, memory
  <2>6. Knows(p)'
    BY <1>3
       DEF Note, Goto, Open, Knowledge, Knows, Paths, Way, TasksTyped, PlaceTyped, WorldTyped,
           store, discord, memory
  <2> QED
    BY <2>1, <2>2, <2>3, <2>4, <2>5, <2>6, Others
<1>4. ASSUME NEW p \in Procs, Notice(p)
      PROVE  Paths' /\ Locked' /\ World' /\ Knowledge'
  <2>1. \A q \in Procs : q # p => Kept(q)
    BY <1>4 DEF Notice, Goto, Kept, TasksTyped, PlaceTyped, taskVars
  <2>2. Same /\ World'
    BY <1>4, Undisturbed DEF Notice, Same, store, discord
  <2>3. \/ lock' = lock
        \/ lock = p /\ lock' = Nobody
        \/ lock = Nobody /\ lock' = p
    BY <1>4 DEF Notice, memory
  <2>4. Way(p)'
    <3>1. CASE UNCHANGED taskVars
      BY <3>1 DEF taskVars, Paths, Way
    <3>2. CASE ~UNCHANGED taskVars
      <4>1. pc'[p] = "close" /\ op'[p] = "close" /\ mine'[p].t \in Tickets
        BY <3>2, <1>4 DEF Notice, Goto, RestTyped, TasksTyped, PlaceTyped, Minds
      <4>2. p \notin Tickets
        BY <1>4, Names DEF Notice
      <4> QED
        BY <4>1, <4>2 DEF Way, Knows
    <3> QED
      BY <3>1, <3>2
  <2>5. Holds(p)' <=> lock' = p
    BY <1>4, Names
       DEF Notice, Goto, Locked, Holds, Writing, Paths, Way, TasksTyped, PlaceTyped, memory,
           taskVars
  <2>6. Knows(p)'
    <3>1. CASE UNCHANGED taskVars
      BY <3>1, <2>2, StillKnows DEF taskVars, Kept
    <3>2. CASE ~UNCHANGED taskVars
      <4>1. pc'[p] = "close" /\ op'[p] = "close" /\ mine'[p].t \in Tickets
        BY <3>2, <1>4 DEF Notice, Goto, RestTyped, TasksTyped, PlaceTyped, Minds
      <4>2. p \notin Tickets
        BY <1>4, Names DEF Notice
      <4> QED
        BY <4>1, <4>2 DEF Way, Knows
    <3> QED
      BY <3>1, <3>2
  <2> QED
    BY <2>1, <2>2, <2>3, <2>4, <2>5, <2>6, Others
<1>5. ASSUME NEW p \in Procs, LockAsk(p)
      PROVE  Paths' /\ Locked' /\ World' /\ Knowledge'
  <2>1. \A q \in Procs : q # p => Kept(q)
    BY <1>5 DEF LockAsk, Goto, Finish, Kept, TasksTyped, PlaceTyped
  <2>2. Same /\ World'
    BY <1>5, Undisturbed DEF LockAsk, Same, store, discord
  <2>3. \/ lock' = lock
        \/ lock = p /\ lock' = Nobody
        \/ lock = Nobody /\ lock' = p
    BY <1>5 DEF LockAsk, memory
  <2>4. Way(p)'
    <3>1. CASE Finish(p)
      BY <3>1, Over DEF TasksTyped
    <3>2. CASE ~Finish(p)
      <4>0. /\ pc[p] = "ask"
            /\ \/ Open = {} /\ Goto(p, "create") /\ UNCHANGED <<op, mine>>
               \/ \E t \in Open : /\ mine' = [mine EXCEPT ![p].t = t]
                                 /\ Goto(p, "record") /\ UNCHANGED op
        BY <3>2, <1>5 DEF LockAsk
      <4>1. /\ pc[p] = "ask" /\ op'[p] = op[p]
            /\ \/ pc'[p] = "create" /\ Open = {}
               \/ pc'[p] = "record" /\ mine'[p].t \in Open
        BY <4>0 DEF Goto, PlaceTyped, TasksTyped, Minds
      <4> QED
        BY <4>1, Names DEF Paths, Way, Open
    <3> QED
      BY <3>1, <3>2
  <2>5. Holds(p)' <=> lock' = p
    BY <1>5, Names
       DEF LockAsk, Goto, Finish, Open, Locked, Holds, Writing, Paths, Way, TasksTyped, PlaceTyped,
           memory
  <2>6. Knows(p)'
    <3>1. CASE Finish(p)
      BY <3>1, Over DEF TasksTyped
    <3>2. CASE ~Finish(p)
      <4>0. /\ pc[p] = "ask"
            /\ \/ Open = {} /\ Goto(p, "create") /\ UNCHANGED <<op, mine>>
               \/ \E t \in Open : /\ mine' = [mine EXCEPT ![p].t = t]
                                 /\ Goto(p, "record") /\ UNCHANGED op
        BY <3>2, <1>5 DEF LockAsk
      <4>1. /\ pc[p] = "ask" /\ op'[p] = op[p]
            /\ \/ pc'[p] = "create" /\ Open = {}
               \/ pc'[p] = "record" /\ mine'[p].t \in Open
        BY <4>0 DEF Goto, PlaceTyped, TasksTyped, Minds
      <4> QED
        BY <4>1, <2>2, Undisturbed DEF Knows, Same, Open
    <3> QED
      BY <3>1, <3>2
  <2> QED
    BY <2>1, <2>2, <2>3, <2>4, <2>5, <2>6, Others
<1>6. ASSUME NEW p \in Procs, LockClose(p)
      PROVE  Paths' /\ Locked' /\ World' /\ Knowledge'
  <2>1. \A q \in Procs : q # p => Kept(q)
    BY <1>6 DEF LockClose, Goto, Finish, Kept, TasksTyped, PlaceTyped
  <2>2. Same /\ World'
    BY <1>6, Undisturbed DEF LockClose, Same, store, discord
  <2>3. \/ lock' = lock
        \/ lock = p /\ lock' = Nobody
        \/ lock = Nobody /\ lock' = p
    BY <1>6 DEF LockClose, memory
  <2>4. Way(p)'
    <3>1. CASE Finish(p)
      BY <3>1, Over DEF TasksTyped
    <3>2. CASE ~Finish(p)
      <4>1. /\ pc[p] = "close" /\ ticket[mine[p].t].status = "open"
            /\ op'[p] = op[p] /\ mine'[p].t = mine[p].t
            /\ \/ pc'[p] = "read" /\ ticket[mine[p].t].card = NoCard
              \/ pc'[p] = "drop"
        BY <3>2, <1>6 DEF LockClose, Goto, TasksTyped, PlaceTyped, Minds
      <4> QED
        BY <4>1, Names DEF Paths, Way
    <3> QED
      BY <3>1, <3>2
  <2>5. Holds(p)' <=> lock' = p
    BY <1>6, Names
       DEF LockClose, Goto, Finish, Locked, Holds, Writing, Paths, Way, TasksTyped, PlaceTyped,
           memory
  <2>6. Knows(p)'
    <3>1. CASE Finish(p)
      BY <3>1, Over DEF TasksTyped
    <3>2. CASE ~Finish(p)
      <4>1. /\ pc[p] = "close" /\ ticket[mine[p].t].status = "open"
            /\ op'[p] = op[p] /\ mine'[p].t = mine[p].t
            /\ \/ pc'[p] = "read" /\ ticket[mine[p].t].card = NoCard
              \/ pc'[p] = "drop"
        BY <3>2, <1>6 DEF LockClose, Goto, TasksTyped, PlaceTyped, Minds
      <4>2. PICK t \in Tickets : t = mine[p].t /\ t = mine'[p].t
        BY <4>1 DEF Paths, Way
      <4>3. /\ ticket'[t].status = ticket[t].status /\ ticket'[t].card = ticket[t].card
            /\ UNCHANGED <<words, logged>>
        BY <2>2 DEF Same
      <4>4. Knows(p) /\ Row(t)
        BY DEF Knowledge, World
      <4> QED
        BY <4>1, <4>2, <4>3, <4>4 DEF Knows, Row
    <3> QED
      BY <3>1, <3>2
  <2> QED
    BY <2>1, <2>2, <2>3, <2>4, <2>5, <2>6, Others
<1>7. ASSUME NEW p \in Procs, LockCard(p)
      PROVE  Paths' /\ Locked' /\ World' /\ Knowledge'
  <2>1. \A q \in Procs : q # p => Kept(q)
    BY <1>7 DEF LockCard, Goto, Finish, Moved, Kept, TasksTyped, PlaceTyped
  <2>2. Same /\ World'
    BY <1>7, Undisturbed DEF LockCard, Same, store, discord
  <2>3. \/ lock' = lock
        \/ lock = p /\ lock' = Nobody
        \/ lock = Nobody /\ lock' = p
    BY <1>7 DEF LockCard, memory
  <2>4. Way(p)'
    <3>1. CASE Moved(p)
      BY <3>1, Over DEF TasksTyped
    <3>2. CASE ~Moved(p)
      <4>1. /\ pc[p] = "card" /\ pc'[p] = "send"
            /\ op'[p] = op[p] /\ mine'[p].t = mine[p].t
            /\ ticket[mine[p].t].status = "open"
        BY <3>2, <1>7 DEF LockCard, Goto, TasksTyped, PlaceTyped, Minds
      <4> QED
        BY <4>1, Names DEF Paths, Way
    <3> QED
      BY <3>1, <3>2
  <2>5. Holds(p)' <=> lock' = p
    BY <1>7, Names
       DEF LockCard, Goto, Finish, Moved, Locked, Holds, Writing, Paths, Way, TasksTyped,
           PlaceTyped, memory
  <2>6. Knows(p)'
    <3>1. CASE Moved(p)
      BY <3>1, Over DEF TasksTyped
    <3>2. CASE ~Moved(p)
      <4>1. /\ pc[p] = "card" /\ pc'[p] = "send"
            /\ op'[p] = op[p] /\ mine'[p].t = mine[p].t
            /\ ticket[mine[p].t].status = "open"
        BY <3>2, <1>7 DEF LockCard, Goto, TasksTyped, PlaceTyped, Minds
      <4>2. PICK t \in Tickets : t = mine[p].t /\ t = mine'[p].t
        BY <4>1 DEF Paths, Way
      <4>3. /\ ticket'[t].status = ticket[t].status /\ ticket'[t].card = ticket[t].card
            /\ UNCHANGED <<words, logged>>
        BY <2>2 DEF Same
      <4>4. Knows(p) /\ Row(t)
        BY DEF Knowledge, World
      <4> QED
        BY <4>1, <4>2, <4>3, <4>4 DEF Knows, Row
    <3> QED
      BY <3>1, <3>2
  <2> QED
    BY <2>1, <2>2, <2>3, <2>4, <2>5, <2>6, Others
<1>8. ASSUME NEW p \in Procs, MakeRefused(p)
      PROVE  Paths' /\ Locked' /\ World' /\ Knowledge'
  <2>1. \A q \in Procs : q # p => Kept(q)
    BY <1>8 DEF MakeRefused, Goto, Kept, TasksTyped, PlaceTyped
  <2>2. Same /\ World'
    BY <1>8, Undisturbed DEF MakeRefused, Same, store, discord
  <2>3. \/ lock' = lock
        \/ lock = p /\ lock' = Nobody
        \/ lock = Nobody /\ lock' = p
    BY <1>8 DEF MakeRefused, memory
  <2>4. Way(p)'
    BY <1>8, Names DEF MakeRefused, Goto, Paths, Way, TasksTyped, PlaceTyped, Nothing
  <2>5. Holds(p)' <=> lock' = p
    BY <1>8, Names
       DEF MakeRefused, Goto, Locked, Holds, Writing, Paths, Way, TasksTyped, PlaceTyped, memory
  <2>6. Knows(p)'
    <3>1. /\ pc[p] = "make" /\ pc'[p] = "abandon"
          /\ op'[p] = op[p] /\ mine'[p] = mine[p]
      BY <1>8 DEF MakeRefused, Goto, TasksTyped, PlaceTyped
    <3>2. PICK t \in Tickets : t = mine[p].t /\ t = mine'[p].t
      BY <3>1 DEF Paths, Way
    <3>3. /\ ticket'[t].status = ticket[t].status /\ ticket'[t].card = ticket[t].card
          /\ UNCHANGED <<words, logged>>
      BY <2>2 DEF Same
    <3>4. Knows(p) /\ Row(t)
      BY DEF Knowledge, World
    <3> QED
      BY <3>1, <3>2, <3>3, <3>4 DEF Knows, Row
  <2> QED
    BY <2>1, <2>2, <2>3, <2>4, <2>5, <2>6, Others
<1>9. ASSUME NEW p \in Procs, RelayRefused(p)
      PROVE  Paths' /\ Locked' /\ World' /\ Knowledge'
  <2>1. \A q \in Procs : q # p => Kept(q)
    BY <1>9 DEF RelayRefused, Goto, Kept, TasksTyped, PlaceTyped
  <2>2. Same /\ World'
    BY <1>9, Undisturbed DEF RelayRefused, Same, store, discord
  <2>3. \/ lock' = lock
        \/ lock = p /\ lock' = Nobody
        \/ lock = Nobody /\ lock' = p
    BY <1>9 DEF RelayRefused, memory
  <2>4. Way(p)'
    BY <1>9, Names DEF RelayRefused, Goto, Paths, Way, TasksTyped, PlaceTyped, Nothing
  <2>5. Holds(p)' <=> lock' = p
    BY <1>9, Names
       DEF RelayRefused, Goto, Locked, Holds, Writing, Paths, Way, TasksTyped, PlaceTyped, memory
  <2>6. Knows(p)'
    BY <1>9
       DEF RelayRefused, Goto, Knowledge, Knows, Paths, Way, TasksTyped, PlaceTyped, WorldTyped,
           store, discord, memory
  <2> QED
    BY <2>1, <2>2, <2>3, <2>4, <2>5, <2>6, Others
<1>10. ASSUME NEW p \in Procs, TranscriptRefused(p)
      PROVE  Paths' /\ Locked' /\ World' /\ Knowledge'
  <2>1. \A q \in Procs : q # p => Kept(q)
    BY <1>10 DEF TranscriptRefused, Finish, Kept, TasksTyped, PlaceTyped
  <2>2. Same /\ World'
    BY <1>10, Undisturbed DEF TranscriptRefused, Same, store, discord
  <2>3. \/ lock' = lock
        \/ lock = p /\ lock' = Nobody
        \/ lock = Nobody /\ lock' = p
    BY <1>10 DEF TranscriptRefused, Leave, memory
  <2>4. Way(p)'
    BY <1>10, Names DEF TranscriptRefused, Finish, Paths, Way, TasksTyped, PlaceTyped, Nothing
  <2>5. Holds(p)' <=> lock' = p
    BY <1>10, Names
       DEF TranscriptRefused, Finish, Leave, Locked, Holds, Writing, Paths, Way, TasksTyped,
           PlaceTyped, memory
  <2>6. Knows(p)'
    BY <1>10
       DEF TranscriptRefused, Finish, Leave, Knowledge, Knows, Paths, Way, TasksTyped, PlaceTyped,
           WorldTyped, store, discord, memory
  <2> QED
    BY <2>1, <2>2, <2>3, <2>4, <2>5, <2>6, Others
<1>11. ASSUME NEW p \in Procs, SendRefused(p)
      PROVE  Paths' /\ Locked' /\ World' /\ Knowledge'
  <2>1. \A q \in Procs : q # p => Kept(q)
    BY <1>11 DEF SendRefused, Goto, Finish, Moved, Kept, TasksTyped, PlaceTyped
  <2>2. Same /\ World'
    BY <1>11, Undisturbed DEF SendRefused, Same, store, discord
  <2>3. \/ lock' = lock
        \/ lock = p /\ lock' = Nobody
        \/ lock = Nobody /\ lock' = p
    BY <1>11 DEF SendRefused, Leave, memory
  <2>4. Way(p)'
    BY <1>11, Over DEF SendRefused, TasksTyped
  <2>5. Holds(p)' <=> lock' = p
    BY <1>11, Names
       DEF SendRefused, Goto, Finish, Moved, Leave, Locked, Holds, Writing, Paths, Way, TasksTyped,
           PlaceTyped, memory
  <2>6. Knows(p)'
    BY <1>11
       DEF SendRefused, Goto, Finish, Moved, Leave, Knowledge, Knows, Paths, Way, TasksTyped,
           PlaceTyped, WorldTyped, store, discord, memory
  <2> QED
    BY <2>1, <2>2, <2>3, <2>4, <2>5, <2>6, Others
<1>12. ASSUME NEW p \in Procs, DropRefused(p)
      PROVE  Paths' /\ Locked' /\ World' /\ Knowledge'
  <2>1. \A q \in Procs : q # p => Kept(q)
    BY <1>12 DEF DropRefused, Goto, Finish, Moved, AfterDrop, Kept, TasksTyped, PlaceTyped
  <2>2. Same /\ World'
    BY <1>12, Undisturbed DEF DropRefused, Same, store, discord
  <2>3. \/ lock' = lock
        \/ lock = p /\ lock' = Nobody
        \/ lock = Nobody /\ lock' = p
    BY <1>12 DEF DropRefused, Leave, AfterDrop, memory
  <2>4. Way(p)'
    <3>1. CASE Moved(p)
      BY <3>1, Over DEF TasksTyped
    <3>2. CASE ~Moved(p)
      <4>1. /\ pc[p] = "dropOld" /\ pc'[p] = "read" /\ op[p] = "close"
            /\ op'[p] = op[p] /\ mine'[p] = mine[p]
        BY <3>2, <1>12 DEF DropRefused, Goto, AfterDrop, TasksTyped, PlaceTyped
      <4> QED
        BY <4>1, Names DEF Paths, Way
    <3> QED
      BY <3>1, <3>2
  <2>5. Holds(p)' <=> lock' = p
    BY <1>12, Names
       DEF DropRefused, Goto, Finish, Moved, AfterDrop, Leave, Locked, Holds, Writing, Paths, Way,
           TasksTyped, PlaceTyped, memory
  <2>6. Knows(p)'
    BY <1>12
       DEF DropRefused, Goto, Finish, Moved, AfterDrop, Leave, Knowledge, Knows, Paths, Way,
           TasksTyped, PlaceTyped, WorldTyped, store, discord, memory
  <2> QED
    BY <2>1, <2>2, <2>3, <2>4, <2>5, <2>6, Others
<1>13. ASSUME NEW p \in Procs, Create(p)
      PROVE  Paths' /\ Locked' /\ World' /\ Knowledge'
  <2>1. \A q \in Procs : q # p => Kept(q)
    BY <1>13 DEF Create, Goto, Kept, TasksTyped, PlaceTyped
  <2>2. World'
    <3>1. PICK t \in Tickets : /\ ticket[t].status = "none"
                               /\ ticket' = [ticket EXCEPT ![t].status = "open"]
      BY <1>13 DEF Create
    <3>2. \A u \in Tickets : /\ ticket'[u].status = IF u = t THEN "open" ELSE ticket[u].status
                             /\ ticket'[u].card = ticket[u].card
      BY <3>1 DEF WorldTyped, TicketRows
    <3>3. UNCHANGED <<words, room, logged>>
      BY <1>13 DEF Create, discord
    <3>4. \A u \in Tickets : Row(u)'
      BY <3>1, <3>2, <3>3 DEF World, Row
    <3>5. OneOpenTicket'
      <4>1. Open = {}
        BY <1>13 DEF Create, Knowledge, Knows
      <4> QED
        BY <4>1, <3>2 DEF OneOpenTicket, Open
    <3>6. EveryWordIsKept'
      BY <3>3 DEF World, EveryWordIsKept
    <3> QED
      BY <3>4, <3>5, <3>6 DEF World
  <2>3. \/ lock' = lock
        \/ lock = p /\ lock' = Nobody
        \/ lock = Nobody /\ lock' = p
    BY <1>13 DEF Create, memory
  <2>4. Way(p)'
    BY <1>13, Names DEF Create, Goto, Paths, Way, TasksTyped, PlaceTyped, Nothing
  <2>5. Holds(p)' <=> lock' = p
    BY <1>13, Names
       DEF Create, Goto, Locked, Holds, Writing, Paths, Way, TasksTyped, PlaceTyped, memory
  <2>6. Knows(p)'
    BY <1>13
       DEF Create, Goto, Knowledge, Knows, Paths, Way, TasksTyped, PlaceTyped, WorldTyped, store,
           discord, memory, World, Row, TicketRows
  <2>7. lock = p
    BY <1>13 DEF Create, Locked, Holds, Writing, Paths, Way
  <2> QED
    BY <2>1, <2>2, <2>3, <2>4, <2>5, <2>6, <2>7, Others
<1>14. ASSUME NEW p \in Procs, Make(p)
      PROVE  Paths' /\ Locked' /\ World' /\ Knowledge'
  <2>1. \A q \in Procs : q # p => Kept(q)
    BY <1>14 DEF Make, Goto, Kept, TasksTyped, PlaceTyped
  <2>2. Same /\ World'
    BY <1>14, Undisturbed DEF Make, Same, store, discord, WorldTyped, TicketRows, RoomRows
  <2>3. \/ lock' = lock
        \/ lock = p /\ lock' = Nobody
        \/ lock = Nobody /\ lock' = p
    BY <1>14 DEF Make, memory
  <2>4. Way(p)'
    BY <1>14, Names DEF Make, Goto, Paths, Way, TasksTyped, PlaceTyped, Nothing
  <2>5. Holds(p)' <=> lock' = p
    BY <1>14, Names
       DEF Make, Goto, Locked, Holds, Writing, Paths, Way, TasksTyped, PlaceTyped, memory
  <2>6. Knows(p)'
    <3>1. /\ pc[p] = "make" /\ pc'[p] = "place"
          /\ op'[p] = op[p] /\ mine'[p] = mine[p]
      BY <1>14 DEF Make, Goto, TasksTyped, PlaceTyped
    <3>2. PICK t \in Tickets : t = mine[p].t /\ t = mine'[p].t
      BY <3>1 DEF Paths, Way
    <3>3. /\ ticket'[t].status = ticket[t].status /\ ticket'[t].card = ticket[t].card
          /\ UNCHANGED <<words, logged>>
      BY <2>2 DEF Same
    <3>4. Knows(p) /\ Row(t)
      BY DEF Knowledge, World
    <3> QED
      BY <3>1, <3>2, <3>3, <3>4 DEF Knows, Row
  <2> QED
    BY <2>1, <2>2, <2>3, <2>4, <2>5, <2>6, Others
<1>15. ASSUME NEW p \in Procs, Abandon(p)
      PROVE  Paths' /\ Locked' /\ World' /\ Knowledge'
  <2>1. \A q \in Procs : q # p => Kept(q)
    BY <1>15 DEF Abandon, Finish, Kept, TasksTyped, PlaceTyped
  <2>2. World'
    <3>. PICK t \in Tickets : t = mine[p].t
      BY <1>15 DEF Abandon, Paths, Way
    <3>1. ticket[t].status = "open" /\ ticket[t].card = NoCard
      BY <1>15 DEF Abandon, Knowledge, Knows
    <3>2. \A u \in Tickets : /\ ticket'[u].status = IF u = t THEN "closed" ELSE ticket[u].status
                             /\ ticket'[u].card = ticket[u].card
      BY <1>15 DEF Abandon, WorldTyped, TicketRows
    <3>3. UNCHANGED <<words, room, logged>>
      BY <1>15 DEF Abandon, discord
    <3>4. \A u \in Tickets : Row(u)'
      BY <3>1, <3>2, <3>3 DEF World, Row
    <3>5. OneOpenTicket'
      BY <3>2 DEF World, OneOpenTicket, Open
    <3>6. EveryWordIsKept'
      BY <3>3 DEF World, EveryWordIsKept
    <3> QED
      BY <3>4, <3>5, <3>6 DEF World
  <2>3. \/ lock' = lock
        \/ lock = p /\ lock' = Nobody
        \/ lock = Nobody /\ lock' = p
    BY <1>15 DEF Abandon, Leave, memory
  <2>4. Way(p)'
    BY <1>15, Names DEF Abandon, Finish, Paths, Way, TasksTyped, PlaceTyped, Nothing
  <2>5. Holds(p)' <=> lock' = p
    BY <1>15, Names
       DEF Abandon, Finish, Leave, Locked, Holds, Writing, Paths, Way, TasksTyped, PlaceTyped,
           memory
  <2>6. Knows(p)'
    BY <1>15
       DEF Abandon, Finish, Leave, Knowledge, Knows, Paths, Way, TasksTyped, PlaceTyped, WorldTyped,
           store, discord, memory, World, Row, TicketRows
  <2>7. lock = p
    BY <1>15 DEF Abandon, Locked, Holds, Writing, Paths, Way
  <2> QED
    BY <2>1, <2>2, <2>3, <2>4, <2>5, <2>6, <2>7, Others
<1>16. ASSUME NEW p \in Procs, Place(p)
      PROVE  Paths' /\ Locked' /\ World' /\ Knowledge'
  <2>1. \A q \in Procs : q # p => Kept(q)
    BY <1>16 DEF Place, Goto, Kept, TasksTyped, PlaceTyped
  <2>2. Same /\ World'
    BY <1>16, Undisturbed DEF Place, Same, store, discord, WorldTyped, TicketRows, RoomRows
  <2>3. \/ lock' = lock
        \/ lock = p /\ lock' = Nobody
        \/ lock = Nobody /\ lock' = p
    BY <1>16 DEF Place, memory
  <2>4. Way(p)'
    BY <1>16, Names DEF Place, Goto, Paths, Way, TasksTyped, PlaceTyped, Nothing
  <2>5. Holds(p)' <=> lock' = p
    BY <1>16, Names
       DEF Place, Goto, Locked, Holds, Writing, Paths, Way, TasksTyped, PlaceTyped, memory
  <2>6. Knows(p)'
    <3>1. /\ pc[p] = "place" /\ pc'[p] = "header"
          /\ op'[p] = op[p] /\ mine'[p] = mine[p]
      BY <1>16 DEF Place, Goto, TasksTyped, PlaceTyped
    <3>2. PICK t \in Tickets : t = mine[p].t /\ t = mine'[p].t
      BY <3>1 DEF Paths, Way
    <3>3. /\ ticket'[t].status = ticket[t].status /\ ticket'[t].card = ticket[t].card
          /\ UNCHANGED <<words, logged>>
      BY <2>2 DEF Same
    <3>4. Knows(p) /\ Row(t)
      BY DEF Knowledge, World
    <3> QED
      BY <3>1, <3>2, <3>3, <3>4 DEF Knows, Row
  <2> QED
    BY <2>1, <2>2, <2>3, <2>4, <2>5, <2>6, Others
<1>17. ASSUME NEW p \in Procs, Header(p)
      PROVE  Paths' /\ Locked' /\ World' /\ Knowledge'
  <2>1. \A q \in Procs : q # p => Kept(q)
    BY <1>17 DEF Header, Goto, Kept, TasksTyped, PlaceTyped
  <2>2. Same /\ World'
    BY <1>17, Undisturbed
       DEF Header, Speaks, Stands, Same, store, discord, WorldTyped, TicketRows, RoomRows
  <2>3. \/ lock' = lock
        \/ lock = p /\ lock' = Nobody
        \/ lock = Nobody /\ lock' = p
    BY <1>17 DEF Header, memory
  <2>4. Way(p)'
    BY <1>17, Names DEF Header, Goto, Paths, Way, TasksTyped, PlaceTyped, Nothing
  <2>5. Holds(p)' <=> lock' = p
    BY <1>17, Names
       DEF Header, Goto, Locked, Holds, Writing, Paths, Way, TasksTyped, PlaceTyped, memory
  <2>6. Knows(p)'
    <3>1. /\ pc[p] = "header" /\ pc'[p] = "record"
          /\ op'[p] = op[p] /\ mine'[p] = mine[p]
      BY <1>17 DEF Header, Goto, TasksTyped, PlaceTyped
    <3>2. PICK t \in Tickets : t = mine[p].t /\ t = mine'[p].t
      BY <3>1 DEF Paths, Way
    <3>3. /\ ticket'[t].status = ticket[t].status /\ ticket'[t].card = ticket[t].card
          /\ UNCHANGED <<words, logged>>
      BY <2>2 DEF Same
    <3>4. Knows(p) /\ Row(t)
      BY DEF Knowledge, World
    <3> QED
      BY <3>1, <3>2, <3>3, <3>4 DEF Knows, Row
  <2> QED
    BY <2>1, <2>2, <2>3, <2>4, <2>5, <2>6, Others
<1>18. ASSUME NEW p \in Procs, Record(p)
      PROVE  Paths' /\ Locked' /\ World' /\ Knowledge'
  <2>1. \A q \in Procs : q # p => Kept(q)
    BY <1>18 DEF Record, Goto, Kept, TasksTyped, PlaceTyped
  <2>2. World'
    BY <1>18
       DEF Record, World, Row, OneOpenTicket, EveryWordIsKept, Open, Paths, Way, Knowledge, Knows,
           WorldTyped, TicketRows, RoomRows, store, discord, NoRoom
  <2>3. \/ lock' = lock
        \/ lock = p /\ lock' = Nobody
        \/ lock = Nobody /\ lock' = p
    BY <1>18 DEF Record, memory
  <2>4. Way(p)'
    BY <1>18, Names DEF Record, Goto, Paths, Way, TasksTyped, PlaceTyped, Nothing
  <2>5. Holds(p)' <=> lock' = p
    BY <1>18, Names
       DEF Record, Goto, Locked, Holds, Writing, Paths, Way, TasksTyped, PlaceTyped, memory
  <2>6. Knows(p)'
    BY <1>18
       DEF Record, Goto, Knowledge, Knows, Paths, Way, TasksTyped, PlaceTyped, WorldTyped, store,
           discord, memory, World, Row
  <2>7. lock = p
    BY <1>18 DEF Record, Locked, Holds, Writing, Paths, Way
  <2> QED
    BY <2>1, <2>2, <2>3, <2>4, <2>5, <2>6, <2>7, Others
<1>19. ASSUME NEW p \in Procs, Relay(p)
      PROVE  Paths' /\ Locked' /\ World' /\ Knowledge'
  <2>1. \A q \in Procs : q # p => Kept(q)
    BY <1>19 DEF Relay, Goto, Kept, TasksTyped, PlaceTyped
  <2>2. Same /\ World'
    BY <1>19, Undisturbed
       DEF Relay, Speaks, Stands, Same, store, discord, WorldTyped, TicketRows, RoomRows
  <2>3. \/ lock' = lock
        \/ lock = p /\ lock' = Nobody
        \/ lock = Nobody /\ lock' = p
    BY <1>19 DEF Relay, memory
  <2>4. Way(p)'
    BY <1>19, Names DEF Relay, Goto, Paths, Way, TasksTyped, PlaceTyped, Nothing
  <2>5. Holds(p)' <=> lock' = p
    BY <1>19, Names
       DEF Relay, Goto, Locked, Holds, Writing, Paths, Way, TasksTyped, PlaceTyped, memory
  <2>6. Knows(p)'
    BY <1>19
       DEF Relay, Goto, Knowledge, Knows, Paths, Way, TasksTyped, PlaceTyped, WorldTyped, store,
           discord, memory
  <2> QED
    BY <2>1, <2>2, <2>3, <2>4, <2>5, <2>6, Others
<1>20. ASSUME NEW p \in Procs, Bumped(p)
      PROVE  Paths' /\ Locked' /\ World' /\ Knowledge'
  <2>. PICK t \in Tickets : t = mine[p].t
    BY <1>20 DEF Bumped, Paths, Way
  <2>0. pc[p] = "bump" /\ t \in Procs /\ t # p /\ op[p] \in {"ask", "write"}
    BY <1>20, Names DEF Bumped, Paths, Way
  <2>1. Same /\ World'
    BY <1>20, Undisturbed DEF Bumped, store, discord, Same
  <2>2. /\ \A q \in Procs : q \notin {p, t} => Kept(q)
        /\ pc'[p] = "idle" /\ op'[p] = "none" /\ mine'[p] = Nothing
        /\ op'[t] = op[t] /\ mine'[t] = mine[t]
        /\ pc'[t] = IF pc[t] = "idle" THEN "sleep" ELSE pc[t]
    BY <1>20, <2>0 DEF Bumped, Kept, TasksTyped, PlaceTyped
  <2>3. Way(p)' /\ ~Holds(p)' /\ Knows(p)'
    BY <2>0, <2>2 DEF Paths, Way, Holds, Writing, Knows
  <2>4. Way(t)' /\ (Holds(t)' <=> Holds(t)) /\ Knows(t)'
    <3>1. CASE pc[t] = "idle"
      BY <2>0, <2>2, <3>1 DEF Paths, Way, Holds, Writing, Knows
    <3>2. CASE pc[t] # "idle"
      <4>1. Kept(t)
        BY <2>2, <3>2 DEF Kept
      <4>2. Knows(t)'
        BY <4>1, <2>0, <2>1, StillKnows
      <4> QED
        BY <4>1, <4>2, <2>0 DEF Paths, Way, Holds, Kept
    <3> QED
      BY <3>1, <3>2
  <2>5. \A q \in Procs : q \notin {p, t} => Way(q)' /\ (Holds(q)' <=> Holds(q)) /\ Knows(q)'
    <3>1. \A q \in Procs : q \notin {p, t} => Knows(q)'
      BY <2>1, <2>2, StillKnows
    <3> QED
      BY <3>1, <2>2 DEF Paths, Way, Holds, Kept
  <2>6. lock' = IF Holds(p) THEN Nobody ELSE lock
    BY <1>20, <2>0 DEF Bumped, Leave, Locked
  <2>7. \A q \in Procs : Holds(q)' <=> lock' = q
    BY <2>0, <2>3, <2>4, <2>5, <2>6, Names DEF Locked
  <2> QED
    BY <2>1, <2>3, <2>4, <2>5, <2>7 DEF Paths, Locked, Knowledge
<1>21. ASSUME NEW p \in Procs, Drop(p)
      PROVE  Paths' /\ Locked' /\ World' /\ Knowledge'
  <2>1. \A q \in Procs : q # p => Kept(q)
    BY <1>21 DEF Drop, Goto, Kept, TasksTyped, PlaceTyped
  <2>2. World'
    BY <1>21
       DEF Drop, World, Row, OneOpenTicket, EveryWordIsKept, Open, Paths, Way, Knowledge, Knows,
           WorldTyped, TicketRows, RoomRows, store, discord, NoRoom
  <2>3. \/ lock' = lock
        \/ lock = p /\ lock' = Nobody
        \/ lock = Nobody /\ lock' = p
    BY <1>21 DEF Drop, memory
  <2>4. Way(p)'
    BY <1>21, Names DEF Drop, Goto, Paths, Way, TasksTyped, PlaceTyped, Nothing
  <2>5. Holds(p)' <=> lock' = p
    BY <1>21, Names
       DEF Drop, Goto, Locked, Holds, Writing, Paths, Way, TasksTyped, PlaceTyped, memory
  <2>6. Knows(p)'
    <3>1. /\ pc[p] = "drop" /\ pc'[p] = "dropOld"
          /\ op'[p] = op[p] /\ mine'[p] = mine[p]
      BY <1>21 DEF Drop, Goto, TasksTyped, PlaceTyped
    <3>2. PICK t \in Tickets : t = mine[p].t /\ t = mine'[p].t
      BY <3>1 DEF Paths, Way
    <3>3. /\ ticket'[t].status = ticket[t].status /\ ticket'[t].card = NoCard
          /\ UNCHANGED <<words, logged>>
      BY <1>21, <3>2 DEF Drop, WorldTyped, TicketRows, discord
    <3>4. Knows(p) /\ Row(t)
      BY DEF Knowledge, World
    <3> QED
      BY <3>1, <3>2, <3>3, <3>4 DEF Knows, Row
  <2>7. lock = p
    BY <1>21 DEF Drop, Locked, Holds, Writing, Paths, Way
  <2> QED
    BY <2>1, <2>2, <2>3, <2>4, <2>5, <2>6, <2>7, Others
<1>22. ASSUME NEW p \in Procs, Read(p)
      PROVE  Paths' /\ Locked' /\ World' /\ Knowledge'
  <2>1. \A q \in Procs : q # p => Kept(q)
    BY <1>22 DEF Read, Goto, Kept, TasksTyped, PlaceTyped
  <2>2. Same /\ World'
    BY <1>22, Undisturbed DEF Read, Same, store, discord
  <2>3. \/ lock' = lock
        \/ lock = p /\ lock' = Nobody
        \/ lock = Nobody /\ lock' = p
    BY <1>22 DEF Read, memory
  <2>4. Way(p)'
    BY <1>22, Names DEF Read, Goto, Paths, Way, TasksTyped, PlaceTyped, Nothing
  <2>5. Holds(p)' <=> lock' = p
    BY <1>22, Names
       DEF Read, Goto, Locked, Holds, Writing, Paths, Way, TasksTyped, PlaceTyped, memory
  <2>6. Knows(p)'
    <3>1. /\ pc[p] = "read" /\ pc'[p] = "mark"
          /\ op'[p] = op[p] /\ mine'[p].t = mine[p].t
          /\ mine'[p].words = words[mine[p].t]
      BY <1>22 DEF Read, Goto, TasksTyped, PlaceTyped, Minds
    <3>2. PICK t \in Tickets : t = mine[p].t /\ t = mine'[p].t
      BY <3>1 DEF Paths, Way
    <3>3. /\ ticket'[t].status = ticket[t].status /\ ticket'[t].card = ticket[t].card
          /\ UNCHANGED <<words, logged>>
      BY <2>2 DEF Same
    <3>4. Knows(p) /\ Row(t)
      BY DEF Knowledge, World
    <3> QED
      BY <3>1, <3>2, <3>3, <3>4 DEF Knows, Row
  <2> QED
    BY <2>1, <2>2, <2>3, <2>4, <2>5, <2>6, Others
<1>23. ASSUME NEW p \in Procs, MarkClosed(p)
      PROVE  Paths' /\ Locked' /\ World' /\ Knowledge'
  <2>1. \A q \in Procs : q # p => Kept(q)
    BY <1>23 DEF MarkClosed, Goto, Kept, TasksTyped, PlaceTyped
  <2>2. World'
    <3>. PICK t \in Tickets : t = mine[p].t
      BY <1>23 DEF MarkClosed, Paths, Way
    <3>1. ticket[t].status = "open" /\ ticket[t].card = NoCard
      BY <1>23 DEF MarkClosed, Knowledge, Knows
    <3>2. \A u \in Tickets : /\ ticket'[u].status = IF u = t THEN "closed" ELSE ticket[u].status
                             /\ ticket'[u].card = ticket[u].card
      BY <1>23 DEF MarkClosed, WorldTyped, TicketRows
    <3>3. UNCHANGED <<words, room, logged>>
      BY <1>23 DEF MarkClosed, discord
    <3>4. \A u \in Tickets : Row(u)'
      BY <3>1, <3>2, <3>3 DEF World, Row
    <3>5. OneOpenTicket'
      BY <3>2 DEF World, OneOpenTicket, Open
    <3>6. EveryWordIsKept'
      BY <3>3 DEF World, EveryWordIsKept
    <3> QED
      BY <3>4, <3>5, <3>6 DEF World
  <2>3. \/ lock' = lock
        \/ lock = p /\ lock' = Nobody
        \/ lock = Nobody /\ lock' = p
    BY <1>23 DEF MarkClosed, memory
  <2>4. Way(p)'
    BY <1>23, Names DEF MarkClosed, Goto, Paths, Way, TasksTyped, PlaceTyped, Nothing
  <2>5. Holds(p)' <=> lock' = p
    BY <1>23, Names
       DEF MarkClosed, Goto, Locked, Holds, Writing, Paths, Way, TasksTyped, PlaceTyped, memory
  <2>6. Knows(p)'
    <3>1. /\ pc[p] = "mark" /\ pc'[p] = "transcript"
          /\ op'[p] = op[p] /\ mine'[p] = mine[p]
      BY <1>23 DEF MarkClosed, Goto, TasksTyped, PlaceTyped
    <3>2. PICK t \in Tickets : t = mine[p].t /\ t = mine'[p].t
      BY <3>1 DEF Paths, Way
    <3>3. /\ ticket'[t].status = "closed" /\ ticket'[t].card = ticket[t].card
          /\ UNCHANGED <<words, logged>>
      BY <1>23, <3>2 DEF MarkClosed, WorldTyped, TicketRows, discord
    <3>4. Knows(p) /\ Row(t)
      BY DEF Knowledge, World
    <3> QED
      BY <3>1, <3>2, <3>3, <3>4 DEF Knows, Row
  <2>7. lock = p
    BY <1>23 DEF MarkClosed, Locked, Holds, Writing, Paths, Way
  <2> QED
    BY <2>1, <2>2, <2>3, <2>4, <2>5, <2>6, <2>7, Others
<1>24. ASSUME NEW p \in Procs, Transcript(p)
      PROVE  Paths' /\ Locked' /\ World' /\ Knowledge'
  <2>1. \A q \in Procs : q # p => Kept(q)
    BY <1>24 DEF Transcript, Goto, Kept, TasksTyped, PlaceTyped
  <2>2. World'
    <3>. PICK t \in Tickets : t = mine[p].t
      BY <1>24 DEF Transcript, Paths, Way
    <3>1. /\ ticket[t].status = "closed" /\ logged[t].times = 0
          /\ mine[p].words = words[t]
      BY <1>24 DEF Transcript, Knowledge, Knows
    <3>2. \A u \in Tickets : logged'[u] = IF u = t THEN [times |-> 1, words |-> words[t]]
                                                  ELSE logged[u]
      BY <1>24, <3>1 DEF Transcript, WorldTyped
    <3>3. UNCHANGED <<ticket, words, room>>
      BY <1>24 DEF Transcript, store
    <3>4. \A u \in Tickets : Row(u)'
      BY <3>1, <3>2, <3>3 DEF World, Row
    <3>5. OneOpenTicket'
      BY <3>3 DEF World, OneOpenTicket, Open
    <3>6. EveryWordIsKept'
      BY <3>2, <3>3 DEF World, EveryWordIsKept
    <3> QED
      BY <3>4, <3>5, <3>6 DEF World
  <2>3. \/ lock' = lock
        \/ lock = p /\ lock' = Nobody
        \/ lock = Nobody /\ lock' = p
    BY <1>24 DEF Transcript, memory
  <2>4. Way(p)'
    BY <1>24, Names DEF Transcript, Goto, Paths, Way, TasksTyped, PlaceTyped, Nothing
  <2>5. Holds(p)' <=> lock' = p
    BY <1>24, Names
       DEF Transcript, Goto, Locked, Holds, Writing, Paths, Way, TasksTyped, PlaceTyped, memory
  <2>6. Knows(p)'
    BY <1>24
       DEF Transcript, Goto, Knowledge, Knows, Paths, Way, TasksTyped, PlaceTyped, WorldTyped,
           store, discord, memory, World, Row
  <2>7. lock = p
    BY <1>24 DEF Transcript, Locked, Holds, Writing, Paths, Way
  <2> QED
    BY <2>1, <2>2, <2>3, <2>4, <2>5, <2>6, <2>7, Others
<1>25. ASSUME NEW p \in Procs, Remove(p)
      PROVE  Paths' /\ Locked' /\ World' /\ Knowledge'
  <2>1. \A q \in Procs : q # p => Kept(q)
    BY <1>25 DEF Remove, Finish, Kept, TasksTyped, PlaceTyped
  <2>2. World'
    <3>. PICK t \in Tickets : t = mine[p].t
      BY <1>25 DEF Remove, Paths, Way
    <3>1. /\ ticket[t].status = "closed"
          /\ logged[t] = [times |-> 1, words |-> words[t]]
      BY <1>25 DEF Remove, Knowledge, Knows
    <3>2. \A u \in Tickets : room'[u].is = "removed" => u = t \/ room[u].is = "removed"
      BY <1>25 DEF Remove, WorldTyped, RoomRows
    <3>3. UNCHANGED <<ticket, words, logged>>
      BY <1>25 DEF Remove, store
    <3>4. \A u \in Tickets : Row(u)'
      BY <3>1, <3>2, <3>3 DEF World, Row
    <3>5. OneOpenTicket'
      BY <3>3 DEF World, OneOpenTicket, Open
    <3>6. EveryWordIsKept'
      BY <3>1, <3>2, <3>3 DEF World, EveryWordIsKept
    <3> QED
      BY <3>4, <3>5, <3>6 DEF World
  <2>3. \/ lock' = lock
        \/ lock = p /\ lock' = Nobody
        \/ lock = Nobody /\ lock' = p
    BY <1>25 DEF Remove, Leave, memory
  <2>4. Way(p)'
    BY <1>25, Names DEF Remove, Finish, Paths, Way, TasksTyped, PlaceTyped, Nothing
  <2>5. Holds(p)' <=> lock' = p
    BY <1>25, Names
       DEF Remove, Finish, Leave, Locked, Holds, Writing, Paths, Way, TasksTyped, PlaceTyped,
           memory
  <2>6. Knows(p)'
    BY <1>25
       DEF Remove, Finish, Leave, Knowledge, Knows, Paths, Way, TasksTyped, PlaceTyped, WorldTyped,
           store, discord, memory, World, Row
  <2>7. lock = p
    BY <1>25 DEF Remove, Locked, Holds, Writing, Paths, Way
  <2> QED
    BY <2>1, <2>2, <2>3, <2>4, <2>5, <2>6, <2>7, Others
<1>26. ASSUME NEW p \in Procs, Wake(p)
      PROVE  Paths' /\ Locked' /\ World' /\ Knowledge'
  <2>1. \A q \in Procs : q # p => Kept(q)
    BY <1>26, Names DEF Wake, Goto, Kept, TasksTyped, PlaceTyped
  <2>2. Same /\ World'
    BY <1>26, Undisturbed DEF Wake, Same, store, discord
  <2>3. \/ lock' = lock
        \/ lock = p /\ lock' = Nobody
        \/ lock = Nobody /\ lock' = p
    BY <1>26 DEF Wake, memory
  <2>4. Way(p)'
    BY <1>26, Names DEF Wake, Goto, Paths, Way, TasksTyped, PlaceTyped, Nothing
  <2>5. Holds(p)' <=> lock' = p
    BY <1>26, Names
       DEF Wake, Goto, Locked, Holds, Writing, Paths, Way, TasksTyped, PlaceTyped, memory
  <2>6. Knows(p)'
    BY <1>26
       DEF Wake, Goto, Knowledge, Knows, Paths, Way, TasksTyped, PlaceTyped, WorldTyped, store,
           discord, memory
  <2> QED
    BY <2>1, <2>2, <2>3, <2>4, <2>5, <2>6, Others
<1>27. ASSUME NEW p \in Procs, Look(p)
      PROVE  Paths' /\ Locked' /\ World' /\ Knowledge'
  <2>1. \A q \in Procs : q # p => Kept(q)
    BY <1>27 DEF Look, Goto, Finish, Moved, Kept, TasksTyped, PlaceTyped
  <2>2. Same /\ World'
    BY <1>27, Undisturbed DEF Look, Same, store, discord
  <2>3. \/ lock' = lock
        \/ lock = p /\ lock' = Nobody
        \/ lock = Nobody /\ lock' = p
    BY <1>27 DEF Look, memory
  <2>4. Way(p)'
    <3>1. CASE Moved(p)
      BY <3>1, Over DEF TasksTyped
    <3>2. CASE ~Moved(p)
      <4>1. /\ pc[p] = "look" /\ pc'[p] = "card"
            /\ op'[p] = op[p] /\ mine'[p] = mine[p]
        BY <3>2, <1>27 DEF Look, Goto, TasksTyped, PlaceTyped
      <4> QED
        BY <4>1, Names DEF Paths, Way
    <3> QED
      BY <3>1, <3>2
  <2>5. Holds(p)' <=> lock' = p
    BY <1>27, Names
       DEF Look, Goto, Finish, Moved, Locked, Holds, Writing, Paths, Way, TasksTyped, PlaceTyped,
           memory
  <2>6. Knows(p)'
    BY <1>27
       DEF Look, Goto, Finish, Moved, Knowledge, Knows, Paths, Way, TasksTyped, PlaceTyped,
           WorldTyped, store, discord, memory
  <2> QED
    BY <2>1, <2>2, <2>3, <2>4, <2>5, <2>6, Others
<1>28. ASSUME NEW p \in Procs, Send(p)
      PROVE  Paths' /\ Locked' /\ World' /\ Knowledge'
  <2>1. \A q \in Procs : q # p => Kept(q)
    BY <1>28 DEF Send, Goto, Finish, Moved, Kept, TasksTyped, PlaceTyped
  <2>2. Same /\ World'
    <3>1. \/ room' = room
          \/ \E new \in CardIds : Speaks(mine[p].t, new)
      BY <1>28 DEF Send
    <3>2. \A u \in Tickets : room'[u].is = room[u].is
      <4>1. CASE room' = room
        BY <4>1
      <4>2. CASE room' # room
        <5>1. PICK new \in CardIds : Speaks(mine[p].t, new)
          BY <4>2, <3>1
        <5> QED
          BY <5>1 DEF Speaks, WorldTyped, RoomRows
      <4> QED
        BY <4>1, <4>2
    <3> QED
      BY <1>28, <3>2, Undisturbed DEF Send, Same, store
  <2>3. \/ lock' = lock
        \/ lock = p /\ lock' = Nobody
        \/ lock = Nobody /\ lock' = p
    BY <1>28 DEF Send, Leave, memory
  <2>4. Way(p)'
    <3>1. CASE Moved(p)
      BY <3>1, Over DEF TasksTyped
    <3>2. CASE ~Moved(p)
      <4>1. /\ pc[p] = "send" /\ pc'[p] = "setCard"
            /\ op'[p] = op[p] /\ mine'[p].t = mine[p].t
        BY <3>2, <1>28 DEF Send, Goto, TasksTyped, PlaceTyped, Minds
      <4> QED
        BY <4>1, Names DEF Paths, Way
    <3> QED
      BY <3>1, <3>2
  <2>5. Holds(p)' <=> lock' = p
    BY <1>28, Names
       DEF Send, Goto, Finish, Moved, Leave, Locked, Holds, Writing, Paths, Way, TasksTyped,
           PlaceTyped, memory
  <2>6. Knows(p)'
    <3>1. CASE Moved(p)
      BY <3>1, Over DEF TasksTyped
    <3>2. CASE ~Moved(p)
      <4>1. /\ pc[p] = "send" /\ pc'[p] = "setCard"
            /\ op'[p] = op[p] /\ mine'[p].t = mine[p].t
        BY <3>2, <1>28 DEF Send, Goto, TasksTyped, PlaceTyped, Minds
      <4>2. PICK t \in Tickets : t = mine[p].t /\ t = mine'[p].t
        BY <4>1 DEF Paths, Way
      <4>3. /\ ticket'[t].status = ticket[t].status /\ ticket'[t].card = ticket[t].card
            /\ UNCHANGED <<words, logged>>
        BY <2>2 DEF Same
      <4>4. Knows(p) /\ Row(t)
        BY DEF Knowledge, World
      <4> QED
        BY <4>1, <4>2, <4>3, <4>4 DEF Knows, Row
    <3> QED
      BY <3>1, <3>2
  <2> QED
    BY <2>1, <2>2, <2>3, <2>4, <2>5, <2>6, Others
<1>29. ASSUME NEW p \in Procs, SetCard(p)
      PROVE  Paths' /\ Locked' /\ World' /\ Knowledge'
  <2>1. \A q \in Procs : q # p => Kept(q)
    BY <1>29 DEF SetCard, Goto, Finish, Moved, Kept, TasksTyped, PlaceTyped
  <2>2. World'
    <3>. PICK t \in Tickets : t = mine[p].t
      BY <1>29 DEF SetCard, Paths, Way
    <3>1. ticket[t].status = "open"
      BY <1>29 DEF SetCard, Knowledge, Knows
    <3>2. \A u \in Tickets : /\ ticket'[u].status = ticket[u].status
                             /\ u # t => ticket'[u].card = ticket[u].card
      BY <1>29 DEF SetCard, WorldTyped, TicketRows
    <3>3. UNCHANGED <<words, room, logged>>
      BY <1>29 DEF SetCard, discord
    <3>4. \A u \in Tickets : Row(u)'
      BY <3>1, <3>2, <3>3 DEF World, Row
    <3>5. OneOpenTicket'
      BY <3>2 DEF World, OneOpenTicket, Open
    <3>6. EveryWordIsKept'
      BY <3>3 DEF World, EveryWordIsKept
    <3> QED
      BY <3>4, <3>5, <3>6 DEF World
  <2>3. \/ lock' = lock
        \/ lock = p /\ lock' = Nobody
        \/ lock = Nobody /\ lock' = p
    BY <1>29 DEF SetCard, Leave, memory
  <2>4. Way(p)'
    <3>1. CASE Moved(p)
      BY <3>1, Over DEF TasksTyped
    <3>2. CASE ~Moved(p)
      <4>1. /\ pc[p] = "setCard" /\ pc'[p] = "dropOld"
            /\ op'[p] = op[p] /\ mine'[p] = mine[p]
        BY <3>2, <1>29 DEF SetCard, Goto, TasksTyped, PlaceTyped
      <4> QED
        BY <4>1, Names DEF Paths, Way
    <3> QED
      BY <3>1, <3>2
  <2>5. Holds(p)' <=> lock' = p
    BY <1>29, Names
       DEF SetCard, Goto, Finish, Moved, Leave, Locked, Holds, Writing, Paths, Way, TasksTyped,
           PlaceTyped, memory
  <2>6. Knows(p)'
    BY <1>29
       DEF SetCard, Goto, Finish, Moved, Leave, Knowledge, Knows, Paths, Way, TasksTyped,
           PlaceTyped, WorldTyped, store, discord, memory, World, Row, TicketRows
  <2>7. lock = p
    BY <1>29 DEF SetCard, Locked, Holds, Writing, Paths, Way
  <2> QED
    BY <2>1, <2>2, <2>3, <2>4, <2>5, <2>6, <2>7, Others
<1>30. ASSUME NEW p \in Procs, DropOld(p)
      PROVE  Paths' /\ Locked' /\ World' /\ Knowledge'
  <2>1. \A q \in Procs : q # p => Kept(q)
    BY <1>30 DEF DropOld, Goto, Finish, Moved, AfterDrop, Kept, TasksTyped, PlaceTyped
  <2>2. Same /\ World'
    <3>1. \A t \in Tickets : room'[t].is = room[t].is
      BY <1>30 DEF DropOld, Gone, WorldTyped, RoomRows
    <3>2. UNCHANGED <<ticket, words, logged>>
      BY <1>30 DEF DropOld, store
    <3>3. Same
      BY <3>1, <3>2 DEF Same
    <3> QED
      BY <3>3, Undisturbed
  <2>3. \/ lock' = lock
        \/ lock = p /\ lock' = Nobody
        \/ lock = Nobody /\ lock' = p
    BY <1>30 DEF DropOld, Leave, AfterDrop, memory
  <2>4. Way(p)'
    <3>1. CASE Moved(p)
      BY <3>1, Over DEF TasksTyped
    <3>2. CASE ~Moved(p)
      <4>1. /\ pc[p] = "dropOld" /\ pc'[p] = "read" /\ op[p] = "close"
            /\ op'[p] = op[p] /\ mine'[p] = mine[p]
        BY <3>2, <1>30 DEF DropOld, Goto, AfterDrop, TasksTyped, PlaceTyped
      <4> QED
        BY <4>1, Names DEF Paths, Way
    <3> QED
      BY <3>1, <3>2
  <2>5. Holds(p)' <=> lock' = p
    BY <1>30, Names
       DEF DropOld, Goto, Finish, Moved, AfterDrop, Leave, Locked, Holds, Writing, Paths, Way,
           TasksTyped, PlaceTyped, memory
  <2>6. Knows(p)'
    BY <1>30
       DEF DropOld, Goto, Finish, Moved, AfterDrop, Leave, Knowledge, Knows, Paths, Way, TasksTyped,
           PlaceTyped, WorldTyped, store, discord, memory
  <2> QED
    BY <2>1, <2>2, <2>3, <2>4, <2>5, <2>6, Others
<1>31. ASSUME BeginSweep
      PROVE  Paths' /\ Locked' /\ World' /\ Knowledge'
  <2>1. \A q \in Procs : q # Sweep => Kept(q)
    BY <1>31, Names DEF BeginSweep, Goto, Kept, TasksTyped, PlaceTyped
  <2>2. Same /\ World'
    BY <1>31, Undisturbed DEF BeginSweep, Same, store, discord
  <2>3. \/ lock' = lock
        \/ lock = Sweep /\ lock' = Nobody
        \/ lock = Nobody /\ lock' = Sweep
    BY <1>31 DEF BeginSweep, memory
  <2>4. Way(Sweep)'
    BY <1>31, Names DEF BeginSweep, Goto, Open, Paths, Way, TasksTyped, PlaceTyped, Nothing
  <2>5. Holds(Sweep)' <=> lock' = Sweep
    BY <1>31, Names
       DEF BeginSweep, Goto, Open, Locked, Holds, Writing, Paths, Way, TasksTyped, PlaceTyped,
           memory
  <2>6. Knows(Sweep)'
    BY <1>31, Names
       DEF BeginSweep, Goto, Open, Knowledge, Knows, Paths, Way, TasksTyped, PlaceTyped, WorldTyped,
           store, discord, memory
  <2> QED
    BY <2>1, <2>2, <2>3, <2>4, <2>5, <2>6, Others, Names
<1>32. ASSUME Resolve
      PROVE  Paths' /\ Locked' /\ World' /\ Knowledge'
  <2>1. \A q \in Procs : q # Sweep => Kept(q)
    BY <1>32, Names DEF Resolve, Goto, Finish, Kept, TasksTyped, PlaceTyped
  <2>2. Same /\ World'
    BY <1>32, Undisturbed DEF Resolve, Stands, Same, store, discord
  <2>3. \/ lock' = lock
        \/ lock = Sweep /\ lock' = Nobody
        \/ lock = Nobody /\ lock' = Sweep
    BY <1>32 DEF Resolve, memory
  <2>4. Way(Sweep)'
    BY <1>32, Names DEF Resolve, Goto, Finish, Paths, Way, TasksTyped, PlaceTyped, Nothing
  <2>5. Holds(Sweep)' <=> lock' = Sweep
    BY <1>32, Names
       DEF Resolve, Goto, Finish, Locked, Holds, Writing, Paths, Way, TasksTyped, PlaceTyped,
           memory
  <2>6. Knows(Sweep)'
    BY <1>32, Names
       DEF Resolve, Goto, Finish, Knowledge, Knows, Paths, Way, TasksTyped, PlaceTyped, WorldTyped,
           store, discord, memory
  <2> QED
    BY <2>1, <2>2, <2>3, <2>4, <2>5, <2>6, Others, Names
<1>33. ASSUME Strike
      PROVE  Paths' /\ Locked' /\ World' /\ Knowledge'
  <2>1. \A q \in Procs : q # Sweep => Kept(q)
    BY <1>33, Names DEF Strike, Goto, Finish, Kept, TasksTyped, PlaceTyped
  <2>2. Same /\ World'
    BY <1>33, Undisturbed DEF Strike, Stands, Same, store, discord
  <2>3. \/ lock' = lock
        \/ lock = Sweep /\ lock' = Nobody
        \/ lock = Nobody /\ lock' = Sweep
    BY <1>33 DEF Strike, memory
  <2>4. Way(Sweep)'
    BY <1>33, Names DEF Strike, Goto, Finish, Paths, Way, TasksTyped, PlaceTyped, Nothing
  <2>5. Holds(Sweep)' <=> lock' = Sweep
    BY <1>33, Names
       DEF Strike, Goto, Finish, Locked, Holds, Writing, Paths, Way, TasksTyped, PlaceTyped, memory
  <2>6. Knows(Sweep)'
    BY <1>33, Names
       DEF Strike, Goto, Finish, Knowledge, Knows, Paths, Way, TasksTyped, PlaceTyped, WorldTyped,
           store, discord, memory
  <2> QED
    BY <2>1, <2>2, <2>3, <2>4, <2>5, <2>6, Others, Names
<1>34. ASSUME Unknown
      PROVE  Paths' /\ Locked' /\ World' /\ Knowledge'
  <2>1. \A q \in Procs : q # Sweep => Kept(q)
    BY <1>34, Names DEF Unknown, Finish, Kept, TasksTyped, PlaceTyped
  <2>2. Same /\ World'
    BY <1>34, Undisturbed DEF Unknown, Same, store, discord
  <2>3. \/ lock' = lock
        \/ lock = Sweep /\ lock' = Nobody
        \/ lock = Nobody /\ lock' = Sweep
    BY <1>34 DEF Unknown, memory
  <2>4. Way(Sweep)'
    BY <1>34, Names DEF Unknown, Finish, Paths, Way, TasksTyped, PlaceTyped, Nothing
  <2>5. Holds(Sweep)' <=> lock' = Sweep
    BY <1>34, Names
       DEF Unknown, Finish, Locked, Holds, Writing, Paths, Way, TasksTyped, PlaceTyped, memory
  <2>6. Knows(Sweep)'
    BY <1>34, Names
       DEF Unknown, Finish, Knowledge, Knows, Paths, Way, TasksTyped, PlaceTyped, WorldTyped, store,
           discord, memory
  <2> QED
    BY <2>1, <2>2, <2>3, <2>4, <2>5, <2>6, Others, Names
<1>35. ASSUME NEW t \in Tickets, DeleteRoom(t)
      PROVE  Paths' /\ Locked' /\ World' /\ Knowledge'
  <2>1. \A q \in Procs : Kept(q)
    BY <1>35 DEF DeleteRoom, Kept, taskVars
  <2>2. Same /\ World'
    BY <1>35, Undisturbed
       DEF DeleteRoom, Stands, Same, store, discord, WorldTyped, TicketRows, RoomRows, NoRoom
  <2>4. Paths'
    BY <2>1 DEF Paths, Way, Kept
  <2>5. Locked'
    BY <2>1, <1>35 DEF DeleteRoom, memory, Locked, Holds, Kept
  <2>6. Knowledge'
    BY <2>1, <2>2, StillKnows DEF Knowledge
  <2> QED
    BY <2>2, <2>4, <2>5, <2>6
<1>36. ASSUME NEW t \in Tickets, DeleteCard(t)
      PROVE  Paths' /\ Locked' /\ World' /\ Knowledge'
  <2>1. \A q \in Procs : Kept(q)
    BY <1>36 DEF DeleteCard, Kept, taskVars
  <2>2. Same /\ World'
    BY <1>36, Undisturbed
       DEF DeleteCard, Gone, Same, store, discord, WorldTyped, TicketRows, RoomRows
  <2>4. Paths'
    BY <2>1 DEF Paths, Way, Kept
  <2>5. Locked'
    BY <2>1, <1>36 DEF DeleteCard, memory, Locked, Holds, Kept
  <2>6. Knowledge'
    BY <2>1, <2>2, StillKnows DEF Knowledge
  <2> QED
    BY <2>2, <2>4, <2>5, <2>6
<1>37. ASSUME NEW t \in Tickets, Age(t)
      PROVE  Paths' /\ Locked' /\ World' /\ Knowledge'
  <2>1. \A q \in Procs : Kept(q)
    BY <1>37 DEF Age, Kept, taskVars
  <2>2. Same /\ World'
    BY <1>37, Undisturbed DEF Age, Same, store, discord, WorldTyped, TicketRows, RoomRows
  <2>4. Paths'
    BY <2>1 DEF Paths, Way, Kept
  <2>5. Locked'
    BY <2>1, <1>37 DEF Age, memory, Locked, Holds, Kept
  <2>6. Knowledge'
    BY <2>1, <2>2, StillKnows DEF Knowledge
  <2> QED
    BY <2>2, <2>4, <2>5, <2>6
<1>40. ASSUME NEW t \in Tickets, Stay(t)
      PROVE  Paths' /\ Locked' /\ World' /\ Knowledge'
  <2>1. \A q \in Procs : Kept(q)
    BY <1>40 DEF Stay, Kept, taskVars
  <2>2. Same /\ World'
    BY <1>40, Undisturbed DEF Stay, Same, store, WorldTyped, TicketRows, RoomRows
  <2>4. Paths'
    BY <2>1 DEF Paths, Way, Kept
  <2>5. Locked'
    BY <2>1, <1>40 DEF Stay, memory, Locked, Holds, Kept
  <2>6. Knowledge'
    BY <2>1, <2>2, StillKnows DEF Knowledge
  <2> QED
    BY <2>2, <2>4, <2>5, <2>6
<1>38. ASSUME Crash
      PROVE  Paths' /\ Locked' /\ World' /\ Knowledge'
  <2>1. Same /\ World'
    BY <1>38, Undisturbed DEF Crash, store, discord, Same
  <2>2. Paths' /\ Locked' /\ Knowledge'
    BY <1>38, Names DEF Crash, Paths, Way, Locked, Holds, Writing, Knowledge, Knows
  <2> QED
    BY <2>1, <2>2
<1>39. CASE UNCHANGED vars
  <2>1. Same /\ World' /\ \A q \in Procs : Kept(q)
    BY <1>39, Undisturbed DEF vars, store, discord, taskVars, Same, Kept
  <2>2. Knowledge'
    BY <2>1, StillKnows DEF Knowledge
  <2> QED
    BY <1>39, <2>1, <2>2 DEF vars, memory, taskVars, Paths, Way, Locked, Holds
<1> QED
  BY <1>1, <1>2, <1>3, <1>4, <1>5, <1>6, <1>7, <1>8, <1>9, <1>10, <1>11, <1>12, <1>13, <1>14,
     <1>15, <1>16, <1>17, <1>18, <1>19, <1>20, <1>21, <1>22, <1>23, <1>24, <1>25, <1>26, <1>27,
     <1>28, <1>29, <1>30, <1>31, <1>32, <1>33, <1>34, <1>35, <1>36, <1>37, <1>38, <1>39, <1>40
     DEF Next, Start, Enter, Refusal, Proceed, Recheck

-------------------------------------------------------------------------------

\* Whatever overlaps, the tasks keep to the lock.
THEOREM ModmailSafe == Spec => []Safe
<1>1. Init => Safe
  BY SafeInit
<1>2. Safe /\ [Next]_vars => Safe'
  BY SafeStep
<1> QED
  BY <1>1, <1>2, PTL DEF Spec

\* Every variable has its type, for every number of tasks, tickets and mishaps.
THEOREM ModmailTyped == Spec => []TypeOK
<1>1. Safe => TypeOK
  BY DEF Safe
<1> QED
  BY <1>1, ModmailSafe, PTL

\* However many doors a member tries at once, one ticket is open: the member's lock
\* alone sees to it, the unique index of the table is never hit.
THEOREM OneTicketAtATime == Spec => []OneOpenTicket
<1>1. Safe => OneOpenTicket
  BY DEF Safe, World
<1> QED
  BY <1>1, ModmailSafe, PTL

\* A ticket is closed once, its transcript has every word of the member, and its room
\* goes only after that: what close_ticket read under the lock is still so when it
\* writes.
THEOREM TranscriptsAreWhole == Spec => []EveryWordIsKept
<1>1. Safe => EveryWordIsKept
  BY DEF Safe, World
<1> QED
  BY <1>1, ModmailSafe, PTL

\* No move of a card that was on its way leaves one in a closed ticket.
THEOREM ClosedTicketsAreBare == Spec => []ClosedHasNoCard
<1>1. Safe => ClosedHasNoCard
  BY DEF Safe, World, Row, ClosedHasNoCard
<1> QED
  BY <1>1, ModmailSafe, PTL
================================================================================
