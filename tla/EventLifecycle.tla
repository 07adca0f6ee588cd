--------------------------- MODULE EventLifecycle ---------------------------
(* What the events feature promises about one event: it is filed as pending,  *)
(* and from then on its status only moves along the transition table.  Nothing *)
(* is said of who moves it, when, or what is told to anybody.                  *)
EXTENDS EventStatus

VARIABLE status

\* The row is inserted.
File == status = Absent /\ status' = Pending

\* Somebody or some loop moves the event along the table.
Move == \E s \in Statuses : CanTransition(status, s) /\ status' = s

Init == status = Absent
Next == File \/ Move
Spec == Init /\ [][Next]_status
==============================================================================
