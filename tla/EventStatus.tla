----------------------------- MODULE EventStatus -----------------------------
(* The statuses of an event and the one table that says which may follow     *)
(* which (black_bloc/events.py).  Every handler asks CanTransition before it  *)
(* writes a status.  "absent" stands for a row that is not in the database.   *)

Absent    == "absent"
Pending   == "pending"
Approved  == "approved"
Denied    == "denied"
Live      == "live"
Done      == "done"
Cancelled == "cancelled"

Statuses == {Pending, Approved, Denied, Live, Done, Cancelled}

\* Statuses an event is still on the go in, and those a review room is swept in.
OpenStatuses  == {Pending, Approved, Live}
SweptStatuses == {Done, Denied, Cancelled}

\* What a website edit may still be applied to.
EditableStatuses == {Pending, Approved}

\* The statuses that may follow each status.
Transitions ==
    [s \in Statuses |->
        CASE s = Pending   -> {Approved, Denied, Cancelled}
          [] s = Approved  -> {Live, Done, Cancelled}
          [] s = Live      -> {Done, Cancelled}
          [] s = Denied    -> {Approved}
          [] s = Done      -> {}
          [] s = Cancelled -> {}]

CanTransition(before, after) == before \in Statuses /\ after \in Transitions[before]

TerminalStatuses == {s \in Statuses : Transitions[s] = {}}
==============================================================================
