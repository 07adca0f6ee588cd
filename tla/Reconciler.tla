------------------------------ MODULE Reconciler ------------------------------
(* Reconciler.run of black_bloc/loops.py: one reconcile of a cog at a time, and *)
(* none at all for a caller that asks not to repeat one that has just run.      *)
(* Each caller always asks in the same way: the boot listener passes            *)
(* skip_if_recent, a one-guild run passes stamp=False, the loop neither.        *)
EXTENDS Integers

CONSTANTS
    Callers,    \* the loop, the listeners and the routes that ask for a run
    Skippers,   \* those that pass skip_if_recent=True
    Stampers,   \* those that leave stamp=True
    Window,     \* RECENT_SECONDS
    MaxClock    \* the clock stops here

ASSUME CallersAssumption == Skippers \subseteq Callers /\ Stampers \subseteq Callers
ASSUME WindowAssumption == Window \in Nat /\ MaxClock \in Nat

VARIABLES
    call,       \* what each caller is doing
    finished,   \* _finished_at, Never before the first run
    clock

runVars == <<call, finished, clock>>

Never == -1

RanRecently == finished # Never /\ clock - finished < Window

\* skip_if_recent and self.ran_recently()
Skips(c) == c \in Skippers /\ RanRecently

LockFree == \A c \in Callers : call[c] # "working"

Start == /\ call = [c \in Callers |-> "idle"]
         /\ finished = Never
         /\ clock = 0

\* A call that the window turns away before the lock leaves no trace.
Ask(c) ==
    /\ call[c] = "idle"
    /\ ~Skips(c)
    /\ call' = [call EXCEPT ![c] = "queued"]
    /\ UNCHANGED <<finished, clock>>

\* Mutation of Enter: the work does not wait for the lock.
EnterBarging(c) ==
    /\ call[c] = "queued"
    /\ ~Skips(c)
    /\ call' = [call EXCEPT ![c] = "working"]
    /\ UNCHANGED <<finished, clock>>

\* The lock is this caller's, and the window is asked once more.
Enter(c) ==
    /\ call[c] = "queued"
    /\ LockFree
    /\ ~Skips(c)
    /\ call' = [call EXCEPT ![c] = "working"]
    /\ UNCHANGED <<finished, clock>>

SkipInside(c) ==
    /\ call[c] = "queued"
    /\ LockFree
    /\ Skips(c)
    /\ call' = [call EXCEPT ![c] = "idle"]
    /\ UNCHANGED <<finished, clock>>

Return(c) ==
    /\ call[c] = "working"
    /\ call' = [call EXCEPT ![c] = "idle"]
    /\ finished' = IF c \in Stampers THEN clock ELSE finished
    /\ UNCHANGED clock

\* The work raised: the lock is released and nothing is stamped.
Raise(c) ==
    /\ call[c] = "working"
    /\ call' = [call EXCEPT ![c] = "idle"]
    /\ UNCHANGED <<finished, clock>>

Passes == /\ clock < MaxClock
          /\ clock' = clock + 1
          /\ UNCHANGED <<call, finished>>

Run == (\E c \in Callers : Ask(c) \/ Enter(c) \/ SkipInside(c) \/ Return(c) \/ Raise(c)) \/ Passes

RunSpec == Start /\ [][Run]_runVars

-------------------------------------------------------------------------------
RunTypeOK == /\ call \in [Callers -> {"idle", "queued", "working"}]
             /\ finished \in Nat \cup {Never}
             /\ clock \in Nat

\* "One reconcile at a time per cog": no two callers are ever at work together.
OneAtATime ==
    \A c, d \in Callers : call[c] = "working" /\ call[d] = "working" => c = d

==============================================================================
