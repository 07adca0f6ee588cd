------------------------------ MODULE FrontDoor ------------------------------
(* The posted front door of one guild (cogs/community/frontdoor.py): the sweep  *)
(* that puts it back when it is gone and posts it again when the rules message  *)
(* has overtaken it, under the Reconciler's lock; and the website's Post and    *)
(* Take down, which call the same functions without that lock.  No post carries *)
(* the door, and the door is on.                                                *)
EXTENDS Reconciler, FiniteSets

CONSTANTS
    Looping,      \* the caller that asks for ever: the five-minute loop
    Clicks,       \* website requests
    WebRoutes,    \* what they may ask for
    Channels,     \* where a door can be posted
    RulesChannel, \* where the followed rules message is
    NoChannel,    \* the unset setting
    MaxTroubles,  \* hand deletions, re-posted rules, website requests and exceptions, together
    MayRefuse,    \* may Discord or the database refuse a call?
    MayOverlook,  \* may a second door go unseen, being five minutes old or not readable?
    MaxCrashes    \* how often the program may die and be started again

ASSUME ChannelsAssumption == RulesChannel \in Channels /\ NoChannel \notin Channels
ASSUME ClicksAssumption == /\ Clicks \cap Callers = {} /\ Looping \in Callers \ Skippers
                           /\ WebRoutes \subseteq {"post", "takeDown"}
ASSUME BoundsAssumption == /\ MaxTroubles \in Nat /\ MaxCrashes \in Nat
                           /\ MayRefuse \in BOOLEAN /\ MayOverlook \in BOOLEAN

VARIABLES
    \* the running program
    at,         \* where each task stands in its work
    old,        \* the channel and message a task last read from the settings
    aim,        \* the channel a task posts in, and the message it got there
    moving,     \* will the task take the old door down?
    \* the settings
    kept,       \* FRONTDOOR_CHANNEL and FRONTDOOR_MESSAGE (0: not set)
    \* Discord: message ids count up, so a larger one is further down
    doors,      \* the doors that are up, each with its channel
    rules,      \* the followed post's message
    last,       \* the newest message id
    troubles, faults

doorVars == <<at, old, aim, moving, kept, doors, rules, last, troubles, faults>>
vars == <<call, finished, clock, at, old, aim, moving, kept, doors, rules, last, troubles, faults>>

Tasks == Callers \cup Clicks
Unset == [channel |-> NoChannel, message |-> 0]
Door(channel, message) == [channel |-> channel, message |-> message]
Keys == [channel : Channels \cup {NoChannel}, message : Nat]

Goto(p, label) == at' = [at EXCEPT ![p] = label]

\* A task is over, and what it had read is forgotten.
Over(p) == /\ at'     = [at EXCEPT ![p] = "idle"]
           /\ old'    = [old EXCEPT ![p] = Unset]
           /\ aim'    = [aim EXCEPT ![p] = Unset]
           /\ moving' = [moving EXCEPT ![p] = FALSE]

\* It ended well: a reconcile returns, and its lock goes with it.
Done(p) == Over(p) /\ IF p \in Callers THEN Return(p) ELSE UNCHANGED runVars

\* The door is up, or was never asked for; the pass at cog_load saw no guilds and stamped.
Init == /\ call = [c \in Callers |-> "idle"]
        /\ finished = 0
        /\ clock = 0
        /\ at = [p \in Tasks |-> "idle"]
        /\ old = [p \in Tasks |-> Unset]
        /\ aim = [p \in Tasks |-> Unset]
        /\ moving = [p \in Tasks |-> FALSE]
        /\ \/ kept = Unset /\ doors = {}
           \/ \E c \in Channels : kept = Door(c, 2) /\ doors = {Door(c, 2)}
        /\ rules = 1
        /\ last = 2
        /\ troubles = 0
        /\ faults = [crashes |-> 0, refused |-> FALSE]

-------------------------------------------------------------------------------
(* The reconciler's side: the loop, the boot listener, and the listener that    *)
(* hears of a published post.                                                   *)

Begin(c) == Enter(c) /\ Goto(c, "look")
                     /\ UNCHANGED <<old, aim, moving, kept, doors, rules, last, troubles, faults>>

Asked(c)  == Ask(c) /\ UNCHANGED doorVars
Skipped(c) == SkipInside(c) /\ UNCHANGED doorVars

\* _redoor reads where the door is; with no channel set there is nothing to keep.
Look(c) ==
    /\ c \in Callers /\ at[c] = "look"
    /\ IF kept.channel = NoChannel
       THEN Done(c)
       ELSE /\ old' = [old EXCEPT ![c] = kept]
            /\ Goto(c, "compare")
            /\ UNCHANGED <<aim, moving, runVars>>
    /\ UNCHANGED <<kept, doors, rules, last, troubles, faults>>

\* overtaken_by: the followed post has landed under the door, in the same channel.
Overtaken(door) == /\ door.message # 0
                   /\ door.channel = RulesChannel
                   /\ rules > door.message

\* Mutation of Compare: the followed post is not looked at.
CompareBlind(c) ==
    /\ at[c] = "compare"
    /\ aim' = [aim EXCEPT ![c].channel = old[c].channel]
    /\ Goto(c, IF old[c].message = 0 THEN "near" ELSE "fetch")
    /\ UNCHANGED <<runVars, old, moving, kept, doors, rules, last, troubles, faults>>

Compare(c) ==
    /\ at[c] = "compare"
    /\ aim' = [aim EXCEPT ![c].channel = old[c].channel]
    /\ moving' = [moving EXCEPT ![c] = Overtaken(old[c])]
    /\ Goto(c, IF Overtaken(old[c]) \/ old[c].message = 0 THEN "near" ELSE "fetch")
    /\ UNCHANGED <<runVars, old, kept, doors, rules, last, troubles, faults>>

\* Mutation of Fetch: a message that is not found is left alone as well.
FetchTrusting(c) ==
    /\ at[c] = "fetch"
    /\ Done(c)
    /\ UNCHANGED <<kept, doors, rules, last, troubles, faults>>

\* message_is_there: only a clear "not found" counts as gone.
Fetch(c) ==
    /\ at[c] = "fetch"
    /\ \/ Done(c)
       \/ /\ old[c] \notin doors
          /\ Goto(c, "near")
          /\ UNCHANGED <<runVars, old, aim, moving>>
    /\ UNCHANGED <<kept, doors, rules, last, troubles, faults>>

\* duplicates_near: another door that went up here in the last minutes keeps the run from posting
\* a third; an older one is not seen, nor is any when the history cannot be read.
Duplicates(c) == {door \in doors : door.channel = old[c].channel /\ door # old[c]}

Near(c) ==
    /\ at[c] = "near"
    /\ \/ Duplicates(c) # {} /\ Done(c)
       \/ /\ MayOverlook \/ Duplicates(c) = {}
          /\ Goto(c, "aim")
          /\ UNCHANGED <<runVars, old, aim, moving>>
    /\ UNCHANGED <<kept, doors, rules, last, troubles, faults>>

-------------------------------------------------------------------------------
(* post_door, for a sweep and for the website.                                  *)

\* The settings are read once more, just before the send.
Aim(p) ==
    /\ at[p] = "aim"
    /\ old' = [old EXCEPT ![p] = kept]
    /\ moving' = IF p \in Clicks THEN [moving EXCEPT ![p] = kept.message # 0] ELSE moving
    /\ Goto(p, "send")
    /\ UNCHANGED <<runVars, aim, kept, doors, rules, last, troubles, faults>>

Send(p) ==
    /\ at[p] = "send"
    /\ last' = last + 1
    /\ aim' = [aim EXCEPT ![p].message = last + 1]
    /\ doors' = doors \cup {Door(aim[p].channel, last + 1)}
    /\ Goto(p, "setChannel")
    /\ UNCHANGED <<runVars, old, moving, kept, rules, troubles, faults>>

SendRefused(p) ==
    /\ MayRefuse
    /\ at[p] = "send"
    /\ Done(p)
    /\ UNCHANGED <<kept, doors, rules, last, troubles, faults>>

SetChannel(p) ==
    /\ at[p] = "setChannel"
    /\ kept' = [kept EXCEPT !.channel = aim[p].channel]
    /\ Goto(p, "setMessage")
    /\ UNCHANGED <<runVars, old, aim, moving, doors, rules, last, troubles, faults>>

\* Mutation of SetMessage: the channel is written where the message belongs.
SetMessageSwapped(p) ==
    /\ at[p] = "setMessage"
    /\ kept' = [kept EXCEPT !.message = aim[p].channel]
    /\ IF moving[p] /\ old[p].channel # NoChannel /\ old[p].message # 0
       THEN Goto(p, "drop") /\ UNCHANGED <<runVars, old, aim, moving>>
       ELSE Done(p)
    /\ UNCHANGED <<doors, rules, last, troubles, faults>>

SetMessage(p) ==
    /\ at[p] = "setMessage"
    /\ kept' = [kept EXCEPT !.message = aim[p].message]
    /\ IF moving[p] /\ old[p].channel # NoChannel /\ old[p].message # 0
       THEN Goto(p, "drop") /\ UNCHANGED <<runVars, old, aim, moving>>
       ELSE Done(p)
    /\ UNCHANGED <<doors, rules, last, troubles, faults>>

\* drop_message: a message that is not there counts as dropped; a refusal leaves it up.
Drop(p) ==
    /\ at[p] = "drop"
    /\ \/ doors' = doors \ {old[p]} /\ UNCHANGED faults
       \/ /\ MayRefuse /\ old[p] \in doors
          /\ faults' = [faults EXCEPT !.refused = TRUE]
          /\ UNCHANGED doors
    /\ Done(p)
    /\ UNCHANGED <<kept, rules, last, troubles>>

-------------------------------------------------------------------------------
(* The website.                                                                 *)

ClickPost(p) ==
    /\ p \in Clicks /\ at[p] = "idle" /\ "post" \in WebRoutes
    /\ troubles < MaxTroubles /\ troubles' = troubles + 1
    /\ \E c \in Channels : aim' = [aim EXCEPT ![p].channel = c]
    /\ Goto(p, "aim")
    /\ UNCHANGED <<runVars, old, moving, kept, doors, rules, last, faults>>

\* take_door_down: the message goes, then the two keys, one after the other.
ClickTakeDown(p) ==
    /\ p \in Clicks /\ at[p] = "idle" /\ "takeDown" \in WebRoutes
    /\ troubles < MaxTroubles /\ troubles' = troubles + 1
    /\ kept.channel # NoChannel
    /\ old' = [old EXCEPT ![p] = kept]
    /\ Goto(p, IF kept.message # 0 THEN "takeDown" ELSE "clearMessage")
    /\ UNCHANGED <<runVars, aim, moving, kept, doors, rules, last, faults>>

TakeDown(p) ==
    /\ at[p] = "takeDown"
    /\ \/ doors' = doors \ {old[p]} /\ UNCHANGED faults
       \/ /\ MayRefuse /\ old[p] \in doors
          /\ faults' = [faults EXCEPT !.refused = TRUE]
          /\ UNCHANGED doors
    /\ Goto(p, "clearMessage")
    /\ UNCHANGED <<runVars, old, aim, moving, kept, rules, last, troubles>>

ClearMessage(p) ==
    /\ at[p] = "clearMessage"
    /\ kept' = [kept EXCEPT !.message = 0]
    /\ Goto(p, "clearChannel")
    /\ UNCHANGED <<runVars, old, aim, moving, doors, rules, last, troubles, faults>>

ClearChannel(p) ==
    /\ at[p] = "clearChannel"
    /\ kept' = [kept EXCEPT !.channel = NoChannel]
    /\ Done(p)
    /\ UNCHANGED <<doors, rules, last, troubles, faults>>

-------------------------------------------------------------------------------
(* What happens to the program.                                                 *)

HandDelete ==
    /\ troubles < MaxTroubles
    /\ \E door \in doors : doors' = doors \ {door}
    /\ troubles' = troubles + 1
    /\ UNCHANGED <<runVars, at, old, aim, moving, kept, rules, last, faults>>

\* The rules message is posted again, further down.
PublishRules ==
    /\ troubles < MaxTroubles
    /\ rules' = last + 1
    /\ last' = last + 1
    /\ troubles' = troubles + 1
    /\ UNCHANGED <<runVars, at, old, aim, moving, kept, doors, faults>>

\* A call raised and nothing caught it: what was done stays done, the lock is let go, and the
\* loop's error handler starts it again.
Break(p) ==
    /\ MayRefuse
    /\ troubles < MaxTroubles
    /\ at[p] # "idle"
    /\ Over(p)
    /\ IF p \in Callers THEN Raise(p) ELSE UNCHANGED runVars
    /\ troubles' = troubles + 1
    /\ faults' = [faults EXCEPT !.refused = TRUE]
    /\ UNCHANGED <<kept, doors, rules, last>>

\* The settings survive; the boot pass has stamped again.
Crash ==
    /\ faults.crashes < MaxCrashes
    /\ faults' = [faults EXCEPT !.crashes = @ + 1]
    /\ call' = [c \in Callers |-> "idle"]
    /\ finished' = clock
    /\ at' = [p \in Tasks |-> "idle"]
    /\ old' = [p \in Tasks |-> Unset]
    /\ aim' = [p \in Tasks |-> Unset]
    /\ moving' = [p \in Tasks |-> FALSE]
    /\ UNCHANGED <<clock, kept, doors, rules, last, troubles>>

Wait == Passes /\ UNCHANGED doorVars

Work(p) == \/ Look(p) \/ Compare(p) \/ Fetch(p) \/ Near(p)
           \/ Aim(p) \/ Send(p) \/ SendRefused(p) \/ SetChannel(p) \/ SetMessage(p) \/ Drop(p)
           \/ TakeDown(p) \/ ClearMessage(p) \/ ClearChannel(p)

Next == \/ \E c \in Callers : Asked(c) \/ Begin(c) \/ Skipped(c)
        \/ \E p \in Tasks : Work(p) \/ ClickPost(p) \/ ClickTakeDown(p) \/ Break(p)
        \/ HandDelete \/ PublishRules \/ Crash \/ Wait

Spec == Init /\ [][Next]_vars

\* The loop ticks for ever, asyncio goes on with every task, and Discord answers: a fetch that
\* finds nothing is believed in the end, and no duplicate stays a recent one.
Fairness == /\ WF_vars(Asked(Looping))
            /\ \A c \in Callers : SF_vars(Begin(c) \/ Skipped(c))
            /\ \A p \in Tasks : WF_vars(Work(p)) /\ SF_vars(Send(p))
            /\ \A c \in Callers : /\ SF_vars(Fetch(c) /\ at'[c] = "near")
                                  /\ SF_vars(Near(c) /\ at'[c] = "aim")

FairSpec == Spec /\ Fairness

-------------------------------------------------------------------------------
(* What should hold.                                                           *)

Labels == {"idle", "look", "compare", "fetch", "near", "aim", "send", "setChannel", "setMessage",
           "drop", "takeDown", "clearMessage", "clearChannel"}

\* Every variable keeps its kind of value.
TypeOK == /\ RunTypeOK
          /\ at \in [Tasks -> Labels]
          /\ old \in [Tasks -> Keys] /\ aim \in [Tasks -> Keys]
          /\ moving \in [Tasks -> BOOLEAN]
          /\ kept \in Keys
          /\ doors \subseteq Keys
          /\ rules \in Nat /\ last \in Nat /\ troubles \in Nat
          /\ faults \in [crashes : Nat, refused : BOOLEAN]

Quiet == \A p \in Tasks : at[p] = "idle"
Undisturbed == faults.crashes = 0 /\ ~faults.refused

\* "One front door per guild": when nobody is at work on it, the only door up is the one the
\* settings name.
OneFrontDoor == Quiet /\ Undisturbed => doors \subseteq {kept}

\* "The second caller sees what the first wrote": while a run has a door in hand that the
\* settings do not name yet, no other run is between its look and its send.
SecondSeesFirst ==
    \A c, d \in Callers :
        /\ at[c] \in {"setChannel", "setMessage"}
        /\ at[d] \in {"compare", "fetch", "near", "aim", "send"}
        => c = d

\* "A door deleted by hand is put back": sooner or later it is up, unless it was taken down.
DoorComesBack == kept.channel # NoChannel ~> (kept \in doors \/ kept.channel = NoChannel)

\* "One the rules message has overtaken is posted again so it stays directly under the rules."
UnderTheRules == Overtaken(kept) ~> ~Overtaken(kept)

==============================================================================
