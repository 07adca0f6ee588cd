# A TLA+ model of Black Bloc

Black Bloc is a Discord bot and its staff dashboard, in one Python process: `discord.py`'s gateway
client, `tasks.loop` loops and a FastAPI server share one asyncio event loop and one `aiosqlite`
connection. Paths below are relative to the repository; `events.py` without a directory is
`black_bloc/events.py`, `cog:` is `black_bloc/cogs/community/events.py`.

This directory models the six parts where the most actors meet over the same state, checks them with
TLC and proves their main safety properties with TLAPS. `PROJECT.json` lists every definition with
the source lines it stands for.

## What makes this program hard

* **One thread, many tasks.** A handler runs undisturbed from one `await` to the next, and anything
  may happen during an `await`: another button, a website request, a gateway event, a pass of a loop.
  So a step of every model here is the code between two awaits: one statement to the database, or
  the answer of one call to Discord.
* **Two doors to every feature.** A Discord button and a website route call the same functions
  (`apply_decision`, `cancel_event`, `post_door`, ...). Some callers take the lock, some do not.
* **Locks are objects in a dictionary** (`event_lock`, `events.py:1300`; `poll_lock`, `user_lock`,
  `lock_for`), some of them dropped once an event or a poll is settled (`drop_lock`, 1311) while other
  tasks may still wait for them. They live in memory only, and code that forgets to take one is as
  easy to write as code that takes it.
* **State in three places.** The row in SQLite, the objects in Discord (rooms, posts, scheduled
  events, messages) and what a task remembers across an await. Every pair can disagree.
* **Everything fails.** Discord refuses calls, moderators delete channels and messages by hand, the
  gateway's news arrives late or, when the program is down, not at all. The process is restarted at
  every deploy. Loops that raise are restarted.

## Inventory

| component | source | state | operations | where it is hard | correct when | here |
|---|---|---|---|---|---|---|
| Event statuses | `events.py` 100-130, 201 | none | `can_transition` | derived sets must agree with the table | every handler's move is on the table | `EventStatus`, `EventLifecycle` |
| Events | `events.py`, `api/tools/events.py` | `events` row; lock table; review room or post; scheduled event; announcement | propose, approve from another feature, approve, deny, cancel, delete the room, move to the forum, edit | two doors, a dropped lock, writes after awaits, refusals half way | one decision; nothing told twice; what a cancelled event left behind is undone; no place is left that no row names | `Events` |
| Events cog | `cogs/community/events.py` | `_missing_since` | one-minute loop (go live, finish), five-minute sweep, two deletion listeners | rows queried before the lock; one clock a pass; lost gateway news | due events move on; a lost room is noticed; an open event keeps its room | `Events` |
| Reconciler | `loops.py` | lock, `_finished_at` | `run` | loop, `on_ready` and listeners ask at once; the window is asked twice | one at a time, the second sees what the first wrote | `Reconciler` |
| Front door | `cogs/community/frontdoor.py`, `posted.py`, `api/tools/frontdoor.py` | two settings; the message in Discord | sweep, post, take down, follow the rules post | send and settings are three awaits; the website does not take the lock | one door; it comes back; it stays under the rules | `FrontDoor` |
| Settings store | `settings_store.py` | registry keys, cache, listeners | get, set, clear | two keys are two commits; cache against database | a reader sees a value that was set | two of its keys, in `FrontDoor` |
| Database | `storage/db.py` | schema, one connection | execute, commit, rollback | tasks share one transaction | what a task was told is committed stays | not modelled |
| Start-up | `bot.py`, `app.py`, `config.py` | none that lasts | `setup_hook`, cogs, server | cogs reconcile before guilds are known | a restart loses only what it may | as `Crash` |
| Polls | `polls.py`, `cogs/community/polls.py`, `api/tools/polls.py` | `polls`, `poll_votes`, `poll_results`, lock table | submit, decide, post, vote, last call, close, cancel, archive | posted after the lock is let go; an answer is two statements; the lock is dropped | decided and posted once; one answer each; one last call; a closed poll is counted; a posted poll ends | `Polls` |
| Points | `points_moves.py`, `points_store.py`, `points/` | runs, bounties, the log of the top | submit, approve, reject, remove, edit, recompute, bounties | several verifiers; compare and set; a board before and after; bounties without the lock | nobody is raced; the log adds up; a recompute is current; the board is a ranking | `Points`, `PointsBoard`, `PointsScore` |
| Modmail | `modmail.py`, `cogs/moderation/modmail.py` | tickets, messages, rooms, cards, strikes | open, relay, reply, note, close, move the card, sweep | DM, button and sweep at once; a reply without the lock; a debounced card; lost rooms | no word is lost; one transcript before a room goes; one card, last; lost rooms and cards are noticed | `Modmail` |
| Birthdays | `cogs/community/birthdays.py`, `optouts.py`, `api/tools/birthdays.py` | row, opt-out, role, last announced | sweep, Post now, set, opt, forget, the website's writes | row read before the lock; the role is given, recorded and taken back in steps; writes without the lock | Post now sees the sweep; who is out is not wished; a role that is worn is recorded and comes off | `Birthdays` |
| Go live and spotlight | `golive.py`, `spotlight.py` and cogs | sessions | presence, polls, end | debounced ends; removal beside a poll | one open session; every session ends | planned |
| Role menus and grants | `rolemenus.py`, `rolegrants.py` | grants | grant, extend, remove, expire | expiry beside extension | a grant ends when it should | planned |
| Temporary voice | `tempvoice.py` and cog | rows, channels | create, claim, sweep | creator and channel locks | one room an owner | not modelled |
| Requests, applications | `requests.py`, `applications.py` | rows | file, decide, close | as events, smaller | as events | not modelled |
| Moderation | `automod.py`, `honeypot.py`, `modcases.py` | cases, strikes | warn, ban, expire | bans raced by two listeners | one case an action | not modelled |
| Brackets | `brackets_*.py`, `brackets/` | matches, votes | pair, play, report | pure pairing rules | a bracket is a tree with one winner | not modelled |
| Marathons, feeds, raid trains | `marathon*.py`, `raidtrain.py`, `bluesky_moves.py`, `pb_*.py`, `youtube.py` | fetched rows | poll, archive | mostly parsing and network | rows follow the feed | only `approved_from`, in `Events` |
| Chat | `chat*.py` | spend, memory | answer | cap read before a call, written after | the cap | not modelled |
| Test-mode guard | `guard.py`, `shadow.py` | owned channels | `allows_channel` | policy over ids | nothing outside the test channel | not modelled |
| Website pages | `site/` | none | | browser interface | | not modelled |

How they interact: cogs and routes call the feature modules directly; features write to SQLite and to
Discord and read settings from the store; the gateway reports back what happened in Discord, the
program's own doings included; `posts` dispatches `post_published`, which the front door hears;
marathons and raid trains enter the events feature through `approved_from`; eleven cogs run their
sweeps through `Reconciler.run`.

## The modules

| module | what it is |
|---|---|
| `EventStatus` | statuses, transition table, derived sets |
| `EventLifecycle` | the abstract specification: one status that only moves along the table |
| `Events` | one event: row, handlers, lock objects, loops, listeners, Discord, restarts |
| `Reconciler` | the lock and the window of `Reconciler.run`, as steps other modules compose |
| `FrontDoor` | extends `Reconciler`: the work done under the lock, and the website beside it |
| `Polls` | one poll: decision, posting, votes, the loop, close, cancel, restarts |
| `Birthdays` | one member's birthday: sweep, Post now, panel, website, role, days |
| `Modmail` | one member's tickets: doors, staff, close, card, sweep, moderators, restarts |
| `PointsBoard` | pure: totals, order, places, gaps, the changes of the top and their replay |
| `PointsScore` | pure: XP of a time, live bounties, the best of them |
| `Points` | extends `PointsBoard` and `PointsScore`: runs, verifiers, bounties, the lock, the log |
| `MC...` | small instances for TLC |
| `...Proofs` | theorems |

### Events

The state is the row (`status`, `review` and `kind` for `review_channel_id` and `review_kind`, `sched`
and `announced` for the ids of the scheduled event and the announcement, `starts`, `created`), the
tasks (`pc` where each stands, `op` what it is doing, `lock` the lock object it has, `seen` the row it
last read, `got` the id Discord gave it, `stamp` the clock a loop read), `gen`, which counts the lock
objects `drop_lock` has taken out of the table, `missing` for `_missing_since`, and Discord: `places`,
`calendar`, `public`. A task is a pressed button or a website request; two more are the loops, and each
place has one that stands for the listener that hears of its deletion.

Everything the code keeps, it keeps per event, so one event is followed. The module follows the code
in this way:

| code | actions |
|---|---|
| `event_lock` and the sections under it (`apply_decision` 2103, `cancel_event` 2044, `_go_live`, `_missed`, `_finish` cog:2208-2302) | `Lock`, `Reread` or `TooLate`, `SetStatus`, `DropLock`, `Tell` |
| `create_scheduled`, `announce` after an approval | `CreateScheduled`, `NoCalendar`, `SetScheduled`, `Announce`, `NoAnnouncement`, `SetAnnounced` |
| what a cancel undoes | `Uncalendar`, `Unannounce` |
| `submit_event`, `approved_from`, `event_edit` | `StartPropose`, `StartAutomatic`, `AutoApprove`, `StartEdit`, `UpdateEvent` |
| `make_review_channel`, `open_review_post`, `post_review_card` | `MakePlace`, `PlaceRefused`, `CancelUnplaced`, `SetReview`, `SetReviewKind`, `PostCard`, `SetCard` |
| `move_room_to_forum` | `StartMove`, then the steps of a post, then the deletion of the room |
| `delete_room`, the sweep's tidying, `forget_room` | `StartDeleteRoom`, `Tidy`, `DeletePlace`, `DeleteRefused`, `Forget` |
| `on_guild_channel_delete`, `on_thread_delete` | `HandDelete` (the moderator), `Hear` |
| `run_due_events` | `GoLiveTick` (the query), `DueLive`, `TakeUp` (each of its rows in turn), `GoLivePost`, `NoGoLivePost` |
| `reconcile_events`: `_sweep`, `_recheck`, `_sweep_finished` | `SweepTick`, `Recheck`, `Tidy` |
| a restart | `Crash` |

`Lock` is one action for every handler: what a handler is after is `Wanted(op)`, so the section is
written once, as the handlers share its shape. Names in a message, renamed rooms, logs and panels are
left out.

Abstractions to know about. The program is outside test mode. Retention of a settled room may have
passed at any pass. A start can always be read back from the row. The id of a post and its kind are
written by two statements one right after the other (`events.py:2349-2352`): no minute passes between
them (`Tick`), but every other task may run there. `rested` says that the next pass of the sweep is due,
so that passes do not follow each other without time going by; two misses are two passes. The boot
listener's pass and the loop's go through `Reconciler.run` (cog:2307), so one task stands for both.

### Reconciler and FrontDoor

`Reconciler` has one caller per way of asking: the loop, the boot listener (which passes
`skip_if_recent`) and a one-guild run (which passes `stamp=False`). `Enter` is the lock taken and the
window asked once more inside it; `Return` stamps, `Raise` does not.

`FrontDoor` adds the work: `Look`, `Compare`, `Fetch` and `Near` are `_redoor`
(`frontdoor.py:640-704`), `Aim` to `Drop` are `post_door` (451-508), which the website's Post calls
too, without the lock; `TakeDown`, `ClearMessage` and `ClearChannel` are `take_door_down` (515).
Message numbers count up, so a larger one is further down in its channel. `Fetch` may always end the
run: only a clear "not found" is taken as gone. `Near` lets a duplicate go unseen when `MayOverlook`:
`duplicates_near` looks at the last five minutes and at a history that may be unreadable. `Break` is
an exception nobody caught. No post carries the door (`door_carrier` finds none), the door is switched
on, the program is outside test mode, and there is one guild.

### Polls

One poll: its row (`status`, `surface`, `held` for a poll that goes to review, `message`, `reminded`),
`votes`, `results` (is there a row, which votes it counted, was it given up), `late` (who answered after
the poll was closed, which only a property asks), the tasks, the lock objects (`lock`, `gen`, as in
`Events`), what a close has counted (`tally`), and Discord: `sent`, `board`, `lastCalls`. `decisions` is
the log's `poll.approved` and `poll.denied`. The loop is a process of its own with the clock it read
(`stamp`).

| code | actions |
|---|---|
| `store_poll`, `send_for_review`, `send_review_card` (482-533, 1846-1919) | `Create`, `SendCard`, `CancelUnreviewed` |
| `post_poll`, `set_posted`, `post_now` (1469-1532, 1829) | `Send`, `SendRefused`, `SetPosted`, `SetOpen`, `CancelUnposted` |
| `apply_decision`, `close_poll`, `cancel_poll` (1634-1690, 1285-1320, 1418) | `Press`, `Reread` or `TooLate`, `SetStatus`, then `Approved`, `Denied` or `DropLock` |
| `_write_results`, `_shut_panel`, `end_poll`, `fetch_poll_message` (1238-1376) | `CountPanel`, `SaveResults`, `FetchMessage`, `NoMessage`, `EndVote`, `EndRefused` |
| `cast_vote`, `set_panel_vote`, `repaint_panel` (1019-1072, 822) | `PressVote`, `CastVote`, `LockVote`, `DeleteVotes`, `InsertVotes`, `Repaint` |
| `run_due_polls`, `_remind` (3568-3689), `due_polls`, `archive_poll` | `BeginPass`, `RemindersDue`, `ClaimReminder`, `LastCall`, `LastCallRefused`, `ClearReminder`, `CloseDue`, `NothingDue`, `Archive` |

As in `Events`, one shape is written once: what a decision, a close and a cancel are after is
`Wanted(op)`. What follows a close differs. A panel is counted and its results are saved; then its
message is looked up and the buttons come off. A poll of Discord's own is looked up, ended and then
read: without a message nothing is saved and the log says `results_failed`, although the status has
moved; if Discord refuses to end the poll, the code goes on with the message it has. A poll's options
are not edited, a message is one number, and a native poll's votes are Discord's, so only panels have
`votes`. Archiving comes days after everything else (`Quiet`).

### Birthdays

One member: the row, the opt-out (`out`, with who wrote it), the role on Discord (`worn`), the member's
date. Whether the member is in the bot's cache may be otherwise at every look, so it is no variable:
with `MayMiss` a look may miss the member, and `Leave` takes the role of one who leaves the server.
`history.missed` says that the record of a worn role was cleared because the cache had not the member
(1361-1363): the code then does not ask Discord for the role. What a task keeps of the row it read is
only whether a role was recorded and whether a wish was due, as nothing else of it is used later.

| code | actions |
|---|---|
| `run_once`, `_sweep_row` (1170-1194), `_take_role_back` (1355) | `BeginSweep`, `LockSweep`, `TakeBack`, `TakeBackMissing`, `TakeBackRefused`, `Unrecord`, `SweepWishes` |
| `post_today`, `_post_one` (419, 1196) | `StartPostNow`, `LockPostNow`, `PostNowWishes` |
| `_celebrate` (1211-1353) | `Post`, `PostRefused`, `Mark`, `GiveRole`, `RecordRole` |
| `store_birthday`, `forget_birthday`, `change_opt` (313-404) | `StartSet`, `Save`, `LockForget`, `Delete`, `StartOpt`, `LockOpt`, `SetColumn`, `SetTable`, `ReturnRole`, `ReturnMissing`, `ReturnRefused`, `Unreturn` |
| `api/tools/birthdays.py` | `WebSet`, `WebClear`, `WebOpt` |
| the gateway's members | `Leave` |

An `UPDATE` of a row that is gone changes nothing (`Update`). Time zones, leap days and the year of
birth are in the date; the wishes are on; one guild.

### Modmail

One member's tickets, one after the other: rows (`ticket`, `words`), rooms on Discord with the cards in
them and what is last, the transcripts posted. Processes are the doors and staff (`Tasks`), the sweep,
and one timer per ticket for its card.

| code | actions |
|---|---|
| `open_a_ticket`, `make_place`, `post_header`, `abandon_ticket` (1954-2246) | `Ask`, `LockAsk`, `Create`, `Make`, `MakeRefused`, `Abandon`, `Place`, `Header` |
| `record_inbound`, `send_reply`, `_staff_message`, `bump_card` | `Record`, `Relay`, `RelayRefused`, `Pick`, `Note`, `Stay`, `Bumped` |
| `close_ticket`, `post_transcript`, `remove_place` (1327-1547) | `LockClose`, `Drop`, `DropOld`, `Read`, `MarkClosed`, `Transcript`, `TranscriptRefused`, `Remove` |
| `_card_later`, `refresh_card`, `post_card`, `drop_old_card` (1029-1177) | `Wake`, `Look`, `LockCard`, `Send`, `SendRefused`, `SetCard`, `DropOld`, `DropRefused` |
| `_sweep`, `_recheck`, `_recard` (2800-2916) | `BeginSweep`, `Resolve`, `Strike`, `Unknown` |
| `on_guild_channel_delete`, `on_thread_delete` | `DeleteRoom` (the moderator), `Notice` |

What staff type in a ticket's room is a note, which is recorded and moves the card (`Note`), or a reply,
which is sent on (`Pick`). `_staff_message` (2627-2649) also returns without either, for a command's
prefix, a mention, somebody who is not staff, and where what is typed stays in the ticket: such a
message is in the room and the card is not moved (`Stay`; the message is `Stray`).

A mishap is a refusal, a card deleted by hand, a lookup Discord does not answer or a restart; the run
bounds them together. Card numbers are used again once nothing knows them (`Fresh`). Left out:
practice tickets, the block list, a staff member's first words at their own door as a reply (a word of
the ticket here), the message in the log channel, the closing DM, forum tags, the posted panel, and the
tickets of points runs.

### Points

`Points` holds the runs, the bounties that are on, the top places as the log's `top_changed` rows have
them (`recorded`), the verifiers' tasks and the guild's lock. `history` says whether a restart fell
between a score and its log row and whether a bounty was switched since the last recompute.

| code | actions |
|---|---|
| `submit` (531), `bounty_create`, `bounty_edit`, `bounty_end` (950-1027) | `Submit`, `SwitchBounty` |
| `loaded`, `require_state`, `board`, `scored` (299-336, 445, 523) | `Lock`, `LockRecompute`, `ReadBoard`, `ReadBounties` |
| `approve`, `reject`, `remove`, `edit` (578-802), `update_run` | `Write` |
| `recompute` (806) | `Rescore`, `Rescored` |
| `board_moved` (476), `note` (241) | `Record`; `RecordLost` when the log cannot be written |
| `points/board.py`, `points_store.totals` | `Totals`, `Beats`, `Standings`, `Gap`, `TopOf`, `Diff` |
| `points/scoring.py`, `xp.py`, `bounty.py` | `Score`, `XpFor`, `LiveAt`, `Matches`, `WithBonus`, `PointsFor` |

`clock_of` (438) judges a run by the day of its submission or of its approval, as the guild has set
`points_bounty_clock`: the constant `Clock`. The day of an approval is taken before the bounties are
read (595). A move that waits has read nothing yet, so it starts with the lock. A run that does not
count keeps no score. `Replay` is what a reader of the log makes of it. Tiers, points of a run, the
number of top places, tickets, announcements and who may press are fixed or left out; `recompute` reads
rows and bounties as one step. Whether the row says `top_changed` or, with posts off, `would_announce`
(488) is one thing here. An offer tied to an event (402-409) begins and ends with the event and no
bounty call; `SwitchBounty` may come at any step and stands for that too. `bounties_of` reads the newest
`LIST_LIMIT` of 200 bounties; here these are all there are. What a run is worth (`Worth`) is
`PointsScore`'s `Score` under the constant `Rules`, which no proof but `TheBestBountyWins` looks into;
`Bounties` are all the offers there may be, `Switched` those staff turn on and off.

## Runs

Each mutant in `PROJECT.json` replaces one definition by the variant beside it (marked "Mutation of"
in the module) and is caught by the property it is listed with, under the cfg of the run.

| run | question | bounds | fairness |
|---|---|---|---|
| `EventsDoors` | decisions from two doors, the one-minute loop, two restarts: `SingleDecider`, `FollowsLifecycle`, `ToldOnce`, `CancelledIsUndone` | 2 tasks, times 0..2, 2 restarts | none |
| `EventsRooms` | rooms made, refused, deleted by staff, by hand, by the sweep: `NoPlaceLeftBehind` | 2 tasks, 1 room | none |
| `EventsMove` | a move to the forum and edits, the sweep and the gateway's echo of the move: `MoveSettlesNothing` | 1 task, 1 room, 1 post, times 0..2 | none |
| `EventsLive` | `EveryoneGetsTheLock`, `ApprovedMovesOn`, `LiveEnds` | 1 task, times 0..3, 1 restart | `FairSpec` |
| `EventsLost` | `LostRoomIsNoticed` although the news is lost | 1 task, 1 room, 1 post, 1 restart | `FairSpec` |
| `DoorSweeps` | `SecondSeesFirst`, `OneFrontDoor` | 3 callers, 2 channels, 3 troubles, 1 restart | none |
| `DoorComesBack` | `DoorComesBack`, `UnderTheRules`, with the website | the loop, 1 website task, 2 troubles, 1 restart | `FairSpec` |
| `PollsDoors` | two doors, the loop, last calls, refusals: `DecidedOnce`, `PostedOnce`, `LastCallOnce` | 2 tasks, 1 restart | none |
| `PollsVotes` | a member who presses twice beside the loop's close, panels and Discord's own polls: `OneAnswerEach`, `ClosedIsCounted`, `PostedPollEnds` | 2 tasks, 1 voter, 2 options, 1 restart, refusals, no last calls | `FairSpec` |
| `Birthdays` | `PostNowSeesTheSweep`, `OutIsNotWished`, `RoleIsRecorded`, `RecordedRoleComesOff` | 1 task beside the sweep, 3 days, 1 restart; the member may leave and be unseen | `FairSpec` |
| `Modmail` | `EveryWordIsKept`, `ClosedHasNoCard`, `OneCardAndLast`, `LostRoomCloses`, `CardComesBack` | 1 task beside the sweep and the card's timer, 1 ticket, 2 words, 1 mishap | `FairSpec` |
| `Points` | `NobodyIsRaced`, `TopIsRecorded`, `RecomputedIsCurrent`, `GapPassesThePlaceAbove`, `BestBountyWins` | 2 tasks, 3 members, 3 runs, 2 feats, 1 bounty, 2 days, the clock of approvals, any number of restarts | none |

Why the bounds are enough to be of use. Two tasks and a loop give every pair of handlers, and with the
dropped lock a third party: a holder, a waiter of the old object and a comer with the new one. The
proofs remove the bound on tasks for what they cover. Times 0..2 hold a start, an end and a moment
between; 0..3 adds a late pass. One room is enough because a proposal makes one; a move adds one post.
Symmetry is used over tasks, in runs without liveness only. `MaxTroubles` counts hand deletions,
re-posted rules, website requests and exceptions together; without a bound the message numbers would
grow for ever. Two lets a website request meet a deletion or an exception. `NoPlaceLeftBehind` is
checked with rooms, the sweep and deletions (`EventsRooms`) and not with posts: the two statements of a
post (`events.py:2349-2352`, below) leave one behind.

A poll has one voter because answers of different voters are different rows; what two voters share is
the lock, which two presses of one voter share as well. In `Birthdays` and `Modmail` one button's task
is enough to meet the sweep, the card's timer and the listener, each a process of its own; two buttons
do not fit the time of a run, and the proofs cover any number of them. A ticket's successor is left out
of the run for the same reason: the theorems allow any number. `CHECK_DEADLOCK FALSE` stands in
`Modmail.cfg` alone: there the words and the tickets of the instance run out and everything may be
over. In `Points` three runs of three members make every change of places there is with two top places:
in, out, up, down, a tie; a fourth run would only make the tie longer.

What a run leaves out, so that nobody reads more into it. `EventsDoors` has no automatic events: those
break `CancelledIsUndone` (`events.py:2208`, below). `OneAnswerEach` speaks of the time until the first
lock is dropped or the program restarted. `OutIsNotWished` is about who opted out in Discord; the
website's opt-out waits for no lock. `DoorComesBack` is the loop's doing; that `on_ready` skips a pass
that was a moment ago (`frontdoor.py:586`) is a step of `DoorSweeps`, about which no property
says that the door comes back. `EveryWordIsKept` counts what the member said: a reply of staff that races a close is in no transcript. `EveryoneGetsTheLock` is about handlers
that let go of the lock; one that asked for a lock it holds would have to be found by reading.

`Undisturbed` in a property excuses runs in which Discord refused the very clean-up the property is
about, or the program died: the code logs those and goes on, and nothing repairs them.

### Fairness

* `Events`: weak fairness of every task that is under way and of the start of each loop's pass,
  because asyncio runs what can run and `loop_failed` (cog:2155) restarts a loop that raised; strong
  fairness of `Lock`, because `asyncio.Lock` is first come first served; weak fairness of `Hear`:
  while the program is up the gateway delivers. Strong fairness of `Tick`: time passes. Starting an
  operation, `HandDelete` and `Crash` have none.
  That a loop is started again is thus an assumption of the liveness properties, not a result.
* `Polls`: every task goes on (`Proceed`), the lock is first come first served (`Enter`, which only the
  loop's promise needs), the loop is restarted when it raises (`Pass`), time goes by. Presses and
  restarts have none.
* `Birthdays`: the same, the lock for the sweep alone (`LockSweep`); days pass; strong fairness of
  `TakeBack \/ TakeBackMissing` says that Discord does not refuse to take the role back for ever, as
  every pass asks again.
* `Modmail`: the same, with the clock of an unplaced ticket; the lock is fair to the sweep, which is all
  that is needed. Listeners (`Notice`) have none: `LostRoomCloses` is the sweep's doing.
* `FrontDoor`: the five-minute loop asks for ever, `Begin`/`Skipped` as for `Lock`, and every task
  goes on. Strong fairness of `Send` and of the outcomes of `Fetch` and `Near` that go on says that
  Discord's refusals do not last and that a duplicate does not stay a recent one for ever; without it
  a door whose post is always refused never comes back, and the code promises nothing else.

## What the code does otherwise than it says

Met while modelling; the steps are in the modules, and traces of the models reach each of these. The
properties are stated so that they say what does hold.

Events and the front door:

* cog:2330: `approved_from` (`events.py:2192`) makes approved events without a review place,
  "announced when it starts, like any approved event"; `_recheck` cancels every open event without a
  place after five minutes. So does it with an event whose room staff deleted and that was approved
  afterwards, with the words "nobody was ever able to review it" (`events.py:680`).
* cog:2390: the tidying pass deletes the room of a row it queried as denied; "approve after all" may
  have come between, and then the listener cancels the approved event.
* `events.py:2208`: `approved_from` makes the scheduled event without the lock; a cancel in the
  meantime leaves it on the calendar.
* `events.py:2602`: the review card writes the room's id after its await, over the id of the post a
  move has put there; the deletion of the room then cancels the event.
* cog:2213: `_go_live` reads the row again but does not ask whether the start still has come; an edit
  to a later start while the pass waits is started early.
* cog:2214: the end is compared with the clock read when the pass began, so a pass that waited sets an
  event live after its end, although `_missed` says such an event is "never announced, only recorded".
* `events.py:2495`: two presses of Move both pass the check on the kind and open two posts.
* `events.py:2298` and 2644: a refused review place cancels the row without the lock, also when it was
  approved meanwhile, and undoes nothing.
* `events.py:2349-2352`: a restart between a post's id and its kind makes the sweep look for a room,
  and cancel the event as one whose channel is gone.
* `api/tools/frontdoor.py:40`: the website's Post is not under the Reconciler's lock, although "one
  front door per guild, posted from Discord or from the website" (`frontdoor.py:460`); two doors go
  up, one of which no setting names.
* `frontdoor.py:515`: "nothing puts it back", but a sweep past its look sets the channel again after
  `take_door_down` cleared it.

Polls (`cogs/community/polls.py`):

* 1522: `post_poll` writes `open` last, without the lock and whatever the poll has become: a poll
  cancelled or closed while Discord answered is open again, a move the table of transitions does not
  have (`polls.py:91-99`).
* 1421: a cancel that read the row before `set_posted` leaves Discord's vote running; a late vote's
  repaint puts the buttons back after a close.
* 907: `drop_lock` beside waiting presses makes two generations of locks, and two presses may then be
  in `set_panel_vote` at once; by then the poll is settled.
* A closed poll that is opened again by the first point is closed and announced twice (694).
* 1326: a poll of Discord's own whose message is not on the row yet, or is deleted, out of sight or out
  of reach when it closes, is closed without results, for good: the loop looks for open polls. The code
  means to ("The status moves even when Discord will not answer", 1295) and logs `results_failed`;
  `ClosedIsCounted` allows it and asks for the log.
* A restart between `send` and `set_posted` leaves an open poll without a message, which the loop never
  closes; one after the status `closed` loses the results. A last call is sent for a poll that ended
  between the query and the claim. `CancelUnposted` and `CancelUnreviewed` cancel a poll that may have
  been decided.

Birthdays (`cogs/community/birthdays.py`):

* 1180: the sweep's row is read before the lock and not again: after a Post now in between the member
  is wished twice, and a role given today may be taken back as yesterday's.
* `api/tools/birthdays.py` takes no lock; deleting there never gives the role back. A refused removal in
  `forget_birthday` deletes the row with the role still on (356), and a sweep at work while a row is
  deleted gives a role nobody records (253).
* 1356: "the role that went on comes off", but 1361-1363 clear the record of a member who is not in the
  cache without asking Discord; a member who is still on the server keeps the role, and no pass looks
  for it again (`history.missed`).
* The opt-out is a column and a table in two commits (223): a restart between them, or two presses,
  leave them saying different things.

Modmail (`cogs/moderation/modmail.py`):

* 1327: "Transcript first, then the record", but `mark_closed` comes before `post_transcript`: a restart
  between them leaves a closed ticket without one.
* 2910: "Exactly one card, always last", but a message that is no note and no reply (2627-2649)
  stays below the card until the next one that moves it.
* A reply that races a close is sent into a closed ticket and is in no transcript. A message to a ticket
  whose room is not made yet is recorded and relayed nowhere.
* 1150: a restart between the card and its id leaves two cards, although `_recard` (2910) is to find
  the one there is; one between `make_place` and `set_ticket_place` leaves a room no row names. A card
  Discord refused is not tried again before the next write or sweep.

Points (`points_moves.py`):

* 476: the announcements follow after the lock is let go, so two of them may reach the channel in the
  wrong order. A restart between `update_run` and the log's row leaves the log behind for good, as does
  a row that `note` (250-253) could not write (`history.lost`); and a change of `points_top_n` moves the
  top without a row.
* 523: bounties are switched without the lock, so a run may be approved under an offer that ended
  between its score and its write.

## Proofs

`tlapm` checks every obligation of the eight `...Proofs` modules. Nothing in them depends on the bounds
of a run: tasks, tickets, voters, members, runs and restarts are as many as one likes, but for what a
theorem's hypothesis, named below, excludes. Every theorem rests on an inductive invariant, shown for
`Init` and kept by each action in a step of its own; the theorems follow from it. As `TypeOK` is seldom
inductive (a value is written to a row that a task has carried through three awaits), each invariant
begins with what a task can be doing at each label.

**EventsProofs**

* `TypeCorrect` (`Spec => []TypeOK`), for every instance. `got` is written to the row, so its kind must
  be known at each label (`GotKinds`); `TypeInv` adds that.
* `OneDeciderAtATime` (`SingleDecider`) and `ImplementsLifecycle` (`FollowsLifecycle`), both assuming
  `EveryWriterLocks`: no automatic events and no refused places, the two handlers that write a status
  without the lock. The inductive invariant is `LInv`: the types, no task in one of those two
  handlers, and `LockInv`. While no terminal status has been written, nothing was dropped, so every
  mover has lock object 0 and they exclude each other; what one of them read is still so when it
  writes. Once a terminal status is written a second object may come into play, but every check under
  it fails (`CanTransition` from a terminal status is empty), so a second holder writes nothing. That
  is why `drop_lock` beside waiting tasks is harmless here, and it rests on terminal statuses having no
  way out of the table: it would stop being true were one added. The last step shows that `SetStatus`
  and the insertion of the row are steps of `EventLifecycle` and that all others leave the status alone.

**EventsOutcomeProofs**

* `NothingIsToldTwice` (`ToldOnce`) and `CancelUndoesItAll` (`CancelledIsUndone`), under
  `EveryWriterLocks` again: with an automatic event the second is false (`events.py:2208`, above). The
  invariant `Outcome` starts from `LockInv`: from its check to the last thing it tells or undoes a
  handler has the first lock object, so one at most is in its section (`OneInSection`), and `Knows`
  says what that one may rely on at each label: nothing was told before an approval, the id it read is
  the row's until it is used. `Recorded` and `Undoing` say that whatever is up is on the row or in the
  hands of that one, and that a cancelled event's is about to be taken down.
* `NoRoomIsLost` (`NoPlaceLeftBehind`) where there are no posts, automatic events and refused rooms
  included. An event gets one room at most (`OneRoomMade`); the row forgets a room only when one is
  gone (`Hands`), and since there is no other the row keeps the one that stands. With posts there are
  two places, and a pass of the sweep between a post's id and its kind forgets the wrong one.
* Both rest on `Paths`: whoever deletes a place has one in its hands, and the listener of a place that
  was not deleted is idle, so the news of a deletion never lands in the middle of a cancel.
* `MovingIsNoSettling` (`MoveSettlesNothing`): a room of an open event is moved to the forum and the
  event edited, with the one-minute loop, the sweep and the listeners about, and the event stays open
  although its room is deleted on the way. The hypothesis `MovesAlone` says what the code needs for it,
  and each part is a trace in which the event is called off: one button at a time (a card still being
  posted writes the old room's id back, `events.py:2602`, and two presses open two posts), no restart
  (between a post's id and its kind, 2349-2352), nobody who decides, deletes by hand or refuses, and a
  sweep whose grace for an event without a place (`Grace`, of any length) is not over yet. Rooms, posts,
  edits and passes of both loops are as many as one likes. The inductive invariant `Moving` has the row
  (`RowOpen`), what the task knows at each label (`Mover`) and what a pass of the sweep may still
  believe (`Sweeper`): it judges a row it read earlier, and misses count only from one pass to the next.
  The interval of two statements in which the row names a post as if it were a room (`InBetween`) can
  cost one miss, and the next read of the row takes it back (`Moved`).

**FrontDoorProofs**

* `ReconcilesOneAtATime`: `Reconciler.run` alone, for any callers, skippers and stampers, exceptions
  included.
* `FrontDoorTyped` and `SecondSeesTheFirst`, with the website, crashes and exceptions.
* `SweepsKeepOneDoor` (`OneFrontDoor`), assuming `OnlySweeps`: the website asks for nothing. The
  assumption is needed, see "What the code does otherwise" above. `DoorInv` says what the one run at
  work knows at each label: what it read is what the settings say until it writes them, and the doors
  that are up are among the old one and the one in its hand.

**PollsProofs**

* The invariant `Safe` is `TypeOK`, `Locks` and `Story`. `Locks` says what a task can be doing where it
  stands (`Paths`), that no task has a lock object newer than the table's (`Numbered`) and that two
  holders hold two objects (`Excluded`). `Story` is about the poll. Its heart is `FirstLock`: as long as
  the poll can be decided, the first lock object is the only one, because `drop_lock` runs only after a
  move to a status that no decision leaves. Two holders would then hold the same object, so whoever is
  about to decide is alone, and `Record` says what they know: nothing was decided, or it was denied and
  is being approved. A poll is reached by no poster before that (`Poster`), which makes `post_poll`
  without the lock harmless as far as its one message goes.
* `StaffDecideOnce` (`DecidedOnce`), `APollIsPostedOnce` (`PostedOnce`), `OneLastCall`
  (`LastCallOnce`, from `Reminder`: a claim stays until the refusal of its own message),
  `AnswersAreReplaced` (`OneAnswerEach`, from `Answered`: between the two statements the voter has no
  answer).
* `AClosedPollIsCounted` (`ClosedIsCounted`), for panels and Discord's own polls and whoever closes
  them. The invariant `Counting`, beside `Safe`, holds until a restart. `Accounted`: a closed poll has
  its results, or the log says there was no message, or one task is on its way to one of these
  (`Writes`). `Exact`, about a panel that was closed once: whoever is between the deletion of an answer
  and the new one when the first lock is dropped would have to hold it (`Excluded`), and whoever comes
  later is late, so what the counting task has in hand, and then the results, are the answers of all who
  were in time.

**BirthdaysProofs**

* `BirthdaysTyped`; `NoneIsWishedTwice` (`PostNowSeesTheSweep`), `NobodyIsWishedWhoIsOut`
  (`OutIsNotWished`, for the opt-out in Discord; the website's takes no lock) and `WornIsRecorded`
  (`RoleIsRecorded`, unless the program died, the row was deleted, or the record was cleared of a member
  who was not in the cache). `LockInv` holds the types, what each label
  is for (`Path`) and the lock (`Locked`); `Promises` what a task may rely on between its reading of the
  row and its wish or its record. Two of its parts say why this works although some writes take no
  lock: a Post now is asked again under the lock it wishes under (`StillDue`), and the opt-out of a
  member who pressed the button waits for the same lock (`NotOut`).

**ModmailProofs**

* `ModmailTyped`; `OneTicketAtATime` (the unique index of the table is never what stops a second
  ticket), `TranscriptsAreWhole` (`EveryWordIsKept`) and `ClosedTicketsAreBare` (`ClosedHasNoCard`).
  The transcript is whole as to the member's words, and a closed ticket's row names no card.
  `Safe` is the types, the labels' meaning, that whoever is inside the member's section is the one the
  lock names, what is true of every ticket, room and transcript (`World`), and `Knowledge`: what the
  holder has read of its ticket at each label is still so. A word said while a ticket is closing waits
  for the lock and finds the ticket closed, so it opens another; that is why the transcript read under
  the lock is whole.

**ModmailCardProofs**

* `CardStaysLast` (`OneCardAndLast`), on top of `Safe`, for any tasks, tickets and words: while nothing
  went wrong, an open ticket shows the card its row names and no other once nobody has it in hand, and
  when all are through it stands below every message the ticket keeps (below it may be what `Stay` left
  there, which is no such message: `Strange`). `CardSafe` says what each holder of a card has in its
  hands between the send, the row and the deletion (`Hand`), that otherwise the room's cards are the one
  on the row (`Plain`), and that a card which is not last has somebody who is still to bring it down: a
  task about to say so, the timer asleep with its `dirty` mark set, or a close (`Bottom`). The last is
  the debounce's correctness: a word that arrives while the timer runs sets the mark, and a timer that
  finds it at its end goes round again.

**PointsProofs**

* `LockHeld` (one verifier's move at a time, and what it read is what stands) gives `PointsTyped` and
  `DecidesWhatItRead` (`NobodyIsRaced`): the compare-and-set of `update_run` is never what saves a run.
* `TheLogAddsUp` (`TopIsRecorded`) rests on `DiffReplays`, a lemma about `Diff` and `Replay`: whatever
  two lists of places are, replaying their difference on the first gives the second. Between moves the
  log has the top, unless a row was lost to a restart or a failed write, during one it has the board its
  verifier read.
* `RecomputeIsKept` (`RecomputedIsCurrent`): the runs a recompute has written are worth what the bounties
  it read make of them.

* What `points/board.py` and `points/bounty.py` compute. `TheGapSuffices` (`GapPassesThePlaceAbove`):
  points of the gap added to a member's total put them before everyone who was above, ties, names and
  ids included. `PlacesAreTaken`: every member on the board has a place, no two have the same, and the
  places are 1 up to their number. `TheBestBountyWins` (`BestBountyWins`): of the bounties that match a
  run, the one that is applied gives the most, and the older one of two that give the same. The sums
  and the choice are folds over finite sets. The library's induction theorems cannot be instantiated
  here, so what a fold computes is shown by a least counterexample: the set of subsets for which the
  claim fails would have a minimal member (`MinimalSubset`, from the well-foundedness theorems), and
  one step of the fold contradicts it (`FoldExists` and the lemmas after it).

Every invariant a run checks is stated by a theorem. Where the run is wider than the theorem's
hypotheses, the section above says so. Only model-checked: every liveness property
(`EveryoneGetsTheLock`, `ApprovedMovesOn`, `LiveEnds`, `LostRoomIsNoticed`, `DoorComesBack`,
`UnderTheRules`, `PostedPollEnds`, `RecordedRoleComesOff`, `LostRoomCloses`, `CardComesBack`), as
fairness and ENABLED are outside the prover.

The theorems use the constants' assumptions (`ProcsAssumption`, `ClicksAssumption`, `PollsAssumption`
and so on), which TLC evaluates in every run.

## Not modelled, and why

* Panels, modals, views, wording, logs: interface over the functions that are modelled.
* Test mode and shadow channels: a policy over channel ids without state.
* A door carried by a post (`door_carrier`, `keep_the_ride`): a second place the door may be.
* The one connection all tasks share: a statement and its commit are one step in every model, so a
  rollback that takes another task's uncommitted statement with it is not.
* `unreadable_start`, settings that are wrong, deleted categories: refusals before any state changes.
* A cancelled task at shutdown runs like a crash; asyncio's cancellation inside a section is not
  modelled apart from it.
* The features marked "planned" or "not modelled" in the inventory.

## Plan

What is next, the most shared state first.

1. `SharedConnection`: statements and commits of several tasks on one connection, with a rollback
   (`marathon_archive.py:111`, `pb_store.py:145`); property: what a task was told is committed stays.
   The abstract specification is a database of atomic statements, which the other modules assume.
2. `Spotlight` sessions (`spotlight.py:2263`), then role grants (`role_menus.py:3117`): one open session,
   a grant that ends when it should beside an extension.
3. `FrontDoor` with a door that a post carries.
4. Practice tickets and the block list in `Modmail`; two voters and editing of options in `Polls`.
5. Proofs: `NoRoomIsLost` with posts where no sweep falls between a post's two statements; a second
   button beside a move, once the card's write has been looked at; the safety halves of the liveness
   properties (what must hold for the next step to be possible), of which the prover can say something.
