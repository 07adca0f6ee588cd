------------------------------ MODULE PointsScore ------------------------------
(* What one approved run is worth: black_bloc/points/xp.py, bounty.py and      *)
(* scoring.py.  A time is a number, an amount of a bounty counts tenths.       *)
EXTENDS Integers, FiniteSetsExt

\* The tier of a run is the highest whose floor it reaches.
XpFor(seconds, tiers, low, high) ==
    LET reached == {t \in tiers : t.floor <= seconds}
        best    == IF reached = {} THEN 0
                   ELSE (CHOOSE t \in reached : \A u \in reached : u.floor <= t.floor).xp
    IN  Min({Max({best, low}), high})

LiveAt(b, day) == b.from <= day /\ day < b.till

Matches(b, game) == game \in b.games

\* A multiplier rounds half up.
WithBonus(base, b) == IF b.kind = "multiplier" THEN (2 * base * b.amount + 10) \div 20
                                               ELSE base + (b.amount + 5) \div 10

Offers(game, day, bounties) == {b \in bounties : LiveAt(b, day) /\ Matches(b, game)}

Better(base, best, b) == IF WithBonus(base, b) > best.points
                         THEN [points |-> WithBonus(base, b), bounty |-> b.id] ELSE best

\* Mutation of PointsFor: an equal offer takes the run as well.
PointsForLast(base, game, day, bounties) ==
    LET Newest(bs) == CHOOSE b \in bs : \A o \in bs : o.id <= b.id
        AsGood(b, best) == IF WithBonus(base, b) >= best.points
                           THEN [points |-> WithBonus(base, b), bounty |-> b.id] ELSE best
    IN  MapThenFoldSet(AsGood, [points |-> base, bounty |-> 0], LAMBDA b : b, Newest,
                       Offers(game, day, bounties))

\* points_for: the bounties are looked at from the oldest on, so the newest last.
PointsFor(base, game, day, bounties) ==
    LET Newest(bs) == CHOOSE b \in bs : \A o \in bs : o.id <= b.id
    IN  MapThenFoldSet(LAMBDA b, best : Better(base, best, b), [points |-> base, bounty |-> 0],
                       LAMBDA b : b, Newest, Offers(game, day, bounties))

Score(run, rules, bounties, day) ==
    [xp     |-> XpFor(run.seconds, rules.tiers, rules.low, rules.high),
     points |-> PointsFor(rules.perRun, run.game, day, bounties).points]

-------------------------------------------------------------------------------
\* Does the run get the most a live bounty of its game offers, from the oldest that does?
GetsTheBest(base, game, day, bounties) ==
    LET offers == Offers(game, day, bounties)
        given  == PointsFor(base, game, day, bounties)
        best   == Max({base} \cup {WithBonus(base, b) : b \in offers})
        equal  == {b.id : b \in {o \in offers : WithBonus(base, o) = best}}
    IN  /\ given.points = best
        /\ given.bounty = IF best = base THEN 0 ELSE Min(equal)
================================================================================
