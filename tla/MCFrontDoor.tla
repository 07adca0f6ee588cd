----------------------------- MODULE MCFrontDoor -----------------------------
(* Small instances of FrontDoor for TLC. *)
EXTENDS FrontDoor

CONSTANTS loop, ready, published, w1, rulesRoom, otherRoom

AllCallers == {loop, ready, published}
LoopOnly   == {loop}
NoClicks   == {}
OneClick   == {w1}
TwoRooms   == {rulesRoom, otherRoom}
OneRoom    == {rulesRoom}
BootSkips  == {ready}
NoneSkip   == {}
SweepsStamp == Callers \ {published}
==============================================================================
