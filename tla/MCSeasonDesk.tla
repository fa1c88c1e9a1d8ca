---------------------------- MODULE MCSeasonDesk ----------------------------
(* SeasonDesk with four teams and two regular fixtures.                     *)
EXTENDS SeasonDesk

FourTeams == 1 .. 4
TwoFixtures == [r1 |-> <<1, 2>>, r2 |-> <<4, 3>>]

Line(runs, faced, bowled, wickets) ==
    [runs |-> runs, faced |-> faced, bowled |-> bowled, wickets |-> wickets]

\* A chase of twenty; a side that is all out early; a card of the home side.
Chase == [rows |-> {"home", "away"}, home |-> Line(20, 6, 4, 2), away |-> Line(18, 4, 6, 1)]
Collapse == [rows |-> {"home", "away"}, home |-> Line(18, 6, 0, 1), away |-> Line(9, 3, 6, 10)]
HomeOnly == [rows |-> {"home"}, home |-> Line(21, 5, 0, 0), away |-> Line(0, 0, 0, 0)]

NoExtras == [home |-> 0, away |-> 0]
Wides == [home |-> 0, away |-> 3]

Entry(outcome, winner, first, excluded, extras, card) ==
    [outcome |-> outcome, winner |-> winner, first |-> first, excluded |-> excluded,
     extras |-> extras, card |-> card]

ChaseWon == Entry("win", "away", "home", FALSE, Wides, Chase)
AllOutLost == Entry("win", "home", "away", FALSE, NoExtras, Collapse)
Excluded == Entry("win", "home", "home", TRUE, NoExtras, HomeOnly)
WashedOut == Entry("no_result", "none", "home", FALSE, NoExtras, HomeOnly)
Tied == Entry("tie", "none", "none", FALSE, NoExtras, Chase)
Walkover == Entry("win", "home", "none", FALSE, NoExtras, None)

AllEntries == {None, ChaseWon, AllOutLost, Excluded, WashedOut, Tied}
ThreeEntries == {AllOutLost, WashedOut, Walkover}
BothWays == {AllOutLost, ChaseWon}
DecidedEntries == {ChaseWon, Excluded}
OneEntry == {ChaseWon}
LiveResults == {ChaseWon, WashedOut}

\* A status; a team that takes the place of the visitors; another season.
Status(status) == [status |-> status]
SomeChanges ==
    {Status("scheduled"), Status("completed"), Status("abandoned"), [away |-> 3],
     [here |-> FALSE], [here |-> TRUE, published |-> TRUE, home |-> 2]}
NoChange == {}

Decision(status, side, override) == [status |-> status, side |-> side, override |-> override]
Award == [outcome |-> "win", winner |-> "away", excluded |-> TRUE]
TwoDecisions == {Decision("decided", "home", None), Decision("dismissed", "away", Award)}
NoDecision == {}
=============================================================================
