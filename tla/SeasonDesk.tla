----------------------------- MODULE SeasonDesk -----------------------------
(***************************************************************************)
(* The fixtures of one season between the administrators, who save and     *)
(* revise results, call matches off, decide discipline cases and create    *)
(* the playoff bracket (admin_routes.py), the scorers, who start and       *)
(* finish matches, and the readers of the two points tables: the seeding   *)
(* of the playoffs (_season_standing_team_ids) and the public website      *)
(* (leagueSeasonAggregates.ts).                                            *)
(*                                                                         *)
(* One player stands for the players of a team.  The career totals of a    *)
(* team are the scorecards they count.  The scorers' lease, the lock of a  *)
(* scorecard and the ledger of deliveries are LiveScoring's.               *)
(***************************************************************************)
EXTENDS Integers, Sequences, SequencesExt, FiniteSetsExt

CONSTANTS
    Teams,         \* the ids of the enrolled teams
    Pairing,       \* regular fixtures: name |-> <<home, away>>
    Drafts,        \* the regular fixtures that are not published yet
    Competitions,  \* the competitions a run looks at
    Played,        \* results with scorecards that a regular fixture may start with
    Entries,       \* those an administrator types in later
    LiveEntries,   \* what the deliveries of a live match amount to
    Decisions,     \* decisions on a discipline case
    Changes,       \* what an administrator writes over fields of a fixture
    Worked,        \* the fixtures that requests are about
    BonusRuns,     \* 200 in the code
    AllOut,        \* wickets that end an innings, 10 in the code
    AllottedBalls, \* balls of a complete innings
    Handlers,      \* the requests a run sends
    MaxRequests    \* requests: a bound of the model

Regular == DOMAIN Pairing
Bracket == {"qualifier_1", "eliminator", "qualifier_2", "final"}
Statuses == {"scheduled", "live", "completed", "abandoned", "cancelled"}

ASSUME SeasonAssumption ==
    /\ Teams \subseteq Nat \ {0} /\ IsFiniteSet(Teams) /\ Cardinality(Teams) >= 4
    /\ IsFiniteSet(Regular) /\ Regular \cap Bracket = {} /\ Drafts \subseteq Regular
    /\ \A f \in Regular : Pairing[f] \in Teams \X Teams /\ Pairing[f][1] # Pairing[f][2]
    /\ Competitions \subseteq {"t20 blast", "super40", "other"}
    /\ Worked \subseteq Regular \cup Bracket
    /\ AllottedBalls \in Nat \ {0} /\ MaxRequests \in Nat

Nobody == 0       \* no team
None == [none |-> TRUE]
Sides == {"home", "away"}
Outcomes == {"win", "tie", "no_result"}

\* An innings, and a scorecard as it is typed in: the sides that have rows on it.
Figures == [runs : Nat, faced : Nat, bowled : Nat, wickets : Nat]
IsCard(card) == card # None => card.rows \subseteq Sides /\ \A side \in card.rows : card[side] \in Figures

\* A result names a winner if and only if it is a win.
IsResult(e) == e.outcome \in Outcomes /\ (e.outcome = "win") = (e.winner \in Sides)

IsEntry(e) == IsResult(e) /\ IsCard(e.card) /\ \A side \in Sides : e.extras[side] \in Nat

ASSUME EntryAssumption ==
    /\ \A e \in (Played \ {None}) \cup Entries \cup LiveEntries : IsEntry(e)
    /\ \A e \in LiveEntries : e.first \in Sides
    /\ \A d \in Decisions : d.override # None => IsResult(d.override)

\* Some of a fixture's fields; teams that are not enrolled are refused.
ASSUME ChangeAssumption ==
    \A c \in Changes :
       /\ DOMAIN c \subseteq {"home", "away", "status", "published", "here"}
       /\ \A side \in DOMAIN c \cap Sides : c[side] \in Teams
       /\ "status" \in DOMAIN c => c.status \in Statuses
       /\ \A flag \in DOMAIN c \cap {"published", "here"} : c[flag] \in BOOLEAN

VARIABLES
    competition,  \* what the names of the league and the season say
    fixture,      \* its fixtures, by name, with those that were moved to another season
    totals,       \* career totals of a team's players: the scorecards counted
    cases,        \* the discipline case of a fixture
    desk,         \* a result that is being saved, from its last read to its commit
    requests      \* requests so far

vars == <<competition, fixture, totals, cases, desk, requests>>

Test(condition) == IF condition THEN 1 ELSE 0

TeamAt(x, side) == CASE side = "home" -> x.home [] side = "away" -> x.away [] OTHER -> Nobody
SideOf(x, t) == IF t = x.home THEN "home" ELSE "away"
Other(x, t) == IF t = x.home THEN x.away ELSE x.home
Plays(x, t) == t \in {x.home, x.away}

\* A scorecard without rows, and the one that a typed-in card makes of a fixture.
Blank == [t \in Teams |-> None]
CardOf(x, card) ==
    [t \in Teams |-> IF card # None /\ Plays(x, t) /\ SideOf(x, t) \in card.rows
                     THEN card[SideOf(x, t)] ELSE None]

-----------------------------------------------------------------------------
(* Career totals *)

\* The teams whose players have a row on the scorecard; rows keep their team.
RowTeams(x) == {t \in Teams : x.card[t] # None}

\* What recompute_player_career_stats reads for a player of team t.
Counted(fx, t) ==
    {<<f, fx[f].card>> : f \in {g \in DOMAIN fx : fx[g].status = "completed" /\ t \in RowTeams(fx[g])}}

RecomputePlayerCareerStats(fx, ts) ==
    totals' = [t \in Teams |-> IF t \in ts THEN Counted(fx, t) ELSE totals[t]]

\* Mutant: players who are no longer on the scorecard keep its figures.
AffectedByNewRows(old, new) == RowTeams(new)

\* affected_player_ids_for_match, with the players of the new scorecard
AffectedTeams(old, new) == RowTeams(old) \cup RowTeams(new)

-----------------------------------------------------------------------------
(* What both tables read from a scorecard *)

WinPoints == IF competition = "super40" THEN 4 ELSE 2
TiePoints == IF competition = "super40" THEN 3 ELSE 1
NoResultPoints == IF competition = "super40" THEN 2 ELSE 1

NoInnings == [runs |-> 0, faced |-> 0, bowled |-> 0, wickets |-> 0]

\* The figures of a team: its rows on the scorecard, and the extras that the
\* result has for its side.
InningsStats(x, t) ==
    LET rows == IF x.card[t] = None THEN NoInnings ELSE x.card[t]
        extras == IF x.result = None THEN 0 ELSE x.result.extras[SideOf(x, t)]
    IN  [rows EXCEPT !.runs = @ + extras]

Adjustment(fx, t) ==
    LET deciding == {f \in DOMAIN cases \cap DOMAIN fx :
                        /\ fx[f].here /\ cases[f].team = t
                        /\ cases[f].status \in {"decided", "appealed", "final"}}
    IN  SumFunction([f \in deciding |-> cases[f].points])

\* A rate as a fraction; no balls count as a rate of nothing.
Rate(runs, balls) == IF balls = 0 THEN <<0, 1>> ELSE <<runs, balls>>
Minus(p, q) == <<p[1] * q[2] - q[1] * p[2], p[2] * q[2]>>
Nrr(row) == Minus(Rate(row.for, row.faced), Rate(row.against, row.bowled))
Greater(p, q) == p[1] * q[2] > q[1] * p[2]

-----------------------------------------------------------------------------
(* The table of the server, which seeds the playoffs *)

Outcome(x) == IF x.result = None THEN "" ELSE x.result.outcome
Winner(x) == IF x.result = None THEN Nobody ELSE x.result.winner

\* Mutant: a fixture in draft is counted.
ServerCountsDrafts(f, x) == f \in Regular /\ x.here /\ x.status = "completed"

ServerCounts(f, x) == f \in Regular /\ x.here /\ x.status = "completed" /\ x.published

ServerDefinitive(x) == Outcome(x) # "no_result" /\ (Outcome(x) = "tie" \/ Plays(x, Winner(x)))

ServerResultPoints(x, t) ==
    CASE Outcome(x) = "tie"       -> TiePoints
      [] Outcome(x) = "no_result" -> NoResultPoints
      [] OTHER -> IF ~Plays(x, Winner(x)) THEN NoResultPoints
                  ELSE IF t = Winner(x) THEN WinPoints ELSE 0

\* Two hundred runs, and a chase of a target of two hundred.
ServerBonus(x, t) ==
    IF competition # "t20 blast" \/ ~ServerDefinitive(x) THEN 0
    ELSE LET first == x.result.first IN
         Test(InningsStats(x, t).runs >= BonusRuns)
         + Test(/\ Plays(x, first) /\ t # first /\ Winner(x) = t
                /\ InningsStats(x, first).runs + 1 >= BonusRuns)

ServerBalls(x, t) ==
    LET own == InningsStats(x, t)
        other == InningsStats(x, Other(x, t))
    IN  IF own.wickets >= AllOut THEN AllottedBalls
        ELSE IF other.bowled # 0 THEN other.bowled ELSE own.faced

\* A team's row in a table; what counts, and as what, are the table's own.
Row(fx, t, Counts(_, _), Points(_, _), Rated(_), Won(_, _), Balls(_, _)) ==
    LET played == {f \in DOMAIN fx : Counts(f, fx[f]) /\ Plays(fx[f], t)}
        rated == {f \in played : Rated(fx[f])}
        Against(f) == Other(fx[f], t)
    IN  [team    |-> t,
         points  |-> SumFunction([f \in played |-> Points(fx[f], t)]) + Adjustment(fx, t),
         wins    |-> Cardinality({f \in played : Won(fx[f], t)}),
         losses  |-> Cardinality({f \in played : Won(fx[f], Against(f))}),
         for     |-> SumFunction([f \in rated |-> InningsStats(fx[f], t).runs]),
         faced   |-> SumFunction([f \in rated |-> Balls(fx[f], t)]),
         against |-> SumFunction([f \in rated |-> InningsStats(fx[f], Against(f)).runs]),
         bowled  |-> SumFunction([f \in rated |-> Balls(fx[f], Against(f))])]

\* One row before another: points, net run rate, wins, losses, the team's id.
Ahead(x, y) ==
    \/ x.points > y.points
    \/ /\ x.points = y.points
       /\ \/ Greater(Nrr(x), Nrr(y))
          \/ /\ ~Greater(Nrr(y), Nrr(x))
             /\ \/ x.wins > y.wins
                \/ x.wins = y.wins /\ x.losses < y.losses
                \/ x.wins = y.wins /\ x.losses = y.losses /\ x.team < y.team

\* The teams of a table from its top: the n-th has n - 1 rows ahead of it.
Ordered(table) ==
    [n \in 1 .. Cardinality(Teams) |->
        (CHOOSE x \in table : Cardinality({y \in table : Ahead(y, x)}) = n - 1).team]

ServerPoints(x, t) == ServerResultPoints(x, t) + ServerBonus(x, t)
ServerRated(x) == ServerDefinitive(x) /\ ~x.result.excluded
ServerWon(x, t) == Outcome(x) \notin {"tie", "no_result"} /\ Winner(x) = t

ServerRow(fx, t) == Row(fx, t, ServerCounts, ServerPoints, ServerRated, ServerWon, ServerBalls)

\* _season_standing_team_ids
SeasonStandingTeamIds(fx) == Ordered({ServerRow(fx, t) : t \in Teams})

-----------------------------------------------------------------------------
(* The table of the website *)

\* isNoResultMatch: a saved outcome decides; without one the status does.
SiteNoResult(x) ==
    \/ Outcome(x) = "no_result"
    \/ (Outcome(x) = "" /\ x.status = "abandoned")

\* The matches that /public/results serves, and of them those of the regular
\* stage.  computeSeasonStandings would take a match without result in any
\* status; none but completed ones reach it.
SiteCounts(f, x) == f \in Regular /\ x.here /\ x.status = "completed" /\ x.published

SiteTied(x) == ~SiteNoResult(x) /\ Outcome(x) = "tie"
SiteWon(x, t) == ~SiteNoResult(x) /\ ~SiteTied(x) /\ Plays(x, t) /\ Winner(x) = t

SiteDefinitive(x) ==
    /\ x.status = "completed"
    /\ SiteTied(x) \/ \E t \in Teams : SiteWon(x, t)

SiteResultPoints(x, t) ==
    CASE SiteNoResult(x)          -> NoResultPoints
      [] SiteTied(x)              -> TiePoints
      [] SiteWon(x, t)            -> WinPoints
      [] SiteWon(x, Other(x, t))  -> 0
      [] OTHER                    -> NoResultPoints

SiteBonus(x, t) ==
    IF competition # "t20 blast" \/ ~SiteDefinitive(x) THEN 0
    ELSE LET first == x.result.first
             chase == Plays(x, first) /\ t = Other(x, first) /\ Winner(x) = t
         IN  Test(InningsStats(x, t).runs >= BonusRuns)
             + Test(chase /\ InningsStats(x, first).runs + 1 >= BonusRuns)

\* nrrBallsForInnings
SiteBalls(x, t) ==
    LET bowled == InningsStats(x, Other(x, t)).bowled
        actual == IF bowled > 0 THEN bowled ELSE InningsStats(x, t).faced
    IN  IF InningsStats(x, t).wickets >= AllOut /\ AllottedBalls > 0 THEN AllottedBalls ELSE actual

SitePoints(x, t) == SiteResultPoints(x, t) + SiteBonus(x, t)
SiteRated(x) == SiteDefinitive(x) /\ ~x.result.excluded

SiteRow(fx, t) == Row(fx, t, SiteCounts, SitePoints, SiteRated, SiteWon, SiteBalls)

\* computeSeasonStandings and sortStandingsDesc
SiteStandings(fx) == Ordered({SiteRow(fx, t) : t \in Teams})

-----------------------------------------------------------------------------
(* The bracket *)

Standing(n) == [kind |-> "standing", of |-> n]
WinnerOf(f) == [kind |-> "winner", of |-> f]
LoserOf(f) == [kind |-> "loser", of |-> f]

\* home_team_source and away_team_source
Source ==
    [qualifier_1 |-> [home |-> Standing(1), away |-> Standing(2)],
     eliminator  |-> [home |-> Standing(3), away |-> Standing(4)],
     qualifier_2 |-> [home |-> LoserOf("qualifier_1"), away |-> WinnerOf("eliminator")],
     final       |-> [home |-> WinnerOf("qualifier_1"), away |-> WinnerOf("qualifier_2")]]

RegularStageIsComplete(fx) ==
    LET regular == {f \in DOMAIN fx \cap Regular : fx[f].here}
    IN  /\ regular # {}
        /\ \A f \in regular : fx[f].status \in {"completed", "abandoned", "cancelled"}

\* _team_id_from_playoff_source
TeamIdFromSource(fx, source) ==
    IF source.kind = "standing"
    THEN IF RegularStageIsComplete(fx) THEN SeasonStandingTeamIds(fx)[source.of] ELSE Nobody
    ELSE IF source.of \notin DOMAIN fx THEN Nobody
    ELSE LET x == fx[source.of]
             won == Winner(x) # Nobody
         IN  CASE won /\ source.kind = "winner"                     -> Winner(x)
               [] won /\ source.kind = "loser" /\ Plays(x, Winner(x)) -> Other(x, Winner(x))
               [] OTHER                                             -> Nobody

\* A fixture that has started must keep the teams on its scorecard.
Reseedable(x) ==
    /\ x.status = "scheduled" /\ ~x.finalized /\ ~x.begun
    /\ x.result = None /\ x.card = Blank /\ x.ledger = None

\* Mutant of Seeded: a team that is settled is not replaced when a result changes.
SeededOnce(x, home, away, free) ==
    LET setHome == home # Nobody /\ free /\ x.heldHome
        setAway == away # Nobody /\ free /\ x.heldAway
    IN  [x EXCEPT !.home = IF setHome THEN home ELSE @,
                  !.heldHome = @ /\ ~setHome,
                  !.away = IF setAway THEN away ELSE @,
                  !.heldAway = @ /\ ~setAway]

\* The part of _sync_playoff_fixture_teams for one fixture.
Seeded(x, home, away, free) ==
    LET setHome == home # Nobody /\ (free \/ x.home = home)
        setAway == away # Nobody /\ (free \/ x.away = away)
    IN  [x EXCEPT !.home = IF setHome THEN home ELSE @,
                  !.heldHome = @ /\ ~setHome,
                  !.away = IF setAway THEN away ELSE @,
                  !.heldAway = @ /\ ~setAway]

Free(fx) == {f \in DOMAIN fx \cap Bracket : fx[f].here /\ Reseedable(fx[f])}

\* _sync_playoff_fixture_teams for this season (here) or another one, free the
\* fixtures that it found untouched
SyncPlayoffFixtureTeams(fx, here, free) ==
    [f \in DOMAIN fx |->
        IF f \in Regular \/ ~here \/ ~fx[f].here THEN fx[f]
        ELSE Seeded(fx[f], TeamIdFromSource(fx, Source[f].home),
                    TeamIdFromSource(fx, Source[f].away), f \in free)]

-----------------------------------------------------------------------------
(* Results *)

\* An entry in the terms of a fixture.
ResultOf(x, e, excluded) ==
    [outcome |-> e.outcome, winner |-> TeamAt(x, e.winner), first |-> TeamAt(x, e.first),
     extras |-> [side \in Sides |-> e.extras[side]], excluded |-> excluded]

\* admin_set_match_result, up to its flush.
WithResult(x, e) ==
    [x EXCEPT !.result = ResultOf(x, e, e.excluded), !.card = CardOf(x, e.card),
              !.status = "completed", !.finalized = TRUE]

\* The deliveries of a match name the two teams it had when they were posted.
Ledger(x, e) == [entry |-> e, home |-> x.home, away |-> x.away]

\* The sides that batted; the match is without a result after one innings.
Batted(ledger) ==
    IF ledger.entry.outcome = "no_result" THEN {TeamAt(ledger, ledger.entry.first)}
    ELSE {ledger.home, ledger.away}

\* A side of its deliveries that batted is a team of the match: the rebuild
\* fails for another one.
Rebuildable(x) == x.ledger # None => Batted(x.ledger) \subseteq {x.home, x.away}

\* The scorecard that a rebuild makes: players of another team have no row.
Rebuilt(x, ledger) ==
    LET card == CardOf(ledger, ledger.entry.card)
    IN  [t \in Teams |-> IF Plays(x, t) THEN card[t] ELSE None]

\* _finalize_live_match_result; nrr_excluded stays as it was.
Finalized(x) ==
    LET ruled == ResultOf(x.ledger, x.ledger.entry, x.result # None /\ x.result.excluded)
        Extras(t) == IF Plays(x.ledger, t) THEN ruled.extras[SideOf(x.ledger, t)] ELSE 0
    IN  [x EXCEPT !.result = [ruled EXCEPT !.extras = [home |-> Extras(x.home), away |-> Extras(x.away)]],
                  !.card = Rebuilt(x, x.ledger), !.status = "completed", !.finalized = TRUE]

Idle == [match |-> "none"]

New(home, away, published) ==
    [home |-> home, away |-> away, heldHome |-> FALSE, heldAway |-> FALSE, status |-> "scheduled",
     here |-> TRUE, published |-> published, result |-> None, card |-> Blank, ledger |-> None,
     finalized |-> FALSE, begun |-> FALSE]

\* A season that has begun: regular fixtures are scheduled or have a result.
Init ==
    /\ competition \in Competitions
    /\ \E start \in [Regular -> Played] :
          fixture = [f \in Regular |->
              LET x == New(Pairing[f][1], Pairing[f][2], f \notin Drafts)
              IN  IF start[f] = None THEN x ELSE WithResult(x, start[f])]
    /\ totals = [t \in Teams |-> Counted(fixture, t)]
    /\ cases = [f \in {} |-> None]
    /\ desk = Idle
    /\ requests = 0

Request(name) ==
    /\ name \in Handlers
    /\ requests < MaxRequests
    /\ requests' = requests + 1
    /\ UNCHANGED competition

\* One administrator works at a time; the scorers go on meanwhile.
AtDesk(name) == desk = Idle /\ Request(name)

-----------------------------------------------------------------------------
(* The administrators *)

\* admin_publish_draft_fixtures
PublishDrafts ==
    /\ AtDesk("publish")
    /\ LET seeded == SyncPlayoffFixtureTeams(fixture, TRUE, Free(fixture))
       IN  fixture' = [f \in DOMAIN seeded |-> [seeded[f] EXCEPT !.published = @ \/ seeded[f].here]]
    /\ UNCHANGED <<totals, cases, desk>>

\* admin_create_playoff_fixtures; a second bracket beside the remains of a
\* first is left out.
CreatePlayoffFixtures ==
    /\ AtDesk("bracket")
    /\ DOMAIN fixture \cap Bracket = {}
    /\ LET seeds == SeasonStandingTeamIds(fixture)
           Held(home, away) == [New(seeds[home], seeds[away], FALSE)
                                    EXCEPT !.heldHome = TRUE, !.heldAway = TRUE]
           bracket == [qualifier_1 |-> Held(1, 2), eliminator |-> Held(3, 4),
                       qualifier_2 |-> Held(1, 3), final |-> Held(1, 3)]
           created == [f \in DOMAIN fixture \cup Bracket |->
                          IF f \in Bracket THEN bracket[f] ELSE fixture[f]]
       IN  fixture' = SyncPlayoffFixtureTeams(created, TRUE, Bracket)
    /\ UNCHANGED <<totals, cases, desk>>

\* admin_set_match_result: everything up to the read of the fixtures that may
\* be reseeded.  Nothing of it is visible to others yet.
SetMatchResult(f, e) ==
    /\ AtDesk("result")
    /\ desk' = [match |-> f, entry |-> e,
                free |-> Free([fixture EXCEPT ![f] = WithResult(@, e)])]
    /\ UNCHANGED <<fixture, totals, cases>>

\* The rest of it: totals, bracket, commit.
CommitMatchResult ==
    /\ desk # Idle
    /\ LET f == desk.match
           saved == [fixture EXCEPT ![f] = WithResult(@, desk.entry)]
       IN  /\ fixture' = SyncPlayoffFixtureTeams(saved, saved[f].here, desk.free)
           /\ RecomputePlayerCareerStats(saved, AffectedTeams(fixture[f], saved[f]))
    /\ desk' = Idle
    /\ UNCHANGED <<competition, cases, requests>>

\* Mutant: the check is missing.
HasAnything(x) == x.home # x.away

\* What admin_update_match asks of a match before it is completed.
HasScorecard(x) == x.result # None \/ x.card # Blank

\* A fixture with the fields of a change written over its own.
Changed(x, change) ==
    [field \in DOMAIN x |-> IF field \in DOMAIN change THEN change[field] ELSE x[field]]

\* admin_update_match: every field that is sent is set, whatever the state of
\* the fixture; the totals are read before the new status is flushed.  What the
\* dashboard never sends is left out: fixture_stage, sources, placeholders.
UpdateMatch(f, change) ==
    /\ AtDesk("update")
    /\ LET x == fixture[f]
           next == Changed(x, change)
           reopened == [next EXCEPT !.result = None, !.card = Blank, !.finalized = FALSE]
           Write(y, seen) == /\ fixture' = [fixture EXCEPT ![f] = y]
                             /\ RecomputePlayerCareerStats(seen, RowTeams(x))
       IN  /\ next.home # next.away
           /\ \/ /\ x.status = "completed" /\ next.status # "completed"
                 /\ Write(reopened, [fixture EXCEPT ![f] = reopened])
              \/ /\ next.status = "completed"
                 /\ x.status # "completed" => HasScorecard(x)
                 /\ Write([next EXCEPT !.finalized = TRUE], fixture)
              \/ /\ x.status # "completed" /\ next.status # "completed"
                 /\ fixture' = [fixture EXCEPT ![f] = next]
                 /\ UNCHANGED totals
    /\ UNCHANGED <<cases, desk>>

\* admin_bulk_cancel_matches; the case of a deleted match loses its match.
BulkCancelMatches(fs) ==
    /\ AtDesk("cancel")
    /\ fixture' = [f \in DOMAIN fixture \ fs |-> fixture[f]]
    /\ cases' = [f \in DOMAIN cases \ fs |-> cases[f]]
    /\ UNCHANGED <<totals, desk>>

\* decide_discipline_case, with the points of a team and, if there is one, an
\* override of the result.
DecideDisciplineCase(f, d) ==
    /\ AtDesk("discipline")
    /\ LET x == fixture[f]
           case == [status |-> d.status, team |-> TeamAt(x, d.side), points |-> -1]
           ruled == [outcome |-> d.override.outcome, winner |-> TeamAt(x, d.override.winner),
                     first |-> IF x.result = None THEN Nobody ELSE x.result.first,
                     extras |-> IF x.result = None THEN [side \in Sides |-> 0] ELSE x.result.extras,
                     excluded |-> d.override.excluded]
       IN  /\ fixture' = IF d.override = None THEN fixture
                         ELSE [fixture EXCEPT ![f].result = ruled, ![f].status = "completed"]
           /\ cases' = [g \in DOMAIN cases \cup {f} |-> IF g = f THEN case ELSE cases[g]]
    /\ UNCHANGED <<totals, desk>>

\* admin_recompute_player_stats
RecomputeAllPlayers ==
    /\ AtDesk("recompute")
    /\ RecomputePlayerCareerStats(fixture, Teams)
    /\ UNCHANGED <<fixture, cases, desk>>

-----------------------------------------------------------------------------
(* The scorers *)

\* A scoring session is opened, or the squad of the day saved.
StartScoring(f) ==
    /\ Request("score")
    /\ fixture[f].status = "scheduled" /\ ~fixture[f].begun /\ ~fixture[f].finalized
    /\ fixture' = [fixture EXCEPT ![f].begun = TRUE]
    /\ UNCHANGED <<totals, cases, desk>>

\* The deliveries of a match: the scorecard is rebuilt with each of them.  Once
\* a team was replaced, what was posted before names the one it replaced.
PlayMatch(f, e) ==
    /\ Request("play")
    /\ LET x == fixture[f]
           ledger == IF x.ledger # None /\ {x.ledger.home, x.ledger.away} # {x.home, x.away}
                     THEN x.ledger ELSE Ledger(x, e)
       IN  /\ x.begun /\ x.status \in {"scheduled", "live"} /\ ~x.finalized /\ Rebuildable(x)
           /\ fixture' = [fixture EXCEPT ![f].status = "live", ![f].ledger = ledger,
                                         ![f].card = Rebuilt(x, ledger)]
    /\ UNCHANGED <<totals, cases, desk>>

\* admin_complete_live_score, "completed"
FinalizeLiveMatchResult(f) ==
    /\ AtDesk("finalize")
    /\ fixture[f].begun /\ fixture[f].ledger # None /\ Rebuildable(fixture[f])
    /\ LET saved == [fixture EXCEPT ![f] = Finalized(@)]
       IN  /\ fixture' = SyncPlayoffFixtureTeams(saved, saved[f].here, Free(saved))
           /\ RecomputePlayerCareerStats(saved, AffectedTeams(fixture[f], saved[f]))
    /\ UNCHANGED <<cases, desk>>

\* admin_complete_live_score with another status: the scorecard is rebuilt from
\* the deliveries, the result stays; totals only when there is no delivery.
CallOff(f, status) ==
    /\ AtDesk("calloff")
    /\ fixture[f].begun /\ Rebuildable(fixture[f])
    /\ LET x == fixture[f]
           off == [x EXCEPT !.status = status, !.finalized = FALSE,
                            !.card = IF x.ledger = None THEN Blank ELSE Rebuilt(x, x.ledger)]
       IN  /\ fixture' = [fixture EXCEPT ![f] = off]
           /\ IF x.ledger = None
              THEN RecomputePlayerCareerStats([fixture EXCEPT ![f].card = Blank], RowTeams(x))
              ELSE UNCHANGED totals
    /\ UNCHANGED <<cases, desk>>

\* admin_reset_live_test_match; its session remains, released.
ResetLiveTestMatch(f) ==
    /\ AtDesk("reset")
    /\ fixture[f].begun
    /\ LET x == fixture[f]
           reset == [x EXCEPT !.status = "scheduled", !.finalized = FALSE, !.result = None,
                              !.card = Blank, !.ledger = None]
       IN  /\ fixture' = [fixture EXCEPT ![f] = reset]
           /\ RecomputePlayerCareerStats(fixture', RowTeams(x))
    /\ UNCHANGED <<cases, desk>>

Next ==
    \/ PublishDrafts
    \/ CreatePlayoffFixtures
    \/ CommitMatchResult
    \/ RecomputeAllPlayers
    \/ \E fs \in SUBSET (DOMAIN fixture \cap Worked) \ {{}} : BulkCancelMatches(fs)
    \/ \E f \in DOMAIN fixture \cap Worked :
        \/ \E e \in Entries : SetMatchResult(f, e)
        \/ \E change \in Changes : UpdateMatch(f, change)
        \/ \E d \in Decisions : DecideDisciplineCase(f, d)
        \/ StartScoring(f)
        \/ \E e \in LiveEntries : PlayMatch(f, e)
        \/ FinalizeLiveMatchResult(f)
        \/ \E status \in {"abandoned", "cancelled"} : CallOff(f, status)
        \/ ResetLiveTestMatch(f)

Spec == Init /\ [][Next]_vars

-----------------------------------------------------------------------------
(* Properties *)

\* Each variable has its type; a team is known for each side of a fixture.
TypeOK ==
    /\ competition \in Competitions
    /\ \A f \in DOMAIN fixture :
          /\ f \in Regular \cup Bracket
          /\ {fixture[f].home, fixture[f].away} \subseteq Teams
          /\ fixture[f].status \in Statuses
          /\ {fixture[f].heldHome, fixture[f].heldAway, fixture[f].published, fixture[f].here,
              fixture[f].finalized, fixture[f].begun} \subseteq BOOLEAN
          /\ fixture[f].result # None =>
                /\ fixture[f].result.outcome \in Outcomes
                /\ (fixture[f].result.outcome = "win") = (fixture[f].result.winner \in Teams)
          /\ fixture[f].status = "completed" => fixture[f].result # None \/ fixture[f].card # Blank
    /\ DOMAIN totals = Teams
    /\ DOMAIN cases \subseteq DOMAIN fixture
    /\ desk = Idle \/ desk.match \in DOMAIN fixture
    /\ requests \in 0 .. MaxRequests

\* "The points rules intentionally match the public long standings": the playoffs
\* are seeded in the order the public sees.  Points, bonus points and net run
\* rate of the two programs agree on every mixture of wins, ties, washed-out,
\* awarded, abandoned, unpublished and moved matches, with any teams in them.
SeedingFollowsPublicTable == SeasonStandingTeamIds(fixture) = SiteStandings(fixture)

\* "A fixture that has started must keep the teams on its scorecard", as the
\* reseeding of the bracket has it: deliveries name the two teams of the match.
ScorecardKeepsTeams ==
    \A f \in DOMAIN fixture : LET x == fixture[f] IN
        x.ledger # None => {x.ledger.home, x.ledger.away} = {x.home, x.away}

\* A saved or finalised result is in the bracket with the save: every untouched
\* playoff fixture of the season names the teams its sources give, and as
\* settled ones.
SavesResult ==
    \/ desk # Idle /\ desk' = Idle /\ fixture[desk.match].here
    \/ \E f \in DOMAIN fixture : fixture[f].here /\ FinalizeLiveMatchResult(f)
BracketFollowsResults ==
    [][SavesResult =>
          \A f \in DOMAIN fixture' \cap Bracket :
             LET x == fixture'[f]
                 home == TeamIdFromSource(fixture', Source[f].home)
                 away == TeamIdFromSource(fixture', Source[f].away)
             IN  x.here /\ Reseedable(x) =>
                    /\ home # Nobody => x.home = home /\ ~x.heldHome
                    /\ away # Nobody => x.away = away /\ ~x.heldAway]_vars

TotalsRight(fx, tot) == \A t \in Teams : tot[t] = Counted(fx, t)

\* The handlers that change what counts and leave the totals as they are.
Overlooks ==
    \/ \E f \in DOMAIN fixture \ DOMAIN fixture' : fixture[f].status = "completed"
    \/ \E f \in DOMAIN fixture \cap DOMAIN fixture' :
          /\ (fixture[f].status = "completed") # (fixture'[f].status = "completed")
          /\ \/ fixture'[f].status = "completed" /\ \E change \in Changes : UpdateMatch(f, change)
             \/ \E status \in {"abandoned", "cancelled"} : CallOff(f, status)
             \/ \E d \in Decisions : DecideDisciplineCase(f, d)

\* Career totals that are right stay right, with every handler but the four
\* that overlook them: the removal of fixtures, a status set to completed, a
\* finished match called off, a case that decides a match with a scorecard.
TotalsStayRight ==
    [][TotalsRight(fixture, totals) /\ ~Overlooks => TotalsRight(fixture', totals')]_vars

Settled(x) == ~x.heldHome /\ ~x.heldAway

\* "Home and away must differ": as long as only settled fixtures are played,
\* no settled fixture has one team on both sides.
HomeAndAwayDiffer ==
    (\A f \in DOMAIN fixture : fixture[f].result # None => Settled(fixture[f]))
        => \A f \in DOMAIN fixture : Settled(fixture[f]) => fixture[f].home # fixture[f].away
=============================================================================
