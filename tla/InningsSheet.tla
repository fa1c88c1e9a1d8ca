---------------------------- MODULE InningsSheet ----------------------------
(***************************************************************************)
(* The figures of a match, worked out from its deliveries four times:      *)
(*   - by the server for the live score (admin_routes.py, _live_score_state),*)
(*   - by the server for the official scorecard (_finalize_live_score),    *)
(*   - by the scoring screen ($matchId.tsx), from the server's summary and *)
(*     the deliveries that wait in the outbox,                             *)
(*   - by the public website (LiveScorePanel.tsx).                         *)
(* The deliveries are those the buttons and dialogs of the screen produce; *)
(* how they reach the server is ScoringOutbox's, who may bowl OverControl's.*)
(***************************************************************************)
EXTENDS Integers, Sequences, SequencesExt, FiniteSetsExt

CONSTANTS
    Sides,          \* the players of the side that bats first, and of the other
    BallsPerOver,   \* 6 in the code
    Overs,          \* overs allocated to an innings
    Wickets,        \* 10 in the code
    Keypad,         \* the deliveries a run records
    Rulings,        \* the umpire's calls a run has
    Targets,        \* revised targets a run sets (0: none)
    MaxBalls        \* deliveries: a bound of the model

NoPlayer == "nobody"

ASSUME SidesAssumption ==
    \A i \in 1 .. 2 : /\ Sides[i] \in Seq(Range(Sides[i]) \ {NoPlayer})
                      /\ Len(Sides[i]) >= 2 /\ IsInjective(Sides[i])

-----------------------------------------------------------------------------
(* What a button or a dialog puts into the body of a delivery; place,     *)
(* players and the umpire's call are filled in when it is recorded.        *)

Plain == [bat |-> 0, extras |-> 0, type |-> "none", legal |-> TRUE, dead |-> FALSE, ran |-> 0,
          boundary |-> "none", forBatting |-> 0, forFielding |-> 0, wicket |-> "none",
          over |-> 0, ball |-> 0, call |-> "none", striker |-> NoPlayer, other |-> NoPlayer,
          bowler |-> NoPlayer, out |-> NoPlayer, next |-> NoPlayer]

Dead == [Plain EXCEPT !.legal = FALSE, !.dead = TRUE]

ByeTypes == {"bye", "leg_bye", "no_ball_bye", "no_ball_leg_bye"}
Credits == {"none", "wide", "no_ball"} \cup ByeTypes

\* A delivery off which n runs are scored and credited so ("none": to the
\* striker), and ran are run.
Off(credit, n, ran) ==
    [Plain EXCEPT !.type   = credit,
                  !.ran    = ran,
                  !.legal  = credit \in {"none", "bye", "leg_bye"},
                  !.bat    = IF credit \in {"none", "no_ball"} THEN n ELSE 0,
                  !.extras = CASE credit = "none"               -> 0
                               [] credit = "no_ball"            -> 1
                               [] credit \in {"bye", "leg_bye"} -> n
                               [] OTHER                         -> n + 1]

\* Up to so many runs; byes that score none are refused (_validate_live_ball_event).
RunsScored(credit, most) == {n \in 0 .. most : credit \in ByeTypes => n > 0}

Hits ==
    {[Off("none", n, n) EXCEPT !.boundary = CASE n = 4 -> "four" [] n = 6 -> "six" [] OTHER -> "none"] :
        n \in 0 .. 7}

Extras ==
    {Off("no_ball", n, n) : n \in {0, 1, 2, 3, 4, 6}}
        \cup (UNION {{Off(c, n, n) : n \in RunsScored(c, 4)} : c \in {"wide"} \cup ByeTypes})
        \cup {Dead, [Dead EXCEPT !.type = "penalty", !.forBatting = 5],
              [Dead EXCEPT !.type = "penalty", !.forFielding = 5]}

\* recordShortRun: fewer runs are scored than were run.
ShortRuns == UNION {{Off(c, n, ran) : n \in RunsScored(c, ran - 1)} : c \in Credits, ran \in 1 .. 10}

RunOuts == UNION {{[Off(c, n, n) EXCEPT !.wicket = "run_out"] : n \in RunsScored(c, 6)} : c \in Credits}

\* dismissalOptionsForDelivery, and what submitWicket records without a delivery.
Dismissals ==
    {[Off("none", 0, 0) EXCEPT !.wicket = w] :
        w \in {"bowled", "caught", "caught_and_bowled", "lbw", "stumped", "hit_wicket",
               "hit_ball_twice", "obstructing_field"}}
    \cup {[Off("wide", 0, 0) EXCEPT !.wicket = w] : w \in {"stumped", "hit_wicket", "obstructing_field"}}
    \cup {[Off("no_ball", 0, 0) EXCEPT !.wicket = w] : w \in {"hit_ball_twice", "obstructing_field"}}
    \cup {[Dead EXCEPT !.wicket = w] :
              w \in {"retired_hurt", "retired_out", "retired_not_out", "timed_out",
                     "non_striker_left_early"}}

Delivery == Hits \cup Extras \cup ShortRuns \cup RunOuts \cup Dismissals

ASSUME KeypadAssumption ==
    /\ Keypad \subseteq Delivery
    /\ Rulings \subseteq {"end", "go"}
    /\ Targets \subseteq Nat
    /\ {BallsPerOver, Overs, Wickets} \subseteq Nat \ {0}
    /\ MaxBalls \in Nat

VARIABLES
    events,    \* the deliveries of each innings, in order
    innings,   \* the innings the screen scores
    pick,      \* the selected striker, non-striker and bowler
    revised    \* revised_target_runs, 0 for none

vars == <<events, innings, pick, revised>>

\* Over the deliveries of these rows at these places.
Total(rows, at, Of(_)) == SumFunctionOnSet([i \in DOMAIN rows |-> Of(rows[i])], at)
Number(rows, at, Test(_)) == Cardinality({i \in at : Test(rows[i])})
Names(rows, Of(_)) == {Of(rows[i]) : i \in DOMAIN rows}

InningsEvents(i) == events[i]
By(rows, b) == {i \in DOMAIN rows : rows[i].bowler = b}
Facing(rows, p) == {i \in DOMAIN rows : rows[i].striker = p}

-----------------------------------------------------------------------------
(* One delivery, in the reading of each program *)

\* OUT_DISMISSALS, COUNTED_WICKET_DISMISSALS; wicketCounts of the website.
CountsAsWicket(e) ==
    e.wicket \in {"bowled", "caught", "caught_and_bowled", "lbw", "run_out", "non_striker_left_early",
                  "stumped", "hit_wicket", "retired_out", "hit_ball_twice", "obstructing_field",
                  "timed_out"}
SiteWicketCounts(e) == e.wicket \notin {"none", "retired_hurt", "retired_not_out"}

CreditsBowler(e) ==
    e.wicket \in {"bowled", "caught", "caught_and_bowled", "lbw", "stumped", "hit_wicket"}
IsNoBall(e) == e.type \in {"no_ball", "no_ball_bye", "no_ball_leg_bye"}

\* The score of a delivery; eventTotalRuns of the website is the same.
EventRuns(e) == e.bat + e.extras + e.forBatting

\* eventRunsTotal of the screen adds the runs the fielding side is awarded.
EventRunsTotal(e) == EventRuns(e) + e.forFielding

\* _live_event_counts_as_batter_ball and countsAsBatterBall
BallFaced(e) == ~e.dead /\ (e.legal \/ IsNoBall(e))

\* Mutant: a wide is a delivery faced.
SiteBallFacedOrWide(e) == ~e.dead /\ (e.legal \/ e.type = "wide")

\* batterBallCounts of the website
SiteBallFaced(e) == ~e.dead /\ e.legal

\* _bowler_runs_for_live_event
ServerConceded(e) ==
    e.bat + CASE e.type \in {"wide", "no_ball"} -> e.extras
              [] e.type \in {"no_ball_bye", "no_ball_leg_bye"} -> 1
              [] OTHER -> 0

\* bowlerRunsConceded of the screen
ScreenConceded(e) ==
    e.bat + CASE e.type \in {"bye", "leg_bye"} -> 0
              [] e.type \in {"no_ball_bye", "no_ball_leg_bye"} -> IF e.extras > 1 THEN 1 ELSE e.extras
              [] OTHER -> e.extras

\* Mutant: byes off a no-ball are charged to the bowler.
SiteConcededByes(e) == IF e.dead \/ e.type \in {"bye", "leg_bye"} THEN 0 ELSE e.bat + e.extras

\* bowlerRunsConceded of the website
SiteConceded(e) ==
    IF e.dead \/ e.type \in {"bye", "leg_bye"} THEN 0
    ELSE CASE e.type \in {"no_ball_bye", "no_ball_leg_bye"} -> 1
           [] e.type = "wide" -> e.extras
           [] OTHER -> e.bat + e.extras

\* The bowler's runs in the table of the screen (liveInningsScorecard)
TableConceded(e) == e.bat + IF e.type \in {"bye", "leg_bye"} THEN 0 ELSE e.extras

-----------------------------------------------------------------------------
(* Overs *)

ClosesOver(e, balls) ==
    /\ ~e.dead
    /\ \/ e.call = "end"
       \/ e.legal /\ e.call = "none" /\ balls = BallsPerOver

After(place, e) ==
    LET balls == IF e.legal THEN place.balls + 1 ELSE place.balls
    IN  IF ClosesOver(e, balls) THEN [over |-> place.over + 1, balls |-> 0]
        ELSE [place EXCEPT !.balls = balls]

\* Where the innings stands after each delivery.
Places(rows) ==
    LET place[n \in 0 .. Len(rows)] ==
            IF n = 0 THEN [over |-> 0, balls |-> 0] ELSE After(place[n - 1], rows[n])
    IN  place

Position(rows) == Places(rows)[Len(rows)]

-----------------------------------------------------------------------------
(* Summaries: the server's, and the screen's on top of it *)

Summary(rows) ==
    [runs    |-> Total(rows, DOMAIN rows, EventRuns),
     wickets |-> Number(rows, DOMAIN rows, CountsAsWicket),
     legal   |-> Number(rows, DOMAIN rows, LAMBDA e : e.legal),
     overs   |-> Position(rows)]

\* Mutant: penalty runs of the fielding side are added to the score.
AppendWithPenalties(state, e) ==
    LET rows == Append(state.rows, e)
        old  == state.summary
    IN  [rows |-> rows,
         summary |-> [runs    |-> old.runs + EventRunsTotal(e),
                      wickets |-> old.wickets + IF CountsAsWicket(e) THEN 1 ELSE 0,
                      legal   |-> old.legal + IF e.legal THEN 1 ELSE 0,
                      overs   |-> Position(rows)]]

\* appendOptimisticBall, for the deliveries of one innings.
AppendOptimisticBall(state, e) ==
    LET rows == Append(state.rows, e)
        old  == state.summary
    IN  [rows |-> rows,
         summary |-> [runs    |-> old.runs + EventRuns(e),
                      wickets |-> old.wickets + IF CountsAsWicket(e) THEN 1 ELSE 0,
                      legal   |-> old.legal + IF e.legal THEN 1 ELSE 0,
                      overs   |-> Position(rows)]]

\* withQueuedBalls: the server has answered with the first n deliveries.
WithQueuedBalls(rows, n) ==
    LET shown[k \in n .. Len(rows)] ==
            IF k = n THEN [rows |-> SubSeq(rows, 1, n), summary |-> Summary(SubSeq(rows, 1, n))]
            ELSE AppendOptimisticBall(shown[k - 1], rows[k])
    IN  shown[Len(rows)]

-----------------------------------------------------------------------------
(* Extras *)

NoBallRest(e) == IF e.extras > 1 THEN e.extras - 1 ELSE 0

\* Mutant: all the extras of a no-ball run as byes are byes.
ByesWithNoBall(e) == IF e.type \in {"bye", "no_ball_bye"} THEN e.extras ELSE 0

Byes(e) == CASE e.type = "bye" -> e.extras [] e.type = "no_ball_bye" -> NoBallRest(e) [] OTHER -> 0
LegByes(e) ==
    CASE e.type = "leg_bye" -> e.extras [] e.type = "no_ball_leg_bye" -> NoBallRest(e) [] OTHER -> 0
Wides(e) == IF e.type = "wide" THEN e.extras ELSE 0

\* A no-ball of the official scorecard has all its runs but byes.
OfficialNoBalls(e) == IF e.type = "no_ball" THEN e.extras ELSE IF IsNoBall(e) THEN 1 ELSE 0

\* home_extras_*, away_extras_* of the result
OfficialExtras(rows) ==
    LET at == DOMAIN rows
    IN  [wides   |-> Total(rows, at, Wides),
         noBalls |-> Total(rows, at, OfficialNoBalls),
         byes    |-> Total(rows, at, Byes),
         legByes |-> Total(rows, at, LegByes)]

\* liveExtrasBreakdown, and reviewExtrasText of the review panel
ScreenExtras(rows) ==
    LET at == DOMAIN rows
    IN  [wides     |-> Total(rows, at, Wides),
         noBalls   |-> Number(rows, at, IsNoBall),
         byes      |-> Total(rows, at, Byes),
         legByes   |-> Total(rows, at, LegByes),
         penalties |-> Total(rows, at, LAMBDA e : e.forBatting + e.forFielding),
         total     |-> Total(rows, at, LAMBDA e : e.extras + e.forBatting + e.forFielding)]

\* inningsExtrasSummary of the website
SiteExtras(rows) ==
    LET at        == DOMAIN rows
        wides     == Total(rows, at, Wides)
        noBalls   == Number(rows, at, IsNoBall)
        byes      == Total(rows, at, Byes)
        legByes   == Total(rows, at, LegByes)
        penalties == Total(rows, at, LAMBDA e : e.forBatting)
    IN  [wides |-> wides, noBalls |-> noBalls, byes |-> byes, legByes |-> legByes,
         penalties |-> penalties, total |-> wides + noBalls + byes + legByes + penalties]

-----------------------------------------------------------------------------
(* Batters and bowlers *)

\* The rows _finalize_live_score writes: dead balls are left out.
OfficialBatter(rows, p) ==
    LET own == {i \in Facing(rows, p) : ~rows[i].dead}
    IN  [runs  |-> Total(rows, own, LAMBDA e : e.bat),
         balls |-> Number(rows, own, BallFaced),
         fours |-> Number(rows, own, LAMBDA e : e.boundary = "four" /\ e.bat = 4)]

\* liveInningsScorecard
TableBatter(rows, p) ==
    LET own == Facing(rows, p)
    IN  [runs  |-> Total(rows, own, LAMBDA e : e.bat),
         balls |-> Number(rows, own, BallFaced),
         fours |-> Number(rows, own, LAMBDA e : e.boundary = "four" \/ e.bat = 4)]

\* batterStats of computeMiniDashboard
SiteBatter(rows, p) ==
    LET own == Facing(rows, p)
    IN  [runs  |-> Total(rows, own, LAMBDA e : e.bat),
         balls |-> Number(rows, own, SiteBallFaced),
         fours |-> Number(rows, own, LAMBDA e : e.bat = 4)]

Counts(e) == e.legal /\ ~e.dead
InOver(rows, own, o) == {i \in own : rows[i].over = o}

\* The rows _finalize_live_score writes: dead balls are left out, and an over of
\* more deliveries can be a maiden.
OfficialBowler(rows, b) ==
    LET own == {i \in By(rows, b) : ~rows[i].dead}
        IsMaiden(o) == /\ Number(rows, InOver(rows, own, o), LAMBDA e : e.legal) >= BallsPerOver
                       /\ Total(rows, InOver(rows, own, o), ServerConceded) = 0
    IN  [balls   |-> Number(rows, own, LAMBDA e : e.legal),
         runs    |-> Total(rows, own, ServerConceded),
         wickets |-> Number(rows, own, CreditsBowler),
         maidens |-> Cardinality({o \in {rows[i].over : i \in own} : IsMaiden(o)})]

\* figuresForBowler of the end of the over, and liveBowlerMaidens
ScreenBowler(rows, b) ==
    LET own == By(rows, b)
        IsMaiden(o) == /\ Number(rows, InOver(rows, own, o), Counts) = BallsPerOver
                       /\ Total(rows, InOver(rows, own, o), ScreenConceded) = 0
    IN  [balls   |-> Number(rows, own, Counts),
         runs    |-> Total(rows, own, ScreenConceded),
         wickets |-> Number(rows, own, CreditsBowler),
         maidens |-> Cardinality({o \in {rows[i].over : i \in own} : IsMaiden(o)})]

\* bowlerStats of computeMiniDashboard: a maiden is counted at the last ball of
\* an over, when nothing was conceded up to it, whatever follows.
SiteBowler(rows, b) ==
    LET own == By(rows, b)
        Before(i) == InOver(rows, own, rows[i].over) \cap 1 .. i
    IN  [balls   |-> Number(rows, own, Counts),
         runs    |-> Total(rows, own, SiteConceded),
         wickets |-> Number(rows, own, CreditsBowler),
         maidens |-> Cardinality({i \in own : /\ Counts(rows[i])
                                              /\ Number(rows, Before(i), Counts) = BallsPerOver
                                              /\ Total(rows, Before(i), SiteConceded) = 0})]

-----------------------------------------------------------------------------
(* Partnerships, falls of wickets, overs and phases *)

\* livePartnership: what was scored since the last wicket that counts.
LivePartnership(rows) ==
    LET wickets == {i \in DOMAIN rows : CountsAsWicket(rows[i])}
        since   == {i \in DOMAIN rows : \A w \in wickets : w < i}
    IN  [runs  |-> Total(rows, since, EventRunsTotal),
         balls |-> Number(rows, since, Counts)]

\* liveFallOfWickets and inningsFallOfWickets: each wicket with its number.
FallOfWickets(rows) ==
    LET wickets == {i \in DOMAIN rows : CountsAsWicket(rows[i])}
    IN  [i \in wickets |->
            [wicket |-> Cardinality({w \in wickets : w <= i}),
             runs |-> Total(rows, 1 .. i, EventRuns), player |-> rows[i].out,
             over |-> rows[i].over, ball |-> rows[i].ball]]

NoPair == [pair |-> {}, runs |-> 0, balls |-> 0]

\* Mutant: the delivery on which a batter is out counts for the next pair.
PartnershipBeforeWicket(acc, e) ==
    LET kept == acc.open /\ {e.striker, e.other} = acc.now.pair /\ ~SiteWicketCounts(e)
        done == IF acc.open /\ ~kept THEN Append(acc.done, acc.now) ELSE acc.done
        from == IF kept THEN acc.now ELSE [NoPair EXCEPT !.pair = {e.striker, e.other}]
    IN  [done |-> done, open |-> TRUE,
         now  |-> [from EXCEPT !.runs = @ + EventRuns(e),
                               !.balls = @ + IF Counts(e) THEN 1 ELSE 0]]

\* The partnerships of computeMiniDashboard: one ends when a wicket falls and
\* when another pair is batting.
Partnership(acc, e) ==
    LET kept == acc.open /\ {e.striker, e.other} \subseteq acc.now.pair
        done == IF acc.open /\ ~kept THEN Append(acc.done, acc.now) ELSE acc.done
        from == IF kept THEN acc.now ELSE [NoPair EXCEPT !.pair = {e.striker, e.other}]
        now  == [from EXCEPT !.runs = @ + EventRuns(e),
                             !.balls = @ + IF Counts(e) THEN 1 ELSE 0]
    IN  IF SiteWicketCounts(e) THEN [done |-> Append(done, now), open |-> FALSE, now |-> NoPair]
        ELSE [done |-> done, open |-> TRUE, now |-> now]

PartnershipFold(rows) ==
    LET acc[n \in 0 .. Len(rows)] ==
            IF n = 0 THEN [done |-> <<>>, open |-> FALSE, now |-> NoPair]
            ELSE Partnership(acc[n - 1], rows[n])
    IN  acc[Len(rows)]

Partnerships(rows) ==
    LET acc == PartnershipFold(rows)
    IN  IF acc.open THEN Append(acc.done, acc.now) ELSE acc.done

\* overStatPoints: the score so far at the end of each over of the commentary.
OverStatPoints(rows) ==
    LET In(o) == {i \in DOMAIN rows : rows[i].over <= o}
    IN  [o \in Names(rows, LAMBDA e : e.over) |->
            [score   |-> Total(rows, In(o), EventRuns),
             wickets |-> Number(rows, In(o), SiteWicketCounts),
             legal   |-> Number(rows, In(o), Counts)]]

\* powerplayOversForMatch
PowerplayOvers(overs) ==
    IF overs > 20 THEN 10 ELSE Max({1, Min({6, (3 * overs + 9) \div 10})})

\* liveScoringBreakdown: a delivery is in the powerplay while fewer legal ones
\* than its limit were bowled before it.
Breakdown(rows) ==
    LET inside == {i \in DOMAIN rows :
                      Number(rows, 1 .. (i - 1), Counts) < PowerplayOvers(Overs) * BallsPerOver}
        Phase(at) == [runs    |-> Total(rows, at, EventRuns),
                      wickets |-> Number(rows, at, SiteWicketCounts)]
    IN  [inside |-> Phase(inside), outside |-> Phase(DOMAIN rows \ inside)]

-----------------------------------------------------------------------------
(* Who faces next *)

\* Mutant: the run a dismissed pair completed is forgotten.
SelectionWithoutRun(e) ==
    LET a == IF e.out = e.striker /\ e.next # NoPlayer THEN e.next ELSE e.striker
        b == IF e.out = e.other /\ e.next # NoPlayer THEN e.next ELSE e.other
        ends == ~e.dead /\ (e.call = "end" \/ (e.legal /\ e.call # "go" /\ e.ball = BallsPerOver))
        swap == (e.wicket = "none" /\ e.ran % 2 = 1) # ends
    IN  IF swap THEN [striker |-> b, other |-> a] ELSE [striker |-> a, other |-> b]

\* selectionAfterEvent and applyPostBallState of the screen
SelectionAfter(e) ==
    LET a == IF e.out = e.striker /\ e.next # NoPlayer THEN e.next ELSE e.striker
        b == IF e.out = e.other /\ e.next # NoPlayer THEN e.next ELSE e.other
        ends == ~e.dead /\ (e.call = "end" \/ (e.legal /\ e.call # "go" /\ e.ball = BallsPerOver))
        swap == (e.ran % 2 = 1) # ends
    IN  IF swap THEN [striker |-> b, other |-> a] ELSE [striker |-> a, other |-> b]

\* postBallActiveBatterIds of the website: the over ends with the sixth legal
\* ball of six, and a batter who retired hurt is not replaced.
SiteActiveBatters(rows) ==
    LET e == Last(rows)
        In(p) == IF SiteWicketCounts(e) /\ e.out = p THEN e.next ELSE p
        legal == Number(rows, DOMAIN rows, Counts)
        ends == Counts(e) /\ legal > 0 /\ legal % BallsPerOver = 0
        swap == (e.ran % 2 = 1) # ends /\ In(e.striker) # NoPlayer /\ In(e.other) # NoPlayer
    IN  IF swap THEN [striker |-> In(e.other), other |-> In(e.striker)]
        ELSE [striker |-> In(e.striker), other |-> In(e.other)]

-----------------------------------------------------------------------------
(* The result *)

\* Mutant: the side that bats second wins with as many runs as the target
\* leaves it one short of.
OfficialOutcomeLevel(first, second, target) ==
    LET needed == IF target # 0 THEN target ELSE first.runs + 1
    IN  CASE second.runs >= needed - 1 -> [side |-> 2, by |-> Max({0, Wickets - second.wickets})]
          [] OTHER -> [side |-> 1, by |-> needed - 1 - second.runs]

\* The outcome _finalize_live_score saves, and reviewResultPreview before it.
OfficialOutcome(first, second, target) ==
    LET needed == IF target # 0 THEN target ELSE first.runs + 1
    IN  CASE second.runs >= needed     -> [side |-> 2, by |-> Max({0, Wickets - second.wickets})]
          [] second.runs < needed - 1  -> [side |-> 1, by |-> needed - 1 - second.runs]
          [] OTHER                     -> [side |-> 0, by |-> 0]

\* winProbabilityTimeline, where the chase is decided: 0.99 and 0.01.
ChaseShown(first, second, target) ==
    LET needed   == IF target # 0 THEN target ELSE first.runs + 1
        required == Max({0, needed - second.runs})
    IN  CASE required = 0 -> "won"
          [] required # 0 /\ (\/ second.legal >= Overs * BallsPerOver
                              \/ second.wickets >= Wickets) -> "lost"
          [] OTHER -> "open"

-----------------------------------------------------------------------------
(* Scoring *)

Batting == Sides[innings]
Bowling == Sides[3 - innings]
Ours == InningsEvents(innings)
Place == Position(Ours)

\* The players selected when an innings starts.
Openers(i) == [striker |-> Sides[i][1], other |-> Sides[i][2], bowler |-> Sides[3 - i][1]]

Init ==
    /\ events = << <<>>, <<>> >>
    /\ innings = 1
    /\ pick = Openers(1)
    /\ revised = 0

\* firstInningsOversReached, chaseTargetReached
InningsOver(i) ==
    LET s == Summary(InningsEvents(i))
        needed == IF revised # 0 THEN revised ELSE Summary(InningsEvents(1)).runs + 1
    IN  \/ i = 1 /\ (s.overs.over >= Overs \/ s.legal >= Overs * BallsPerOver)
        \/ i = 2 /\ s.runs >= needed /\ InningsEvents(2) # <<>>

\* dismissedBatterIds of the screen, dismissed_player_ids of the server
OutBatters == {Ours[i].out : i \in {k \in DOMAIN Ours : CountsAsWicket(Ours[k])}}

\* Mutant: the batters at the crease can come in again.
NotOut(out) == (Range(Batting) \ OutBatters) \ {out}

\* availableNewBatters
NewBatters(out) == (Range(Batting) \ OutBatters) \ {pick.striker, pick.other, out}

\* eligibleWicketPlayers: any batter who is not out can be dismissed, but only
\* the non-striker for leaving early.
Outs(d) ==
    CASE d.wicket = "none"                   -> {NoPlayer}
      [] d.wicket = "non_striker_left_early" -> {pick.other}
      [] OTHER                               -> Range(Batting) \ OutBatters

\* inningsEnded, wicketWillEndInnings: ten wickets have fallen with this one.
AllOut(d) == CountsAsWicket(d) /\ Summary(Ours).wickets >= Wickets - 1

\* replacementBatterRequired: whoever comes in is chosen in the dialog, unless
\* the wicket ends the innings or nobody is left.
Replacements(d, out) ==
    IF d.wicket # "none" /\ NewBatters(out) # {} /\ ~AllOut(d) THEN NewBatters(out) ELSE {NoPlayer}

\* applyPostBallState: the batters the delivery leaves at the crease, and a
\* bowler, a new one for a new over.
Select(e) ==
    \E b \in IF After(Place, e).over # Place.over THEN Range(Bowling) \ {pick.bowler} ELSE {pick.bowler} :
        pick' = [striker |-> SelectionAfter(e).striker, other |-> SelectionAfter(e).other, bowler |-> b]

\* submitBall and submitWicket, the server's check of the players
\* (_assert_live_players_not_dismissed) and applyAcceptedBallUi: the wicket that
\* ends the first innings starts the second (moveToSecondInnings); the one that
\* ends the second leaves the selection alone until the screen is loaded again.
Record(d, call) ==
    /\ Len(events[1]) + Len(events[2]) < MaxBalls
    /\ ~InningsOver(innings)
    /\ call # "none" => d.legal
    /\ \E out \in Outs(d) : \E next \in Replacements(d, out) :
          LET e == [d EXCEPT !.over = Place.over, !.ball = Place.balls + 1,
                             !.striker = pick.striker, !.other = pick.other, !.bowler = pick.bowler,
                             !.call = call, !.out = out, !.next = next]
          IN  /\ {pick.striker, pick.other, out, next} \cap OutBatters = {}
              /\ events' = [events EXCEPT ![innings] = Append(@, e)]
              /\ \/ ~(AllOut(d) /\ innings = 1) /\ Select(e) /\ UNCHANGED innings
                 \/ AllOut(d) /\ innings = 1 /\ innings' = 2 /\ pick' = Openers(2)
                 \/ AllOut(d) /\ innings = 2 /\ UNCHANGED <<innings, pick>>
    /\ UNCHANGED revised

\* moveToSecondInnings, then the players are chosen.
MoveToSecondInnings ==
    /\ innings = 1
    /\ Ours # <<>>
    /\ innings' = 2
    /\ pick' = Openers(2)
    /\ UNCHANGED <<events, revised>>

\* The target is revised for rain.
Revise(target) ==
    /\ innings = 2
    /\ target # revised
    /\ revised' = target
    /\ UNCHANGED <<events, innings, pick>>

Next ==
    \/ \E d \in Keypad, call \in Rulings \cup {"none"} : Record(d, call)
    \/ MoveToSecondInnings
    \/ \E target \in Targets : Revise(target)

Spec == Init /\ [][Next]_vars

-----------------------------------------------------------------------------
(* Properties, of both innings: the tenth wicket starts the second at once *)

BowlersOf(rows) == Names(rows, LAMBDA e : e.bowler)
BattersOf(rows) == Names(rows, LAMBDA e : e.striker)
Normal(rows) == \A i \in DOMAIN rows : rows[i].call = "none"
RunOffNoBall(e) == IF IsNoBall(e) THEN Byes(e) + LegByes(e) ELSE 0
Penalised(rows) == Total(rows, DOMAIN rows, LAMBDA e : e.forFielding)

TypeOK ==
    /\ Len(events[1]) + Len(events[2]) <= MaxBalls
    /\ innings \in {1, 2}
    /\ pick.striker # pick.other
    /\ {pick.striker, pick.other} \subseteq Range(Batting)
    /\ pick.bowler \in Range(Bowling)
    /\ revised \in Targets \cup {0}

\* However many deliveries wait in the outbox, the screen shows the score the
\* server will show when it has them all (appendOptimisticBall).
ScoreShown ==
    \A i \in 1 .. 2 : \A n \in 0 .. Len(InningsEvents(i)) :
        WithQueuedBalls(InningsEvents(i), n).summary = Summary(InningsEvents(i))

\* A delivery on which a batter retired who is not out.
Retired(e) == e.wicket \in {"retired_hurt", "retired_not_out"}

RunsAddUp(rows) ==
    LET runs == Summary(rows).runs
        off  == OfficialExtras(rows)
        Batted(Row(_, _)) == SumFunction([p \in BattersOf(rows) |-> Row(rows, p).runs])
    IN  /\ runs = Batted(OfficialBatter) + off.wides + off.noBalls + off.byes + off.legByes
                    + Total(rows, DOMAIN rows, LAMBDA e : e.forBatting)
        /\ runs = Batted(TableBatter) + ScreenExtras(rows).total - Penalised(rows)
        /\ runs = Batted(SiteBatter) + SiteExtras(rows).total
        /\ \A x \in {"wides", "noBalls", "byes", "legByes"} :
              {ScreenExtras(rows)[x], SiteExtras(rows)[x]} = {off[x]}

\* The score is the batters' runs, the extras and the penalty runs: on the
\* official scorecard, whose extras are kept without penalties, on the screen
\* and on the website.
RunsAccounted == \A i \in 1 .. 2 : RunsAddUp(InningsEvents(i))

BowlersAddUp(rows) ==
    LET Same(r, s) == \A f \in {"balls", "runs", "wickets"} : r[f] = s[f]
    IN  /\ \A b \in BowlersOf(rows) :
              /\ Same(OfficialBowler(rows, b), ScreenBowler(rows, b))
              /\ Same(OfficialBowler(rows, b), SiteBowler(rows, b))
              /\ Normal(rows) => Cardinality({F.maidens : F \in {OfficialBowler(rows, b),
                                     ScreenBowler(rows, b), SiteBowler(rows, b)}}) = 1
              /\ Total(rows, By(rows, b), TableConceded)
                   = OfficialBowler(rows, b).runs + Total(rows, By(rows, b), RunOffNoBall)
        /\ Summary(rows).runs
             = SumFunction([b \in BowlersOf(rows) |-> OfficialBowler(rows, b).runs])
                 + OfficialExtras(rows).byes + OfficialExtras(rows).legByes
                 + Total(rows, DOMAIN rows, LAMBDA e : e.forBatting)

\* A bowler has the same balls, runs and wickets on the official scorecard, in
\* the summary of an over and on the website, the same maidens when the umpire
\* ended no over, and what no bowler is charged with is byes and penalties; the
\* table of bowlers on the screen adds the byes and leg byes that ran off no-balls.
BowlersAccounted == \A i \in 1 .. 2 : BowlersAddUp(InningsEvents(i))

BatterAgrees(rows, p) ==
    LET own == Facing(rows, p)
        off == OfficialBatter(rows, p)
    IN  /\ {TableBatter(rows, p).runs, SiteBatter(rows, p).runs} = {off.runs}
        /\ TableBatter(rows, p).balls = off.balls
        /\ SiteBatter(rows, p).balls = off.balls - Number(rows, own, IsNoBall)
        /\ TableBatter(rows, p).fours = SiteBatter(rows, p).fours
        /\ TableBatter(rows, p).fours
             = off.fours + Number(rows, own, LAMBDA e : e.bat = 4 /\ e.boundary = "none")

\* The batters agree on runs; the website leaves out the no-balls they faced, and
\* the official scorecard the fours no button for a four recorded: hit off a
\* no-ball, at a run out, or what a short run left of five.
BattersAgree ==
    \A i \in 1 .. 2 : \A p \in BattersOf(InningsEvents(i)) : BatterAgrees(InningsEvents(i), p)

\* "No-balls do not advance the over, but the striker has faced the delivery.
\* Wides remain the only delivery type excluded from balls faced."
\* (admin_routes.py:5753-5757), on the website as well.
BallsFacedEverywhere ==
    \A i \in 1 .. 2 : \A p \in BattersOf(InningsEvents(i)) :
        SiteBatter(InningsEvents(i), p).balls = OfficialBatter(InningsEvents(i), p).balls

PartnershipsAddUpTo(rows) ==
    LET pairs == Partnerships(rows)
        falls == FallOfWickets(rows)
        sum   == Summary(rows)
        overs == OverStatPoints(rows)
        open  == PartnershipFold(rows)
        phase == Breakdown(rows)
    IN  /\ Total(pairs, DOMAIN pairs, LAMBDA p : p.runs) = sum.runs
        /\ Total(pairs, DOMAIN pairs, LAMBDA p : p.balls) = sum.legal
        /\ (\A k \in DOMAIN rows : ~Retired(rows[k])) =>
              /\ Len(open.done) = Cardinality(DOMAIN falls)
              /\ \A k \in DOMAIN falls :
                    falls[k].runs = Total(open.done, 1 .. falls[k].wicket, LAMBDA p : p.runs)
              /\ LivePartnership(rows).balls = open.now.balls
              /\ LivePartnership(rows).runs - open.now.runs \in 0 .. Penalised(rows)
        /\ \A o \in DOMAIN overs : (\A p \in DOMAIN overs : p <= o) =>
              /\ overs[o].score = sum.runs
              /\ overs[o].wickets = sum.wickets
              /\ overs[o].legal = sum.legal
        /\ phase.inside.runs + phase.outside.runs = sum.runs
        /\ phase.inside.wickets + phase.outside.wickets = sum.wickets

\* The partnerships of the website make up the score, their ends are the falls of
\* wickets, and the last is the one the screen shows but for the penalty runs of
\* the fielding side, as long as nobody retired; the last over of the chart
\* and the two phases of the innings make up the score as well.
PartnershipsAccounted == \A i \in 1 .. 2 : PartnershipsAddUpTo(InningsEvents(i))

\* The website shows the batters the screen has selected for the next delivery,
\* while the umpire changed no over, nobody retired unbeaten and the side is not
\* all out.
BattersShown ==
    Ours # <<>> /\ Normal(Ours) /\ ~Retired(Last(Ours)) /\ Summary(Ours).wickets < Wickets
        => SiteActiveBatters(Ours) = [striker |-> pick.striker, other |-> pick.other]

\* When the side that bats second has won, the website's win chart says so and the
\* result is theirs; when the chart gives the chase up, the result is not theirs.
ResultShown ==
    LET first  == Summary(InningsEvents(1))
        second == Summary(InningsEvents(2))
        result == OfficialOutcome(first, second, revised)
        shown  == ChaseShown(first, second, revised)
    IN  InningsEvents(2) # <<>> =>
            /\ shown = "won" <=> result.side = 2
            /\ shown = "lost" => result.side # 2
            /\ result.side = 1 => result.by > 0
            /\ result.side = 2 /\ ~(second.wickets >= Wickets) => result.by > 0
=============================================================================
