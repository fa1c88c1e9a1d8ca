-------------------------- MODULE SeasonDeskProofs --------------------------
(***************************************************************************)
(* What holds of a season for every choice of teams, fixtures, results and *)
(* handlers: career totals that are right stay right, a save leaves a      *)
(* bracket that its results decide, the playoffs are seeded in the order   *)
(* of the public table, and every fixture is one between two teams of the  *)
(* season.                                                                 *)
(***************************************************************************)
EXTENDS SeasonDesk, NatLemmas

Fields == {"home", "away", "heldHome", "heldAway", "status", "here", "published", "result",
           "card", "ledger", "finalized", "begun"}

\* A record with these fields, whatever they hold.
IsRow(x) == x = [field \in Fields |-> x[field]]

\* Fixtures are a function of their names, each with the fields of a row.
IsSeason(fx) ==
    /\ fx = [f \in DOMAIN fx |-> fx[f]]
    /\ DOMAIN fx \subseteq Regular \cup Bracket
    /\ \A f \in DOMAIN fx : IsRow(fx[f])

\* The fixtures that a save may reseed have not been completed since it looked.
SeasonInv ==
    /\ IsSeason(fixture)
    /\ desk # Idle =>
          /\ desk.match \in DOMAIN fixture
          /\ desk.match \notin desk.free
          /\ \A f \in DOMAIN fixture \cap desk.free : fixture[f].status # "completed"

-----------------------------------------------------------------------------
(* What the operators of the model do to one fixture *)

LEMMA WithResultRow ==
    ASSUME NEW x, IsRow(x), NEW e
    PROVE  LET y == WithResult(x, e)
           IN  /\ IsRow(y)
               /\ y.home = x.home /\ y.away = x.away /\ y.status = "completed"
               /\ y.here = x.here
BY DEF WithResult, IsRow, Fields

LEMMA FinalizedRow ==
    ASSUME NEW x, IsRow(x)
    PROVE  /\ IsRow(Finalized(x))
           /\ Finalized(x).home = x.home /\ Finalized(x).away = x.away
           /\ Finalized(x).status = "completed" /\ Finalized(x).here = x.here
BY DEF Finalized, IsRow, Fields

LEMMA ChangedSeason ==
    ASSUME NEW fx, IsSeason(fx), NEW f \in DOMAIN fx, NEW row, IsRow(row)
    PROVE  LET gx == [fx EXCEPT ![f] = row]
           IN  /\ IsSeason(gx)
               /\ DOMAIN gx = DOMAIN fx
               /\ gx[f] = row
               /\ \A g \in DOMAIN fx \ {f} : gx[g] = fx[g]
BY DEF IsSeason

\* Reseeding changes the teams of the free fixtures of the bracket only.
LEMMA SyncedBracket ==
    ASSUME NEW fx, IsSeason(fx), NEW here, NEW free
    PROVE  LET gx == SyncPlayoffFixtureTeams(fx, here, free)
               Home(f) == TeamIdFromSource(fx, Source[f].home)
               Away(f) == TeamIdFromSource(fx, Source[f].away)
           IN  /\ \A f \in DOMAIN fx : f \in Regular \/ ~here \/ ~fx[f].here => gx[f] = fx[f]
               /\ \A f \in DOMAIN fx : ~(f \in Regular \/ ~here \/ ~fx[f].here) =>
                     gx[f] = Seeded(fx[f], Home(f), Away(f), f \in free)
BY DEF SyncPlayoffFixtureTeams

LEMMA SyncedSeason ==
    ASSUME NEW fx, IsSeason(fx), NEW here, NEW free
    PROVE  LET gx == SyncPlayoffFixtureTeams(fx, here, free)
           IN  /\ IsSeason(gx)
               /\ DOMAIN gx = DOMAIN fx
               /\ \A f \in DOMAIN fx :
                     /\ gx[f].status = fx[f].status /\ gx[f].card = fx[f].card
                     /\ gx[f].here = fx[f].here
                     /\ f \notin free \/ f \in Regular =>
                           gx[f].home = fx[f].home /\ gx[f].away = fx[f].away
<1> DEFINE gx == SyncPlayoffFixtureTeams(fx, here, free)
           Home(f) == TeamIdFromSource(fx, Source[f].home)
           Away(f) == TeamIdFromSource(fx, Source[f].away)
           Left(f) == f \in Regular \/ ~here \/ ~fx[f].here
<1>1. /\ \A f \in DOMAIN fx : Left(f) => gx[f] = fx[f]
      /\ \A f \in DOMAIN fx : ~Left(f) => gx[f] = Seeded(fx[f], Home(f), Away(f), f \in free)
  BY SyncedBracket
<1>2. DOMAIN gx = DOMAIN fx /\ gx = [f \in DOMAIN gx |-> gx[f]]
  BY DEF SyncPlayoffFixtureTeams
<1> HIDE DEF gx, Home, Away
<1>3. ASSUME NEW f \in DOMAIN fx
      PROVE  /\ IsRow(gx[f])
             /\ gx[f].status = fx[f].status /\ gx[f].card = fx[f].card
             /\ gx[f].here = fx[f].here
             /\ f \notin free \/ f \in Regular =>
                   gx[f].home = fx[f].home /\ gx[f].away = fx[f].away
  <2>1. IsRow(fx[f])
    BY DEF IsSeason
  <2>2. CASE Left(f)
    BY <1>1, <2>1, <2>2
  <2>3. CASE ~Left(f)
    <3>1. gx[f] = Seeded(fx[f], Home(f), Away(f), f \in free) /\ f \notin Regular
      BY <1>1, <2>3
    <3> HIDE DEF Left
    <3>2. QED
      BY <2>1, <3>1 DEF Seeded, IsRow, Fields
  <2>4. QED
    BY <2>2, <2>3
<1>4. QED
  BY <1>2, <1>3 DEF IsSeason, gx

-----------------------------------------------------------------------------
(* Career totals *)

CountsFor(fx, f, t) == f \in DOMAIN fx /\ fx[f].status = "completed" /\ t \in RowTeams(fx[f])

\* Totals depend on the completed fixtures and their scorecards only.
LEMMA CountedSame ==
    ASSUME NEW fx, NEW gx, NEW t,
           \A f \in DOMAIN fx \cup DOMAIN gx :
               /\ CountsFor(fx, f, t) <=> CountsFor(gx, f, t)
               /\ CountsFor(fx, f, t) => gx[f].card = fx[f].card
    PROVE  Counted(gx, t) = Counted(fx, t)
BY DEF Counted, CountsFor

LEMMA RowTeamsSame ==
    ASSUME NEW x, NEW y, y.card = x.card
    PROVE  RowTeams(y) = RowTeams(x)
BY DEF RowTeams

\* Reseeding changes nobody's totals: rows keep their team.
LEMMA SyncedCounted ==
    ASSUME NEW fx, IsSeason(fx), NEW here, NEW free, NEW t
    PROVE  Counted(SyncPlayoffFixtureTeams(fx, here, free), t) = Counted(fx, t)
<1> DEFINE gx == SyncPlayoffFixtureTeams(fx, here, free)
<1>1. /\ DOMAIN gx = DOMAIN fx
      /\ \A f \in DOMAIN fx : gx[f].status = fx[f].status /\ gx[f].card = fx[f].card
  BY SyncedSeason
<1> HIDE DEF gx
<1>2. \A f \in DOMAIN fx : RowTeams(gx[f]) = RowTeams(fx[f])
  BY <1>1, RowTeamsSame
<1>3. Counted(gx, t) = Counted(fx, t)
  BY <1>1, <1>2, CountedSame DEF CountsFor
<1>4. QED
  BY <1>3 DEF gx

\* A change of one fixture that counts neither before nor after.
LEMMA ChangedCounted ==
    ASSUME NEW fx, IsSeason(fx), NEW f \in DOMAIN fx, NEW row, IsRow(row), NEW t,
           fx[f].status = "completed" => t \notin RowTeams(fx[f]),
           row.status = "completed" => t \notin RowTeams(row)
    PROVE  Counted([fx EXCEPT ![f] = row], t) = Counted(fx, t)
<1> DEFINE gx == [fx EXCEPT ![f] = row]
<1>1. /\ DOMAIN gx = DOMAIN fx /\ gx[f] = row
      /\ \A g \in DOMAIN fx \ {f} : gx[g] = fx[g]
  BY ChangedSeason
<1> HIDE DEF gx
<1>2. \A g \in DOMAIN fx : /\ CountsFor(fx, g, t) <=> CountsFor(gx, g, t)
                           /\ CountsFor(fx, g, t) => gx[g].card = fx[g].card
  BY <1>1, RowTeamsSame DEF CountsFor
<1>3. Counted(gx, t) = Counted(fx, t)
  BY <1>1, <1>2, CountedSame
<1>4. QED
  BY <1>3 DEF gx

-----------------------------------------------------------------------------
(* Every step keeps the shape of the season *)

LEMMA NewRow ==
    ASSUME NEW home, NEW away, NEW published
    PROVE  /\ IsRow(New(home, away, published))
           /\ New(home, away, published).status = "scheduled"
BY DEF New, IsRow, Fields

LEMMA InitSeason == Init => SeasonInv
<1> SUFFICES ASSUME Init PROVE SeasonInv
  OBVIOUS
<1>1. PICK start \in [Regular -> Played] :
          fixture = [f \in Regular |->
              IF start[f] = None THEN New(Pairing[f][1], Pairing[f][2], f \notin Drafts)
              ELSE WithResult(New(Pairing[f][1], Pairing[f][2], f \notin Drafts), start[f])]
  BY DEF Init
<1>2. ASSUME NEW f \in DOMAIN fixture PROVE IsRow(fixture[f])
  <2> DEFINE x == New(Pairing[f][1], Pairing[f][2], f \notin Drafts)
  <2>1. IsRow(x)
    BY DEF New, IsRow, Fields
  <2>2. fixture[f] = IF start[f] = None THEN x ELSE WithResult(x, start[f])
    BY <1>1
  <2> HIDE DEF x
  <2>3. QED
    BY <2>1, <2>2, WithResultRow
<1>3. QED
  BY <1>1, <1>2 DEF SeasonInv, IsSeason, Init

\* What a fixture in the bracket is when it is created.
LEMMA CreatedBracket ==
    ASSUME IsSeason(fixture), CreatePlayoffFixtures
    PROVE  \E fx : /\ IsSeason(fx)
                   /\ fixture' = SyncPlayoffFixtureTeams(fx, TRUE, Bracket)
                   /\ DOMAIN fixture \subseteq DOMAIN fx \cap Regular
                   /\ \A f \in DOMAIN fixture : fx[f] = fixture[f]
                   /\ \A f \in DOMAIN fx \ DOMAIN fixture :
                         /\ f \notin Regular /\ fx[f].status = "scheduled"
                         /\ fx[f].card = Blank /\ fx[f].ledger = None
<1> DEFINE seeds == SeasonStandingTeamIds(fixture)
           Held(home, away) == [New(seeds[home], seeds[away], FALSE)
                                    EXCEPT !.heldHome = TRUE, !.heldAway = TRUE]
           bracket == [qualifier_1 |-> Held(1, 2), eliminator |-> Held(3, 4),
                       qualifier_2 |-> Held(1, 3), final |-> Held(1, 3)]
           fx == [f \in DOMAIN fixture \cup Bracket |->
                    IF f \in Bracket THEN bracket[f] ELSE fixture[f]]
<1>1. fixture' = SyncPlayoffFixtureTeams(fx, TRUE, Bracket) /\ DOMAIN fixture \cap Bracket = {}
  BY DEF CreatePlayoffFixtures
<1> HIDE DEF seeds
<1>2. ASSUME NEW home, NEW away
      PROVE  /\ IsRow(Held(home, away)) /\ Held(home, away).status = "scheduled"
             /\ Held(home, away).card = Blank /\ Held(home, away).ledger = None
  BY DEF New, IsRow, Fields
<1> HIDE DEF Held
<1>3. \A f \in Bracket : /\ IsRow(bracket[f]) /\ bracket[f].status = "scheduled"
                         /\ bracket[f].card = Blank /\ bracket[f].ledger = None
  BY <1>2 DEF Bracket
<1> HIDE DEF bracket
<1>4. /\ DOMAIN fx = DOMAIN fixture \cup Bracket
      /\ \A f \in DOMAIN fixture : fx[f] = fixture[f]
      /\ \A f \in Bracket : fx[f] = bracket[f]
  BY <1>1
<1>5. IsSeason(fx)
  BY <1>3, <1>4 DEF IsSeason
<1> HIDE DEF fx
<1>6. \A f \in Bracket : f \notin Regular
  BY SeasonAssumption
<1>7. /\ DOMAIN fixture \subseteq DOMAIN fx \cap Regular
      /\ DOMAIN fx \ DOMAIN fixture \subseteq Bracket
  BY <1>1, <1>4 DEF IsSeason
<1>8. /\ \A f \in DOMAIN fixture : fx[f] = fixture[f]
      /\ \A f \in DOMAIN fx \ DOMAIN fixture :
            /\ f \notin Regular /\ fx[f].status = "scheduled"
            /\ fx[f].card = Blank /\ fx[f].ledger = None
  BY <1>3, <1>4, <1>6, <1>7
<1>9. QED
  <2> DEFINE gx == SyncPlayoffFixtureTeams(fx, TRUE, Bracket)
  <2>1. fixture' = gx
    BY <1>1
  <2>2. DOMAIN fixture \subseteq DOMAIN fx \cap Regular
    BY <1>7
  <2>3. IsSeason(fx) /\ fixture' = SyncPlayoffFixtureTeams(fx, TRUE, Bracket)
    BY <1>5, <2>1
  <2> HIDE DEF gx
  <2>4. QED
    BY <1>8, <2>2, <2>3

\* A step that revises one fixture.
Revises(f, row) ==
    /\ f \in DOMAIN fixture
    /\ IsRow(row)
    /\ fixture' = [fixture EXCEPT ![f] = row]
    /\ desk' = desk

LEMMA ChangedRow ==
    ASSUME NEW x, IsRow(x), NEW change
    PROVE  /\ IsRow(Changed(x, change))
           /\ \A field \in Fields : Changed(x, change)[field] =
                 IF field \in DOMAIN change THEN change[field] ELSE x[field]
<1>1. x = [field \in Fields |-> x[field]]
  BY DEF IsRow
<1>2. DOMAIN x = Fields
  BY <1>1
<1>3. Changed(x, change) =
          [field \in Fields |-> IF field \in DOMAIN change THEN change[field] ELSE x[field]]
  BY <1>2 DEF Changed
<1>4. QED
  BY <1>3 DEF IsRow

LEMMA Updated ==
    ASSUME SeasonInv, NEW f \in DOMAIN fixture, NEW change, UpdateMatch(f, change)
    PROVE  \E row : Revises(f, row) /\ desk = Idle
<1> DEFINE next == Changed(fixture[f], change)
           reopened == [next EXCEPT !.result = None, !.card = Blank, !.finalized = FALSE]
           completed == [next EXCEPT !.finalized = TRUE]
<1>1. IsRow(next)
  BY ChangedRow DEF SeasonInv, IsSeason
<1>2. desk = Idle /\ desk' = desk
  BY DEF UpdateMatch, AtDesk
<1>3. \/ fixture' = [fixture EXCEPT ![f] = next]
      \/ fixture' = [fixture EXCEPT ![f] = reopened]
      \/ fixture' = [fixture EXCEPT ![f] = completed]
  BY DEF UpdateMatch
<1> HIDE DEF next
<1>4. IsRow(reopened) /\ IsRow(completed)
  BY <1>1 DEF IsRow, Fields
<1> HIDE DEF reopened, completed
<1>5. QED
  BY <1>1, <1>2, <1>3, <1>4 DEF Revises

LEMMA Decided ==
    ASSUME SeasonInv, NEW f \in DOMAIN fixture, NEW d, DecideDisciplineCase(f, d)
    PROVE  \E row : Revises(f, row) /\ desk = Idle
<1>1. IsRow(fixture[f]) /\ fixture = [g \in DOMAIN fixture |-> fixture[g]]
  BY DEF SeasonInv, IsSeason
<1>2. desk = Idle /\ desk' = desk
  BY DEF DecideDisciplineCase, AtDesk
<1>3. CASE fixture' = fixture
  <2>1. fixture' = [fixture EXCEPT ![f] = fixture[f]]
    BY <1>1, <1>3
  <2>2. Revises(f, fixture[f])
    BY <1>1, <1>2, <2>1 DEF Revises
  <2>3. QED
    BY <1>2, <2>2
<1>4. CASE \E ruled : fixture' = [fixture EXCEPT ![f].result = ruled, ![f].status = "completed"]
  <2>1. PICK ruled : fixture' = [fixture EXCEPT ![f].result = ruled, ![f].status = "completed"]
    BY <1>4
  <2> DEFINE row == [fixture[f] EXCEPT !.result = ruled, !.status = "completed"]
  <2>2. fixture' = [fixture EXCEPT ![f] = row]
    BY <1>1, <2>1
  <2>3. IsRow(row)
    BY <1>1 DEF IsRow, Fields
  <2> HIDE DEF row
  <2>4. QED
    BY <1>2, <2>2, <2>3 DEF Revises
<1>5. QED
  BY <1>3, <1>4 DEF DecideDisciplineCase

LEMMA StartedScoring ==
    ASSUME SeasonInv, NEW f \in DOMAIN fixture, StartScoring(f)
    PROVE  \E row : Revises(f, row) /\ row.status # "completed"
<1> DEFINE row == [fixture[f] EXCEPT !.begun = TRUE]
<1>1. IsRow(fixture[f])
  BY DEF SeasonInv, IsSeason
<1>2. fixture' = [fixture EXCEPT ![f] = row] /\ desk' = desk /\ fixture[f].status = "scheduled"
  BY DEF StartScoring
<1>3. IsRow(row) /\ row.status = fixture[f].status
  BY <1>1 DEF IsRow, Fields
<1> HIDE DEF row
<1>4. QED
  BY <1>2, <1>3 DEF Revises

LEMMA MatchPlayed ==
    ASSUME SeasonInv, NEW f \in DOMAIN fixture, NEW e, PlayMatch(f, e)
    PROVE  \E row : Revises(f, row) /\ row.status # "completed"
<1> DEFINE x == fixture[f]
           ledger == IF x.ledger # None /\ {x.ledger.home, x.ledger.away} # {x.home, x.away}
                     THEN x.ledger ELSE Ledger(x, e)
           row == [x EXCEPT !.status = "live", !.ledger = ledger, !.card = Rebuilt(x, ledger)]
<1>1. IsRow(x)
  BY DEF SeasonInv, IsSeason
<1>2. fixture' = [fixture EXCEPT ![f] = row] /\ desk' = desk
  BY DEF PlayMatch
<1> HIDE DEF ledger
<1>3. IsRow(row) /\ row.status = "live"
  BY <1>1 DEF IsRow, Fields
<1> HIDE DEF row
<1>4. QED
  BY <1>2, <1>3 DEF Revises

LEMMA CalledOff ==
    ASSUME SeasonInv, NEW f \in DOMAIN fixture, NEW status, CallOff(f, status)
    PROVE  \E row : Revises(f, row) /\ desk = Idle
<1> DEFINE row == [fixture[f] EXCEPT !.status = status, !.finalized = FALSE,
                      !.card = IF fixture[f].ledger = None THEN Blank
                               ELSE Rebuilt(fixture[f], fixture[f].ledger)]
<1>1. IsRow(fixture[f])
  BY DEF SeasonInv, IsSeason
<1>2. fixture' = [fixture EXCEPT ![f] = row] /\ desk' = desk /\ desk = Idle
  BY DEF CallOff, AtDesk
<1>3. IsRow(row)
  BY <1>1 DEF IsRow, Fields
<1> HIDE DEF row
<1>4. QED
  BY <1>2, <1>3 DEF Revises

LEMMA TestMatchReset ==
    ASSUME SeasonInv, NEW f \in DOMAIN fixture, ResetLiveTestMatch(f)
    PROVE  \E row : Revises(f, row) /\ desk = Idle /\ row.status # "completed"
<1> DEFINE row == [fixture[f] EXCEPT !.status = "scheduled", !.finalized = FALSE, !.result = None,
                                     !.card = Blank, !.ledger = None]
<1>1. IsRow(fixture[f])
  BY DEF SeasonInv, IsSeason
<1>2. fixture' = [fixture EXCEPT ![f] = row] /\ desk' = desk /\ desk = Idle
  BY DEF ResetLiveTestMatch, AtDesk
<1>3. IsRow(row) /\ row.status = "scheduled"
  BY <1>1 DEF IsRow, Fields
<1> HIDE DEF row
<1>4. QED
  BY <1>2, <1>3 DEF Revises

\* A step that saves a result and reseeds the bracket with it.
Saves(f, row, free) ==
    /\ f \in DOMAIN fixture
    /\ IsRow(row)
    /\ row.status = "completed"
    /\ fixture' = SyncPlayoffFixtureTeams([fixture EXCEPT ![f] = row], row.here, free)
    /\ \A g \in DOMAIN fixture \cap free : g # f /\ fixture[g].status # "completed"

LEMMA FreeScheduled == \A fx : \A f \in Free(fx) : f \in DOMAIN fx /\ fx[f].status = "scheduled"
BY DEF Free, Reseedable

LEMMA Committed ==
    ASSUME SeasonInv, CommitMatchResult
    PROVE  Saves(desk.match, WithResult(fixture[desk.match], desk.entry), desk.free) /\ desk' = Idle
<1> DEFINE f == desk.match
           row == WithResult(fixture[f], desk.entry)
           saved == [fixture EXCEPT ![f] = row]
<1>1. IsSeason(fixture) /\ f \in DOMAIN fixture /\ IsRow(fixture[f])
  BY DEF SeasonInv, IsSeason, CommitMatchResult
<1>2. IsRow(row) /\ row.status = "completed"
  BY <1>1, WithResultRow
<1>3. fixture' = SyncPlayoffFixtureTeams(saved, saved[f].here, desk.free) /\ desk' = Idle /\ desk # Idle
  BY DEF CommitMatchResult
<1> HIDE DEF row
<1>4. saved[f] = row
  BY <1>1, <1>2, ChangedSeason
<1>5. QED
  BY <1>1, <1>2, <1>3, <1>4 DEF Saves, SeasonInv, row

LEMMA Finished ==
    ASSUME SeasonInv, NEW f \in DOMAIN fixture, FinalizeLiveMatchResult(f)
    PROVE  /\ Saves(f, Finalized(fixture[f]), Free([fixture EXCEPT ![f] = Finalized(fixture[f])]))
           /\ desk = Idle /\ desk' = Idle
<1> DEFINE row == Finalized(fixture[f])
           saved == [fixture EXCEPT ![f] = row]
<1>1. IsSeason(fixture) /\ IsRow(fixture[f])
  BY DEF SeasonInv, IsSeason
<1>2. IsRow(row) /\ row.status = "completed"
  BY <1>1, FinalizedRow
<1>3. /\ fixture' = SyncPlayoffFixtureTeams(saved, saved[f].here, Free(saved))
      /\ desk = Idle /\ desk' = desk
  BY DEF FinalizeLiveMatchResult, AtDesk
<1> HIDE DEF row
<1>4. DOMAIN saved = DOMAIN fixture /\ saved[f] = row
      /\ \A g \in DOMAIN fixture \ {f} : saved[g] = fixture[g]
  BY <1>1, <1>2, ChangedSeason
<1> HIDE DEF saved
<1>5. \A g \in DOMAIN fixture \cap Free(saved) : g # f /\ fixture[g].status # "completed"
  BY <1>2, <1>4, FreeScheduled
<1>6. Saves(f, row, Free(saved))
  BY <1>2, <1>3, <1>4, <1>5 DEF Saves, saved
<1>7. QED
  BY <1>3, <1>6 DEF row, saved

\* Those steps keep the shape of the season.
LEMMA RevisedSeason ==
    ASSUME SeasonInv, NEW f, NEW row, Revises(f, row), desk = Idle \/ row.status # "completed"
    PROVE  SeasonInv'
<1>1. /\ IsSeason(fixture') /\ DOMAIN fixture' = DOMAIN fixture /\ fixture'[f] = row
      /\ \A g \in DOMAIN fixture \ {f} : fixture'[g] = fixture[g]
  BY ChangedSeason DEF SeasonInv, Revises
<1>2. f \in DOMAIN fixture /\ desk' = desk
  BY DEF Revises
<1>3. \A g \in DOMAIN fixture :
          desk # Idle /\ fixture[g].status # "completed" => fixture'[g].status # "completed"
  BY <1>1, <1>2
<1>4. QED
  BY <1>1, <1>2, <1>3 DEF SeasonInv

LEMMA SavedSeason ==
    ASSUME SeasonInv, NEW f, NEW row, NEW free, Saves(f, row, free), desk' = Idle
    PROVE  SeasonInv'
<1> DEFINE saved == [fixture EXCEPT ![f] = row]
<1>1. IsSeason(saved)
  BY ChangedSeason DEF SeasonInv, Saves
<1>2. fixture' = SyncPlayoffFixtureTeams(saved, row.here, free)
  BY DEF Saves
<1> HIDE DEF saved
<1>3. IsSeason(fixture')
  BY <1>1, <1>2, SyncedSeason
<1>4. QED
  BY <1>3 DEF SeasonInv

\* The steps that are neither.
LEMMA PublishedSeason ==
    ASSUME IsSeason(fixture), PublishDrafts
    PROVE  /\ IsSeason(fixture') /\ DOMAIN fixture' = DOMAIN fixture
           /\ \A f \in DOMAIN fixture :
                 LET seeded == SyncPlayoffFixtureTeams(fixture, TRUE, Free(fixture))
                 IN  fixture'[f].status = seeded[f].status /\ fixture'[f].card = seeded[f].card
<1> DEFINE seeded == SyncPlayoffFixtureTeams(fixture, TRUE, Free(fixture))
<1>1. fixture' = [f \in DOMAIN seeded |-> [seeded[f] EXCEPT !.published = @ \/ seeded[f].here]]
  BY DEF PublishDrafts
<1>2. IsSeason(seeded) /\ DOMAIN seeded = DOMAIN fixture
  BY SyncedSeason
<1> HIDE DEF seeded
<1>3. ASSUME NEW x, IsRow(x), NEW published
      PROVE  LET y == [x EXCEPT !.published = published]
             IN  IsRow(y) /\ y.status = x.status /\ y.card = x.card
  BY <1>3 DEF IsRow, Fields
<1>4. \A f \in DOMAIN fixture :
          /\ IsRow(fixture'[f])
          /\ fixture'[f].status = seeded[f].status /\ fixture'[f].card = seeded[f].card
  <2> TAKE f \in DOMAIN fixture
  <2> DEFINE published == seeded[f].published \/ seeded[f].here
  <2>1. IsRow(seeded[f]) /\ fixture'[f] = [seeded[f] EXCEPT !.published = published]
    BY <1>1, <1>2 DEF IsSeason
  <2> HIDE DEF published
  <2>2. QED
    BY <1>3, <2>1
<1>5. IsSeason(fixture') /\ DOMAIN fixture' = DOMAIN fixture
  BY <1>1, <1>2, <1>4 DEF IsSeason
<1>6. QED
  BY <1>4, <1>5 DEF seeded

LEMMA CancelledSeason ==
    ASSUME IsSeason(fixture), NEW fs, BulkCancelMatches(fs)
    PROVE  /\ IsSeason(fixture') /\ DOMAIN fixture' = DOMAIN fixture \ fs
           /\ \A f \in DOMAIN fixture' : fixture'[f] = fixture[f]
<1>1. fixture' = [f \in DOMAIN fixture \ fs |-> fixture[f]]
  BY DEF BulkCancelMatches
<1>2. QED
  BY <1>1 DEF IsSeason

LEMMA ReadForResult ==
    ASSUME SeasonInv, NEW f \in DOMAIN fixture, NEW e, SetMatchResult(f, e)
    PROVE  SeasonInv'
<1> DEFINE row == WithResult(fixture[f], e)
           saved == [fixture EXCEPT ![f] = row]
<1>1. IsSeason(fixture) /\ IsRow(fixture[f])
  BY DEF SeasonInv, IsSeason
<1>2. IsRow(row) /\ row.status = "completed"
  BY <1>1, WithResultRow
<1>3. /\ fixture' = fixture
      /\ desk' = [match |-> f, entry |-> e, free |-> Free(saved)]
  BY DEF SetMatchResult
<1> HIDE DEF row
<1>4. saved[f] = row /\ \A g \in DOMAIN fixture \ {f} : saved[g] = fixture[g]
  BY <1>1, <1>2, ChangedSeason
<1> HIDE DEF saved
<1>5. desk'.match = f /\ desk'.free = Free(saved)
  BY <1>3
<1>6. f \notin Free(saved)
  BY <1>2, <1>4, FreeScheduled
<1>7. \A g \in DOMAIN fixture \cap Free(saved) : fixture[g].status # "completed"
  BY <1>4, <1>6, FreeScheduled
<1>8. QED
  BY <1>1, <1>3, <1>5, <1>6, <1>7 DEF SeasonInv

LEMMA Step ==
    ASSUME SeasonInv, Next
    PROVE  SeasonInv'
<1>0. IsSeason(fixture)
  BY DEF SeasonInv
<1>1. CASE PublishDrafts
  <2>1. IsSeason(fixture')
    BY <1>0, <1>1, PublishedSeason
  <2>2. desk = Idle /\ desk' = desk
    BY <1>1 DEF PublishDrafts, AtDesk
  <2>3. QED
    BY <2>1, <2>2 DEF SeasonInv
<1>2. CASE CreatePlayoffFixtures
  <2>1. PICK fx : IsSeason(fx) /\ fixture' = SyncPlayoffFixtureTeams(fx, TRUE, Bracket)
    BY <1>0, <1>2, CreatedBracket
  <2>2. IsSeason(fixture')
    BY <2>1, SyncedSeason
  <2>3. desk = Idle /\ desk' = desk
    BY <1>2 DEF CreatePlayoffFixtures, AtDesk
  <2>4. QED
    BY <2>2, <2>3 DEF SeasonInv
<1>3. CASE CommitMatchResult
  BY <1>3, Committed, SavedSeason
<1>4. CASE RecomputeAllPlayers
  BY <1>4 DEF RecomputeAllPlayers, SeasonInv
<1>5. CASE \E fs \in SUBSET (DOMAIN fixture \cap Worked) \ {{}} : BulkCancelMatches(fs)
  <2>1. PICK fs : BulkCancelMatches(fs)
    BY <1>5
  <2>2. IsSeason(fixture')
    BY <1>0, <2>1, CancelledSeason
  <2>3. desk = Idle /\ desk' = desk
    BY <2>1 DEF BulkCancelMatches, AtDesk
  <2>4. QED
    BY <2>2, <2>3 DEF SeasonInv
<1>6. ASSUME NEW f \in DOMAIN fixture, NEW e, SetMatchResult(f, e)
      PROVE  SeasonInv'
  BY <1>6, ReadForResult
<1>7. ASSUME NEW f \in DOMAIN fixture,
             \/ \E change \in Changes : UpdateMatch(f, change)
             \/ \E d \in Decisions : DecideDisciplineCase(f, d)
             \/ StartScoring(f)
             \/ \E e \in LiveEntries : PlayMatch(f, e)
             \/ \E status \in {"abandoned", "cancelled"} : CallOff(f, status)
             \/ ResetLiveTestMatch(f)
      PROVE  SeasonInv'
  <2>1. \E row : Revises(f, row) /\ (desk = Idle \/ row.status # "completed")
    BY <1>7, Updated, Decided, StartedScoring, MatchPlayed, CalledOff, TestMatchReset
  <2>2. QED
    BY <2>1, RevisedSeason
<1>8. ASSUME NEW f \in DOMAIN fixture, FinalizeLiveMatchResult(f)
      PROVE  SeasonInv'
  BY <1>8, Finished, SavedSeason
<1>9. QED
  BY <1>1, <1>2, <1>3, <1>4, <1>5, <1>6, <1>7, <1>8 DEF Next

LEMMA StutterStep == SeasonInv /\ UNCHANGED vars => SeasonInv'
BY DEF SeasonInv, vars

\* Fixtures keep their form through every request, and no fixture that a save
\* found free to be reseeded is completed before its commit: the requests that
\* complete a match wait for the desk.
THEOREM SeasonKeepsItsShape == Spec => []SeasonInv
<1>1. SeasonInv /\ [Next]_vars => SeasonInv'
  BY Step, StutterStep
<1>2. QED
  BY <1>1, InitSeason, PTL DEF Spec

-----------------------------------------------------------------------------
(* Every step but the four keeps the totals right *)

\* A save with its recomputation.
LEMMA SavedTotals ==
    ASSUME SeasonInv, NEW f, NEW row, NEW free, Saves(f, row, free),
           TotalsRight(fixture, totals),
           RecomputePlayerCareerStats([fixture EXCEPT ![f] = row], AffectedTeams(fixture[f], row))
    PROVE  TotalsRight(fixture', totals')
<1> DEFINE saved == [fixture EXCEPT ![f] = row]
<1>1. /\ IsSeason(fixture) /\ f \in DOMAIN fixture /\ IsRow(row)
      /\ fixture' = SyncPlayoffFixtureTeams(saved, row.here, free)
  BY DEF SeasonInv, Saves
<1>2. IsSeason(saved)
  BY <1>1, ChangedSeason
<1>3. ASSUME NEW t, t \notin AffectedTeams(fixture[f], row)
      PROVE  Counted(saved, t) = Counted(fixture, t)
  BY <1>1, <1>3, ChangedCounted DEF AffectedTeams
<1>4. ASSUME NEW t \in Teams PROVE totals'[t] = Counted(saved, t)
  BY <1>3 DEF RecomputePlayerCareerStats, TotalsRight
<1> HIDE DEF saved
<1>5. ASSUME NEW t PROVE Counted(fixture', t) = Counted(saved, t)
  BY <1>1, <1>2, SyncedCounted
<1>6. QED
  BY <1>4, <1>5 DEF TotalsRight

LEMMA RevisedCounted ==
    ASSUME SeasonInv, NEW f, NEW row, Revises(f, row), NEW t,
           \/ /\ fixture[f].status = "completed" => t \notin RowTeams(fixture[f])
              /\ row.status # "completed"
           \/ row.status = fixture[f].status /\ row.card = fixture[f].card
    PROVE  Counted(fixture', t) = Counted(fixture, t)
<1>1. /\ IsSeason(fixture) /\ f \in DOMAIN fixture /\ IsRow(row)
      /\ fixture' = [fixture EXCEPT ![f] = row]
  BY DEF SeasonInv, Revises
<1>2. DOMAIN fixture' = DOMAIN fixture /\ fixture'[f] = row
      /\ \A g \in DOMAIN fixture \ {f} : fixture'[g] = fixture[g]
  BY <1>1, ChangedSeason
<1>3. \A g \in DOMAIN fixture : /\ CountsFor(fixture, g, t) <=> CountsFor(fixture', g, t)
                                /\ CountsFor(fixture, g, t) => fixture'[g].card = fixture[g].card
  BY <1>1, <1>2, RowTeamsSame DEF CountsFor
<1>4. QED
  BY <1>2, <1>3, CountedSame

\* A revision, and what must hold for the teams whose totals it leaves alone.
LEMMA RevisedTotals ==
    ASSUME SeasonInv, NEW f, \E row : Revises(f, row), TotalsRight(fixture, totals),
           \A t \in Teams :
               \/ totals'[t] = Counted(fixture', t)
               \/ /\ totals'[t] = totals[t]
                  /\ \/ fixture'[f].status = fixture[f].status /\ fixture'[f].card = fixture[f].card
                     \/ /\ fixture'[f].status # "completed"
                        /\ fixture[f].status = "completed" => t \notin RowTeams(fixture[f])
    PROVE  TotalsRight(fixture', totals')
<1>1. PICK row : Revises(f, row)
  OBVIOUS
<1>2. fixture'[f] = row
  BY <1>1, ChangedSeason DEF Revises, SeasonInv
<1>3. ASSUME NEW t \in Teams, totals'[t] # Counted(fixture', t)
      PROVE  Counted(fixture', t) = Counted(fixture, t)
  BY <1>1, <1>2, <1>3, RevisedCounted
<1>4. QED
  BY <1>3 DEF TotalsRight

LEMMA UpdatedTotals ==
    ASSUME SeasonInv, NEW f \in DOMAIN fixture, NEW change \in Changes, UpdateMatch(f, change),
           TotalsRight(fixture, totals), ~Overlooks
    PROVE  TotalsRight(fixture', totals')
<1> DEFINE x == fixture[f]
           next == Changed(x, change)
           reopened == [next EXCEPT !.result = None, !.card = Blank, !.finalized = FALSE]
           completed == [next EXCEPT !.finalized = TRUE]
<1>1. IsSeason(fixture) /\ IsRow(x)
  BY DEF SeasonInv, IsSeason
<1>2. \E row : Revises(f, row)
  BY Updated
<1>3. f \in DOMAIN fixture'
  BY <1>1, <1>2, ChangedSeason DEF Revises
<1>4. IsRow(next) /\ next.card = x.card
  BY <1>1, ChangedRow, ChangeAssumption DEF Fields
<1>5. \/ /\ x.status = "completed" /\ next.status # "completed"
         /\ fixture' = [fixture EXCEPT ![f] = reopened]
         /\ RecomputePlayerCareerStats([fixture EXCEPT ![f] = reopened], RowTeams(x))
      \/ /\ next.status = "completed" /\ fixture' = [fixture EXCEPT ![f] = completed]
         /\ RecomputePlayerCareerStats(fixture, RowTeams(x))
      \/ /\ x.status # "completed" /\ next.status # "completed"
         /\ fixture' = [fixture EXCEPT ![f] = next] /\ UNCHANGED totals
  BY DEF UpdateMatch
<1> HIDE DEF next
<1>6. CASE /\ x.status = "completed" /\ next.status # "completed"
           /\ fixture' = [fixture EXCEPT ![f] = reopened]
           /\ RecomputePlayerCareerStats([fixture EXCEPT ![f] = reopened], RowTeams(x))
  <2>1. fixture'[f] = reopened /\ reopened.status = next.status
    BY <1>1, <1>4, <1>6 DEF IsRow, Fields, IsSeason
  <2>2. \A t \in Teams :
            totals'[t] = Counted(fixture', t) \/ (t \notin RowTeams(x) /\ totals'[t] = totals[t])
    BY <1>6 DEF RecomputePlayerCareerStats
  <2> HIDE DEF reopened
  <2>3. QED
    BY <1>2, <1>6, <2>1, <2>2, RevisedTotals
<1>7. CASE /\ next.status = "completed" /\ fixture' = [fixture EXCEPT ![f] = completed]
           /\ RecomputePlayerCareerStats(fixture, RowTeams(x))
  <2>1. fixture'[f] = completed /\ completed.status = "completed" /\ completed.card = x.card
    BY <1>1, <1>4, <1>7 DEF IsRow, Fields, IsSeason
  <2> HIDE DEF completed
  <2>2. x.status = "completed"
    BY <1>3, <2>1 DEF Overlooks
  <2>3. \A t \in Teams : totals'[t] = totals[t]
    BY <1>7 DEF RecomputePlayerCareerStats, TotalsRight
  <2>4. QED
    BY <1>2, <2>1, <2>2, <2>3, RevisedTotals
<1>8. CASE /\ x.status # "completed" /\ next.status # "completed"
           /\ fixture' = [fixture EXCEPT ![f] = next] /\ UNCHANGED totals
  <2>1. fixture'[f] = next
    BY <1>1, <1>8 DEF IsSeason
  <2>2. QED
    BY <1>2, <1>8, <2>1, RevisedTotals
<1>9. QED
  BY <1>5, <1>6, <1>7, <1>8

LEMMA DecidedTotals ==
    ASSUME SeasonInv, NEW f \in DOMAIN fixture, NEW d \in Decisions, DecideDisciplineCase(f, d),
           TotalsRight(fixture, totals), ~Overlooks
    PROVE  TotalsRight(fixture', totals')
<1>1. IsSeason(fixture) /\ IsRow(fixture[f])
  BY DEF SeasonInv, IsSeason
<1>2. \E row : Revises(f, row)
  BY Decided
<1>3. f \in DOMAIN fixture' /\ totals' = totals
  BY <1>1, <1>2, ChangedSeason DEF Revises, DecideDisciplineCase
<1>4. fixture'[f].status = fixture[f].status /\ fixture'[f].card = fixture[f].card
  <2>1. CASE fixture' = fixture
    BY <2>1
  <2>2. CASE \E ruled : fixture' = [fixture EXCEPT ![f].result = ruled, ![f].status = "completed"]
    <3>1. PICK ruled : fixture' = [fixture EXCEPT ![f].result = ruled, ![f].status = "completed"]
      BY <2>2
    <3> DEFINE row == [fixture[f] EXCEPT !.result = ruled, !.status = "completed"]
    <3>2. fixture'[f] = row
      BY <1>1, <3>1 DEF IsSeason
    <3>3. row.status = "completed" /\ row.card = fixture[f].card
      BY <1>1 DEF IsRow, Fields
    <3> HIDE DEF row
    <3>4. fixture[f].status = "completed"
      BY <1>3, <3>2, <3>3 DEF Overlooks
    <3>5. QED
      BY <3>2, <3>3, <3>4
  <2>3. QED
    BY <2>1, <2>2 DEF DecideDisciplineCase
<1>5. QED
  BY <1>2, <1>3, <1>4, RevisedTotals

LEMMA CalledOffTotals ==
    ASSUME SeasonInv, NEW f \in DOMAIN fixture, NEW status \in {"abandoned", "cancelled"},
           CallOff(f, status), TotalsRight(fixture, totals), ~Overlooks
    PROVE  TotalsRight(fixture', totals')
<1> DEFINE row == [fixture[f] EXCEPT !.status = status, !.finalized = FALSE,
                      !.card = IF fixture[f].ledger = None THEN Blank
                               ELSE Rebuilt(fixture[f], fixture[f].ledger)]
           blank == [fixture[f] EXCEPT !.card = Blank]
<1>1. IsSeason(fixture) /\ IsRow(fixture[f])
  BY DEF SeasonInv, IsSeason
<1>2. \E r : Revises(f, r)
  BY CalledOff
<1>3. f \in DOMAIN fixture'
  BY <1>1, <1>2, ChangedSeason DEF Revises
<1>4. fixture' = [fixture EXCEPT ![f] = row]
  BY DEF CallOff
<1>5. fixture'[f] = row /\ row.status = status /\ status # "completed"
  BY <1>1, <1>4 DEF IsRow, Fields, IsSeason
<1> HIDE DEF row
<1>6. fixture[f].status # "completed"
  BY <1>3, <1>5 DEF Overlooks
<1>7. \A t \in Teams : totals'[t] = totals[t]
  <2>1. CASE RecomputePlayerCareerStats([fixture EXCEPT ![f] = blank], RowTeams(fixture[f]))
    <3>1. IsRow(blank) /\ blank.status = fixture[f].status
      BY <1>1 DEF IsRow, Fields
    <3> HIDE DEF blank
    <3>2. \A t : Counted([fixture EXCEPT ![f] = blank], t) = Counted(fixture, t)
      BY <1>1, <1>6, <3>1, ChangedCounted
    <3>3. QED
      BY <2>1, <3>2 DEF RecomputePlayerCareerStats, TotalsRight
  <2>2. CASE UNCHANGED totals
    BY <2>2
  <2>3. QED
    BY <2>1, <2>2 DEF CallOff
<1>8. QED
  BY <1>2, <1>5, <1>6, <1>7, RevisedTotals

LEMMA ResetTotals ==
    ASSUME SeasonInv, NEW f \in DOMAIN fixture, ResetLiveTestMatch(f), TotalsRight(fixture, totals)
    PROVE  TotalsRight(fixture', totals')
<1>1. PICK row : Revises(f, row) /\ row.status # "completed"
  BY TestMatchReset
<1>2. fixture'[f] = row
  BY <1>1, ChangedSeason DEF Revises, SeasonInv
<1>3. RecomputePlayerCareerStats(fixture', RowTeams(fixture[f]))
  BY DEF ResetLiveTestMatch
<1>4. QED
  BY <1>1, <1>2, <1>3, RevisedTotals DEF RecomputePlayerCareerStats

LEMMA ScoringTotals ==
    ASSUME SeasonInv, NEW f \in DOMAIN fixture, TotalsRight(fixture, totals),
           StartScoring(f) \/ \E e : PlayMatch(f, e)
    PROVE  TotalsRight(fixture', totals')
<1>1. PICK row : Revises(f, row) /\ row.status # "completed"
  BY StartedScoring, MatchPlayed
<1>2. fixture'[f] = row
  BY <1>1, ChangedSeason DEF Revises, SeasonInv
<1>3. fixture[f].status # "completed" /\ totals' = totals
  BY DEF StartScoring, PlayMatch
<1>4. QED
  BY <1>1, <1>2, <1>3, RevisedTotals

LEMMA StepTotals ==
    ASSUME SeasonInv, Next, TotalsRight(fixture, totals), ~Overlooks
    PROVE  TotalsRight(fixture', totals')
<1>0. IsSeason(fixture)
  BY DEF SeasonInv
<1>1. CASE PublishDrafts
  <2> DEFINE seeded == SyncPlayoffFixtureTeams(fixture, TRUE, Free(fixture))
  <2>1. /\ DOMAIN fixture' = DOMAIN fixture
        /\ \A f \in DOMAIN fixture :
              fixture'[f].status = seeded[f].status /\ fixture'[f].card = seeded[f].card
    BY <1>0, <1>1, PublishedSeason
  <2>2. DOMAIN seeded = DOMAIN fixture
    BY <1>0, SyncedSeason
  <2>3. \A t : Counted(seeded, t) = Counted(fixture, t)
    BY <1>0, SyncedCounted
  <2> HIDE DEF seeded
  <2>4. \A t : \A f \in DOMAIN fixture :
            /\ CountsFor(seeded, f, t) <=> CountsFor(fixture', f, t)
            /\ fixture'[f].card = seeded[f].card
    BY <2>1, <2>2, RowTeamsSame DEF CountsFor
  <2>5. \A t : Counted(fixture', t) = Counted(seeded, t)
    BY <2>1, <2>2, <2>4, CountedSame
  <2>6. totals' = totals
    BY <1>1 DEF PublishDrafts
  <2>7. QED
    BY <2>3, <2>5, <2>6 DEF TotalsRight
<1>2. CASE CreatePlayoffFixtures
  <2>1. PICK fx : /\ IsSeason(fx)
                  /\ fixture' = SyncPlayoffFixtureTeams(fx, TRUE, Bracket)
                  /\ DOMAIN fixture \subseteq DOMAIN fx \cap Regular
                  /\ \A f \in DOMAIN fixture : fx[f] = fixture[f]
                  /\ \A f \in DOMAIN fx \ DOMAIN fixture : fx[f].status = "scheduled"
    BY <1>0, <1>2, CreatedBracket
  <2>2. \A t : \A f \in DOMAIN fx :
            /\ CountsFor(fixture, f, t) <=> CountsFor(fx, f, t)
            /\ CountsFor(fixture, f, t) => fx[f].card = fixture[f].card
    BY <2>1 DEF CountsFor
  <2>3. \A t : Counted(fx, t) = Counted(fixture, t)
    BY <2>1, <2>2, CountedSame
  <2>4. \A t : Counted(fixture', t) = Counted(fx, t)
    <3>1. IsSeason(fx)
      BY <2>1
    <3>2. \A t : Counted(SyncPlayoffFixtureTeams(fx, TRUE, Bracket), t) = Counted(fx, t)
      BY <3>1, SyncedCounted
    <3>3. QED
      BY <2>1, <3>2
  <2>5. totals' = totals
    BY <1>2 DEF CreatePlayoffFixtures
  <2>6. QED
    BY <2>3, <2>4, <2>5 DEF TotalsRight
<1>3. CASE CommitMatchResult
  <2> DEFINE row == WithResult(fixture[desk.match], desk.entry)
  <2>1. Saves(desk.match, row, desk.free)
    BY <1>3, Committed
  <2>2. RecomputePlayerCareerStats([fixture EXCEPT ![desk.match] = row],
                                   AffectedTeams(fixture[desk.match], row))
    <3>1. [fixture EXCEPT ![desk.match] = row][desk.match] = row
      BY <1>0, <2>1, ChangedSeason DEF Saves
    <3>2. QED
      BY <1>3, <3>1 DEF CommitMatchResult
  <2> HIDE DEF row
  <2>3. QED
    BY <2>1, <2>2, SavedTotals
<1>4. CASE RecomputeAllPlayers
  BY <1>4 DEF RecomputeAllPlayers, RecomputePlayerCareerStats, TotalsRight
<1>5. CASE \E fs \in SUBSET (DOMAIN fixture \cap Worked) \ {{}} : BulkCancelMatches(fs)
  <2>1. PICK fs : BulkCancelMatches(fs)
    BY <1>5
  <2>2. /\ DOMAIN fixture' = DOMAIN fixture \ fs
        /\ \A f \in DOMAIN fixture' : fixture'[f] = fixture[f]
    BY <1>0, <2>1, CancelledSeason
  <2>3. \A f \in DOMAIN fixture \ DOMAIN fixture' : fixture[f].status # "completed"
    BY DEF Overlooks
  <2>4. \A t : \A f \in DOMAIN fixture :
            /\ CountsFor(fixture, f, t) <=> CountsFor(fixture', f, t)
            /\ CountsFor(fixture, f, t) => fixture'[f].card = fixture[f].card
    BY <2>2, <2>3 DEF CountsFor
  <2>5. \A t : Counted(fixture', t) = Counted(fixture, t)
    BY <2>2, <2>4, CountedSame
  <2>6. totals' = totals
    BY <2>1 DEF BulkCancelMatches
  <2>7. QED
    BY <2>5, <2>6 DEF TotalsRight
<1>6. ASSUME NEW f \in DOMAIN fixture, NEW e, SetMatchResult(f, e)
      PROVE  TotalsRight(fixture', totals')
  BY <1>6 DEF SetMatchResult, TotalsRight
<1>7. ASSUME NEW f \in DOMAIN fixture, FinalizeLiveMatchResult(f)
      PROVE  TotalsRight(fixture', totals')
  <2> DEFINE row == Finalized(fixture[f])
             saved == [fixture EXCEPT ![f] = row]
  <2>1. Saves(f, row, Free(saved))
    BY <1>7, Finished
  <2>2. RecomputePlayerCareerStats(saved, AffectedTeams(fixture[f], row))
    <3>1. saved[f] = row
      BY <1>0, <2>1, ChangedSeason DEF Saves
    <3>2. QED
      BY <1>7, <3>1 DEF FinalizeLiveMatchResult
  <2> HIDE DEF row
  <2>3. QED
    BY <2>1, <2>2, SavedTotals
<1>8. QED
  BY <1>1, <1>2, <1>3, <1>4, <1>5, <1>6, <1>7, UpdatedTotals, DecidedTotals, CalledOffTotals,
     ResetTotals, ScoringTotals DEF Next

\* Career totals that are right stay right, whichever teams, scorecards and
\* requests there are: besides the four requests that change what counts and
\* recompute nothing, every request leaves each team's totals as a recount of
\* all scorecards would find them.
THEOREM TotalsStay == Spec => TotalsStayRight
<1> DEFINE Kept == TotalsRight(fixture, totals) /\ ~Overlooks => TotalsRight(fixture', totals')
<1>1. SeasonInv /\ [Next]_vars => [Kept]_vars
  BY StepTotals
<1>2. Spec => [][Kept]_vars
  BY <1>1, SeasonKeepsItsShape, PTL DEF Spec
<1>3. QED
  BY <1>2 DEF TotalsStayRight

-----------------------------------------------------------------------------
(* A save leaves the bracket as its sources say *)

\* The seeding's table reads regular fixtures, and the cases of any.
LEMMA TableSame ==
    ASSUME NEW fx, NEW gx, DOMAIN gx = DOMAIN fx,
           \A f \in DOMAIN fx \cap Regular : gx[f] = fx[f],
           \A f \in DOMAIN fx : gx[f].here = fx[f].here
    PROVE  SeasonStandingTeamIds(gx) = SeasonStandingTeamIds(fx)
<1>0. ASSUME NEW t PROVE Adjustment(gx, t) = Adjustment(fx, t)
  <2> DEFINE Deciding(hx) == {f \in DOMAIN cases \cap DOMAIN hx :
                        /\ hx[f].here /\ cases[f].team = t
                        /\ cases[f].status \in {"decided", "appealed", "final"}}
  <2>1. Deciding(gx) = Deciding(fx)
    OBVIOUS
  <2>2. QED
    BY <2>1 DEF Adjustment
<1>1. ASSUME NEW t PROVE ServerRow(gx, t) = ServerRow(fx, t)
  <2> DEFINE Counting(hx) == {f \in DOMAIN hx : ServerCounts(f, hx[f]) /\ Plays(hx[f], t)}
             Rating(hx) == {f \in Counting(hx) : ServerRated(hx[f])}
             Against(hx, f) == Other(hx[f], t)
  <2>1. Counting(gx) = Counting(fx) /\ \A f \in Counting(fx) : gx[f] = fx[f]
    BY DEF ServerCounts
  <2>2. Rating(gx) = Rating(fx) /\ Rating(fx) \subseteq Counting(fx)
    BY <2>1
  <2> HIDE DEF Counting, Rating
  <2>3. /\ [f \in Counting(gx) |-> ServerPoints(gx[f], t)] = [f \in Counting(fx) |-> ServerPoints(fx[f], t)]
        /\ {f \in Counting(gx) : ServerWon(gx[f], t)} = {f \in Counting(fx) : ServerWon(fx[f], t)}
        /\ {f \in Counting(gx) : ServerWon(gx[f], Against(gx, f))}
              = {f \in Counting(fx) : ServerWon(fx[f], Against(fx, f))}
    BY <2>1
  <2>4. /\ [f \in Rating(gx) |-> InningsStats(gx[f], t).runs] = [f \in Rating(fx) |-> InningsStats(fx[f], t).runs]
        /\ [f \in Rating(gx) |-> ServerBalls(gx[f], t)] = [f \in Rating(fx) |-> ServerBalls(fx[f], t)]
        /\ [f \in Rating(gx) |-> InningsStats(gx[f], Against(gx, f)).runs]
              = [f \in Rating(fx) |-> InningsStats(fx[f], Against(fx, f)).runs]
        /\ [f \in Rating(gx) |-> ServerBalls(gx[f], Against(gx, f))]
              = [f \in Rating(fx) |-> ServerBalls(fx[f], Against(fx, f))]
    BY <2>1, <2>2
  <2> DEFINE Result(hx) ==
          [team    |-> t,
           points  |-> SumFunction([f \in Counting(hx) |-> ServerPoints(hx[f], t)]) + Adjustment(hx, t),
           wins    |-> Cardinality({f \in Counting(hx) : ServerWon(hx[f], t)}),
           losses  |-> Cardinality({f \in Counting(hx) : ServerWon(hx[f], Against(hx, f))}),
           for     |-> SumFunction([f \in Rating(hx) |-> InningsStats(hx[f], t).runs]),
           faced   |-> SumFunction([f \in Rating(hx) |-> ServerBalls(hx[f], t)]),
           against |-> SumFunction([f \in Rating(hx) |-> InningsStats(hx[f], Against(hx, f)).runs]),
           bowled  |-> SumFunction([f \in Rating(hx) |-> ServerBalls(hx[f], Against(hx, f))])]
  <2>5. Result(gx) = Result(fx)
    BY <1>0, <2>3, <2>4
  <2>6. ServerRow(fx, t) = Result(fx) /\ ServerRow(gx, t) = Result(gx)
    BY DEF ServerRow, Row, Counting, Rating
  <2>7. QED
    BY <2>5, <2>6
<1>2. {ServerRow(gx, t) : t \in Teams} = {ServerRow(fx, t) : t \in Teams}
  BY <1>1
<1>3. QED
  BY <1>2 DEF SeasonStandingTeamIds

\* What reseeding does to a fixture of the bracket, and what it leaves.
LEMMA SeededRow ==
    ASSUME NEW x, IsRow(x), NEW home, NEW away, NEW free
    PROVE  LET y == Seeded(x, home, away, free)
           IN  /\ y.result = x.result
               /\ Reseedable(y) <=> Reseedable(x)
BY DEF Seeded, Reseedable, IsRow, Fields

\* Reseeding this season.
SyncHere(fx, free) == SyncPlayoffFixtureTeams(fx, TRUE, free)

LEMMA SyncedHere ==
    ASSUME NEW fx, IsSeason(fx), NEW free
    PROVE  LET gx == SyncHere(fx, free)
               Home(f) == TeamIdFromSource(fx, Source[f].home)
               Away(f) == TeamIdFromSource(fx, Source[f].away)
           IN  /\ IsSeason(gx)
               /\ DOMAIN gx = DOMAIN fx
               /\ \A f \in DOMAIN fx :
                     /\ gx[f].status = fx[f].status /\ gx[f].here = fx[f].here
                     /\ f \notin free => gx[f].home = fx[f].home /\ gx[f].away = fx[f].away
               /\ \A f \in DOMAIN fx : f \in Regular \/ ~fx[f].here => gx[f] = fx[f]
               /\ \A f \in DOMAIN fx : ~(f \in Regular \/ ~fx[f].here) =>
                     gx[f] = Seeded(fx[f], Home(f), Away(f), f \in free)
<1> DEFINE here == TRUE
           gx == SyncPlayoffFixtureTeams(fx, here, free)
           Home(f) == TeamIdFromSource(fx, Source[f].home)
           Away(f) == TeamIdFromSource(fx, Source[f].away)
<1>0. here
  OBVIOUS
<1> HIDE DEF here
<1>1. /\ IsSeason(gx) /\ DOMAIN gx = DOMAIN fx
      /\ \A f \in DOMAIN fx :
            /\ gx[f].status = fx[f].status /\ gx[f].here = fx[f].here
            /\ f \notin free => gx[f].home = fx[f].home /\ gx[f].away = fx[f].away
  BY SyncedSeason
<1>2. /\ \A f \in DOMAIN fx : f \in Regular \/ ~here \/ ~fx[f].here => gx[f] = fx[f]
      /\ \A f \in DOMAIN fx : ~(f \in Regular \/ ~here \/ ~fx[f].here) =>
            gx[f] = Seeded(fx[f], Home(f), Away(f), f \in free)
  BY SyncedBracket
<1> HIDE DEF gx, Home, Away
<1>3. /\ \A f \in DOMAIN fx : f \in Regular \/ ~fx[f].here => gx[f] = fx[f]
      /\ \A f \in DOMAIN fx : ~(f \in Regular \/ ~fx[f].here) =>
            gx[f] = Seeded(fx[f], Home(f), Away(f), f \in free)
  BY <1>0, <1>2
<1>4. QED
  BY <1>1, <1>3 DEF gx, here, Home, Away, SyncHere

\* The sources are read before the fixtures are reseeded and name the same
\* teams afterwards: the teams of a fixture with a result do not change.
LEMMA SourcesSame ==
    ASSUME NEW fx, IsSeason(fx), NEW free, NEW source,
           \A f \in DOMAIN fx \cap free : fx[f].result = None
    PROVE  TeamIdFromSource(SyncHere(fx, free), source) = TeamIdFromSource(fx, source)
<1> DEFINE gx == SyncHere(fx, free)
<1>1. /\ DOMAIN gx = DOMAIN fx
      /\ \A f \in DOMAIN fx : /\ gx[f].status = fx[f].status /\ gx[f].here = fx[f].here
                              /\ f \notin free => gx[f].home = fx[f].home /\ gx[f].away = fx[f].away
  BY SyncedHere
<1>2. \A f \in DOMAIN fx \cap Regular : gx[f] = fx[f]
  BY SyncedHere
<1>3. \A f \in DOMAIN fx :
          gx[f] = fx[f] \/ \E home, away : gx[f] = Seeded(fx[f], home, away, f \in free)
  BY SyncedHere
<1> HIDE DEF gx
<1>4. \A f \in DOMAIN fx : gx[f].result = fx[f].result
  BY <1>3, SeededRow DEF IsSeason
<1>5. CASE source.kind = "standing"
  <2>1. RegularStageIsComplete(gx) <=> RegularStageIsComplete(fx)
    BY <1>1, <1>2 DEF RegularStageIsComplete
  <2>2. SeasonStandingTeamIds(gx) = SeasonStandingTeamIds(fx)
    BY <1>1, <1>2, TableSame
  <2>3. QED
    BY <1>5, <2>1, <2>2 DEF TeamIdFromSource, gx
<1>6. CASE source.kind # "standing" /\ source.of \notin DOMAIN fx
  BY <1>1, <1>6 DEF TeamIdFromSource, gx
<1>7. CASE source.kind # "standing" /\ source.of \in DOMAIN fx
  <2> DEFINE x == fx[source.of]
             y == gx[source.of]
             Team(z) == LET won == Winner(z) # Nobody
                        IN  CASE won /\ source.kind = "winner" -> Winner(z)
                              [] won /\ source.kind = "loser" /\ Plays(z, Winner(z))
                                     -> Other(z, Winner(z))
                              [] OTHER -> Nobody
  <2>1. TeamIdFromSource(fx, source) = Team(x) /\ TeamIdFromSource(gx, source) = Team(y)
    BY <1>1, <1>7 DEF TeamIdFromSource
  <2>2. Winner(y) = Winner(x)
    BY <1>4, <1>7 DEF Winner
  <2>3. CASE Winner(x) = Nobody
    BY <2>1, <2>2, <2>3 DEF gx
  <2>4. CASE Winner(x) # Nobody
    <3>1. source.of \notin free
      BY <1>7, <2>4 DEF Winner
    <3>2. y.home = x.home /\ y.away = x.away
      BY <1>1, <1>7, <3>1
    <3>3. Team(y) = Team(x)
      BY <2>2, <3>2 DEF Plays, Other
    <3>4. QED
      BY <2>1, <3>3 DEF gx
  <2>5. QED
    BY <2>3, <2>4
<1>8. QED
  BY <1>5, <1>6, <1>7

\* What a save found free has no result before its commit, and a fixture that
\* is untouched at the commit was found free.
FreeInv ==
    desk # Idle =>
        /\ \A f \in DOMAIN fixture \cap desk.free : fixture[f].result = None
        /\ \A f \in (DOMAIN fixture \cap Bracket) \ {desk.match} :
              fixture[f].here /\ Reseedable(fixture[f]) => f \in desk.free

\* The bracket names, as settled teams, those its sources name.
Follows ==
    \A f \in DOMAIN fixture' \cap Bracket :
        LET x == fixture'[f]
            home == TeamIdFromSource(fixture', Source[f].home)
            away == TeamIdFromSource(fixture', Source[f].away)
        IN  x.here /\ Reseedable(x) =>
               /\ home # Nobody => x.home = home /\ ~x.heldHome
               /\ away # Nobody => x.away = away /\ ~x.heldAway

LEMMA SavedFollows ==
    ASSUME SeasonInv, NEW f, NEW row, NEW free, Saves(f, row, free),
           ~Reseedable(row), row.result # None, row.here,
           \A g \in DOMAIN fixture \cap free : fixture[g].result = None,
           \A g \in (DOMAIN fixture \cap Bracket) \ {f} :
               fixture[g].here /\ Reseedable(fixture[g]) => g \in free
    PROVE  Follows
<1> DEFINE saved == [fixture EXCEPT ![f] = row]
<1>1. /\ f \in DOMAIN fixture /\ fixture' = SyncHere(saved, free)
      /\ f \notin free
  <2>1. /\ f \in DOMAIN fixture /\ fixture' = SyncPlayoffFixtureTeams(saved, row.here, free)
        /\ f \notin free
    BY DEF Saves
  <2>2. SyncPlayoffFixtureTeams(saved, row.here, free) = SyncHere(saved, free)
    BY DEF SyncPlayoffFixtureTeams, SyncHere
  <2>3. QED
    BY <2>1, <2>2
<1>2. /\ IsSeason(saved) /\ DOMAIN saved = DOMAIN fixture /\ saved[f] = row
      /\ \A g \in DOMAIN fixture \ {f} : saved[g] = fixture[g]
  BY ChangedSeason DEF SeasonInv, Saves
<1> HIDE DEF saved
<1>3. \A g \in DOMAIN saved \cap free : saved[g].result = None
  BY <1>1, <1>2
<1>4. \A source : TeamIdFromSource(fixture', source) = TeamIdFromSource(saved, source)
  BY <1>1, <1>2, <1>3, SourcesSame
<1>5. DOMAIN fixture' = DOMAIN saved /\ \A g \in DOMAIN saved : fixture'[g].here = saved[g].here
  BY <1>1, <1>2, SyncedHere
<1>6. ASSUME NEW g \in DOMAIN saved \cap Bracket, fixture'[g].here /\ Reseedable(fixture'[g])
      PROVE  LET x == fixture'[g]
                 home == TeamIdFromSource(fixture', Source[g].home)
                 away == TeamIdFromSource(fixture', Source[g].away)
             IN  /\ home # Nobody => x.home = home /\ ~x.heldHome
                 /\ away # Nobody => x.away = away /\ ~x.heldAway
  <2> DEFINE home == TeamIdFromSource(saved, Source[g].home)
             away == TeamIdFromSource(saved, Source[g].away)
  <2>1. g \notin Regular /\ IsRow(saved[g]) /\ saved[g].here
    <3>1. g \notin Regular
      BY SeasonAssumption
    <3>2. IsRow(saved[g])
      BY <1>2 DEF IsSeason
    <3>3. saved[g].here
      BY <1>5, <1>6
    <3>4. QED
      BY <3>1, <3>2, <3>3
  <2>2. fixture'[g] = Seeded(saved[g], home, away, g \in free)
    BY <1>1, <1>2, <2>1, SyncedHere
  <2> HIDE DEF home, away
  <2>3. Reseedable(saved[g])
    BY <1>6, <2>1, <2>2, SeededRow
  <2>4. g \in free
    BY <1>2, <2>1, <2>3
  <2>5. fixture'[g] = Seeded(saved[g], home, away, TRUE)
    <3>1. (g \in free) = TRUE
      BY <2>4
    <3>2. QED
      BY <2>2, <3>1
  <2>6. /\ home # Nobody => fixture'[g].home = home /\ ~fixture'[g].heldHome
        /\ away # Nobody => fixture'[g].away = away /\ ~fixture'[g].heldAway
    <3> DEFINE x == saved[g]
               y == fixture'[g]
    <3>1. y = [x EXCEPT !.home = IF home # Nobody THEN home ELSE @,
                        !.heldHome = @ /\ ~(home # Nobody),
                        !.away = IF away # Nobody THEN away ELSE @,
                        !.heldAway = @ /\ ~(away # Nobody)]
      BY <2>5 DEF Seeded
    <3>2. IsRow(x)
      BY <2>1
    <3> HIDE DEF x, y
    <3>3. home # Nobody => y.home = home /\ ~y.heldHome
      BY <3>1, <3>2 DEF IsRow, Fields
    <3>4. away # Nobody => y.away = away /\ ~y.heldAway
      BY <3>1, <3>2 DEF IsRow, Fields
    <3>5. QED
      BY <3>3, <3>4 DEF y
  <2>7. QED
    BY <1>4, <2>6 DEF home, away
<1>7. QED
  BY <1>5, <1>6 DEF Follows

\* The rows of a saved and of a finalised result are not untouched.
LEMMA ResultNotNone ==
    ASSUME NEW x, NEW e, NEW excluded
    PROVE  ResultOf(x, e, excluded) # None
BY DEF ResultOf, None

LEMMA SavedRow ==
    ASSUME NEW x, IsRow(x), NEW e
    PROVE  /\ WithResult(x, e).result # None /\ ~Reseedable(WithResult(x, e))
           /\ Finalized(x).result # None /\ ~Reseedable(Finalized(x))
<1>1. WithResult(x, e).result = ResultOf(x, e, e.excluded) /\ WithResult(x, e).status = "completed"
  BY DEF WithResult, IsRow, Fields
<1>2. Finalized(x).result # None /\ Finalized(x).status = "completed"
  <2> DEFINE ruled == ResultOf(x.ledger, x.ledger.entry, x.result # None /\ x.result.excluded)
             Extras(t) == IF Plays(x.ledger, t) THEN ruled.extras[SideOf(x.ledger, t)] ELSE 0
             result == [ruled EXCEPT !.extras = [home |-> Extras(x.home), away |-> Extras(x.away)]]
  <2>1. Finalized(x) = [x EXCEPT !.result = result, !.card = Rebuilt(x, x.ledger),
                                 !.status = "completed", !.finalized = TRUE]
    BY DEF Finalized
  <2>2. "outcome" \in DOMAIN result
    <3>1. "outcome" \in DOMAIN ruled
      BY DEF ResultOf
    <3> HIDE DEF ruled, Extras
    <3>2. QED
      BY <3>1
  <2> HIDE DEF result
  <2>3. result # None
    BY <2>2 DEF None
  <2>4. QED
    BY <2>1, <2>3 DEF IsRow, Fields
<1>3. QED
  BY <1>1, <1>2, ResultNotNone DEF Reseedable

LEMMA FreeResults == \A fx : \A f \in Free(fx) : fx[f].result = None
BY DEF Free, Reseedable

LEMMA FreeInvStep ==
    ASSUME SeasonInv, FreeInv, [Next]_vars
    PROVE  FreeInv'
<1>0. IsSeason(fixture)
  BY DEF SeasonInv
<1>1. CASE desk' = Idle
  BY <1>1 DEF FreeInv
<1>2. ASSUME NEW f \in DOMAIN fixture, NEW e, SetMatchResult(f, e)
      PROVE  FreeInv'
  <2> DEFINE row == WithResult(fixture[f], e)
             saved == [fixture EXCEPT ![f] = row]
  <2>1. /\ fixture' = fixture
        /\ desk' = [match |-> f, entry |-> e, free |-> Free(saved)]
    BY <1>2 DEF SetMatchResult
  <2>2. IsRow(fixture[f])
    BY <1>0 DEF IsSeason
  <2>3. IsRow(row) /\ row.status = "completed"
    BY <2>2, WithResultRow
  <2> HIDE DEF row
  <2>4. /\ DOMAIN saved = DOMAIN fixture /\ saved[f] = row
        /\ \A g \in DOMAIN fixture \ {f} : saved[g] = fixture[g]
    BY <1>0, <2>3, ChangedSeason
  <2> HIDE DEF saved
  <2>5. f \notin Free(saved)
    BY <2>3, <2>4, FreeScheduled
  <2>6. desk'.match = f /\ desk'.free = Free(saved)
    BY <2>1
  <2>7. \A g \in DOMAIN fixture \cap Free(saved) : fixture[g].result = None
    BY <2>4, <2>5, FreeResults
  <2>8. \A g \in (DOMAIN fixture \cap Bracket) \ {f} :
            fixture[g].here /\ Reseedable(fixture[g]) => g \in Free(saved)
    BY <2>4 DEF Free
  <2>9. QED
    BY <2>1, <2>6, <2>7, <2>8 DEF FreeInv
<1>3. ASSUME NEW f \in DOMAIN fixture, desk # Idle,
             StartScoring(f) \/ \E e \in LiveEntries : PlayMatch(f, e)
      PROVE  FreeInv'
  <2>1. PICK row : /\ fixture' = [fixture EXCEPT ![f] = row]
                   /\ row.result = fixture[f].result /\ ~Reseedable(row)
    <3>0. IsRow(fixture[f])
      BY <1>0 DEF IsSeason
    <3>1. CASE StartScoring(f)
      <4> DEFINE row == [fixture[f] EXCEPT !.begun = TRUE]
      <4>1. fixture' = [fixture EXCEPT ![f] = row]
        BY <1>0, <3>1 DEF StartScoring, IsSeason
      <4>2. row.result = fixture[f].result /\ row.begun
        BY <3>0 DEF IsRow, Fields
      <4> HIDE DEF row
      <4>3. QED
        BY <4>1, <4>2 DEF Reseedable
    <3>2. CASE \E e \in LiveEntries : PlayMatch(f, e)
      <4>1. PICK e \in LiveEntries : PlayMatch(f, e)
        BY <3>2
      <4> DEFINE x == fixture[f]
                 ledger == IF x.ledger # None /\ {x.ledger.home, x.ledger.away} # {x.home, x.away}
                           THEN x.ledger ELSE Ledger(x, e)
                 row == [x EXCEPT !.status = "live", !.ledger = ledger, !.card = Rebuilt(x, ledger)]
      <4>2. fixture' = [fixture EXCEPT ![f] = row]
        BY <1>0, <4>1 DEF PlayMatch, IsSeason
      <4> HIDE DEF ledger
      <4>3. row.result = fixture[f].result /\ row.status = "live"
        BY <3>0 DEF IsRow, Fields
      <4> HIDE DEF row
      <4>4. QED
        BY <4>2, <4>3 DEF Reseedable
    <3>3. QED
      BY <1>3, <3>1, <3>2
  <2>2. /\ DOMAIN fixture' = DOMAIN fixture /\ fixture'[f] = row
        /\ \A g \in DOMAIN fixture \ {f} : fixture'[g] = fixture[g]
    BY <1>0, <2>1 DEF IsSeason
  <2>3. desk' = desk
    BY <1>3 DEF StartScoring, PlayMatch
  <2>4. QED
    BY <1>3, <2>1, <2>2, <2>3 DEF FreeInv
<1>4. CASE UNCHANGED vars
  BY <1>4 DEF FreeInv, vars
<1>5. ASSUME Next, desk' # Idle
      PROVE  \/ \E f \in DOMAIN fixture : \E e : SetMatchResult(f, e)
             \/ desk # Idle /\ \E f \in DOMAIN fixture :
                    StartScoring(f) \/ \E e \in LiveEntries : PlayMatch(f, e)
             \/ desk = Idle /\ \E f \in DOMAIN fixture :
                    StartScoring(f) \/ \E e \in LiveEntries : PlayMatch(f, e)
  BY <1>5 DEF Next, PublishDrafts, CreatePlayoffFixtures, CommitMatchResult, RecomputeAllPlayers,
     BulkCancelMatches, UpdateMatch, DecideDisciplineCase, FinalizeLiveMatchResult, CallOff,
     ResetLiveTestMatch, AtDesk
<1>6. ASSUME NEW f, StartScoring(f) \/ \E e \in LiveEntries : PlayMatch(f, e)
      PROVE  desk' = desk
  BY <1>6 DEF StartScoring, PlayMatch
<1>7. QED
  BY <1>1, <1>2, <1>3, <1>4, <1>5, <1>6

LEMMA SavesFollow ==
    ASSUME SeasonInv, FreeInv, Next, SavesResult
    PROVE  Follows
<1>0. IsSeason(fixture)
  BY DEF SeasonInv
<1>1. ASSUME CommitMatchResult, fixture[desk.match].here
      PROVE  Follows
  <2> DEFINE row == WithResult(fixture[desk.match], desk.entry)
  <2>1. Saves(desk.match, row, desk.free) /\ desk # Idle
    BY <1>1, Committed DEF CommitMatchResult
  <2>2. row.result # None /\ ~Reseedable(row) /\ row.here
    BY <1>0, <1>1, <2>1, SavedRow, WithResultRow DEF Saves, IsSeason
  <2> HIDE DEF row
  <2>3. QED
    BY <2>1, <2>2, SavedFollows DEF FreeInv
<1>2. ASSUME NEW f \in DOMAIN fixture, fixture[f].here, FinalizeLiveMatchResult(f)
      PROVE  Follows
  <2> DEFINE row == Finalized(fixture[f])
             saved == [fixture EXCEPT ![f] = row]
  <2>1. Saves(f, row, Free(saved))
    BY <1>2, Finished
  <2>2. row.result # None /\ ~Reseedable(row) /\ row.here
    BY <1>0, <1>2, SavedRow, FinalizedRow DEF IsSeason
  <2>3. /\ DOMAIN saved = DOMAIN fixture
        /\ \A g \in DOMAIN fixture \ {f} : saved[g] = fixture[g]
    BY <1>0, <2>1, ChangedSeason DEF Saves
  <2>4. f \notin Free(saved)
    BY <2>1 DEF Saves
  <2> HIDE DEF saved, row
  <2>5. \A g \in DOMAIN fixture \cap Free(saved) : fixture[g].result = None
    BY <2>3, <2>4, FreeResults
  <2>6. \A g \in (DOMAIN fixture \cap Bracket) \ {f} :
            fixture[g].here /\ Reseedable(fixture[g]) => g \in Free(saved)
    BY <2>3 DEF Free
  <2>7. QED
    BY <2>1, <2>2, <2>5, <2>6, SavedFollows
<1>3. ASSUME desk # Idle, desk' = Idle
      PROVE  CommitMatchResult
  BY <1>3 DEF Next, PublishDrafts, CreatePlayoffFixtures, RecomputeAllPlayers, BulkCancelMatches,
     SetMatchResult, UpdateMatch, DecideDisciplineCase, StartScoring, PlayMatch,
     FinalizeLiveMatchResult, CallOff, ResetLiveTestMatch, AtDesk
<1>4. QED
  BY <1>1, <1>2, <1>3 DEF SavesResult

\* Whatever the table, the results and the scorers' steps between its read and
\* its commit: a saved or finalised result leaves every untouched playoff
\* fixture with the teams that the standings and the results name.
THEOREM BracketStaysSeeded == Spec => BracketFollowsResults
<1>1. Init => FreeInv
  BY DEF Init, FreeInv
<1>2. Spec => []FreeInv
  BY <1>1, FreeInvStep, SeasonKeepsItsShape, PTL DEF Spec
<1> DEFINE Kept == SavesResult => Follows
<1>3. SeasonInv /\ FreeInv /\ [Next]_vars => [Kept]_vars
  BY SavesFollow
<1>4. Spec => [][Kept]_vars
  BY <1>2, <1>3, SeasonKeepsItsShape, PTL DEF Spec
<1>5. QED
  BY <1>4 DEF BracketFollowsResults, Follows

-----------------------------------------------------------------------------
(* The two tables *)

\* A fixture both tables count, as they read it.
LEMMA SidesOfAWinner ==
    ASSUME NEW x, x.home # x.away, NEW t, Plays(x, t)
    PROVE  /\ Plays(x, Other(x, t)) /\ Other(x, t) # t
           /\ \A u : Plays(x, u) <=> u = t \/ u = Other(x, t)
           /\ Other(x, Other(x, t)) = t
BY DEF Plays, Other

\* A scorecard: the figures of a team, or none.
IsScorecard(card) == \A t \in Teams : card[t] = None \/ card[t] \in Figures

LEMMA InningsBalls ==
    ASSUME NEW x, IsScorecard(x.card), NEW t \in Teams
    PROVE  InningsStats(x, t).bowled \in Nat
<1> DEFINE rows == IF x.card[t] = None THEN NoInnings ELSE x.card[t]
           extras == IF x.result = None THEN 0 ELSE x.result.extras[SideOf(x, t)]
<1>1. rows \in Figures
  BY DEF IsScorecard, NoInnings, Figures
<1>2. InningsStats(x, t) = [rows EXCEPT !.runs = @ + extras]
  BY DEF InningsStats
<1> HIDE DEF rows, extras
<1>3. QED
  BY <1>1, <1>2 DEF Figures

LEMMA BallsAgree ==
    ASSUME NEW x, IsScorecard(x.card), x.home \in Teams, x.away \in Teams, NEW t
    PROVE  ServerBalls(x, t) = SiteBalls(x, t)
<1>1. Other(x, t) \in Teams
  BY DEF Other
<1>2. InningsStats(x, Other(x, t)).bowled \in Nat
  BY <1>1, InningsBalls
<1>3. AllottedBalls \in Nat \ {0}
  BY SeasonAssumption
<1>4. QED
  BY <1>2, <1>3 DEF ServerBalls, SiteBalls

\* A completed fixture gives both sides the same in either table.
LEMMA FixtureAgrees ==
    ASSUME NEW x, x.status = "completed", x.home # x.away, x.home \in Teams, x.away \in Teams,
           NEW t, Plays(x, t)
    PROVE  /\ ServerDefinitive(x) <=> SiteDefinitive(x)
           /\ ServerRated(x) <=> SiteRated(x)
           /\ ServerPoints(x, t) = SitePoints(x, t)
           /\ ServerWon(x, t) <=> SiteWon(x, t)
           /\ ServerWon(x, Other(x, t)) <=> SiteWon(x, Other(x, t))
<1>1. SiteNoResult(x) <=> Outcome(x) = "no_result"
  BY DEF SiteNoResult
<1>2. SiteTied(x) <=> Outcome(x) = "tie"
  BY <1>1 DEF SiteTied
<1>3. \A u : SiteWon(x, u) <=> Outcome(x) \notin {"tie", "no_result"} /\ Plays(x, u) /\ Winner(x) = u
  BY <1>1, <1>2 DEF SiteWon
<1>4. \A u : Plays(x, u) => (ServerWon(x, u) <=> SiteWon(x, u))
  BY <1>3 DEF ServerWon
<1>5. (\E u \in Teams : SiteWon(x, u)) <=> Outcome(x) \notin {"tie", "no_result"} /\ Plays(x, Winner(x))
  BY <1>3 DEF Plays
<1>6. ServerDefinitive(x) <=> SiteDefinitive(x)
  BY <1>2, <1>5 DEF ServerDefinitive, SiteDefinitive
<1>7. ServerResultPoints(x, t) = SiteResultPoints(x, t)
  <2>1. CASE Outcome(x) = "tie"
    BY <1>1, <1>2, <1>3, <2>1 DEF ServerResultPoints, SiteResultPoints
  <2>2. CASE Outcome(x) = "no_result"
    BY <1>1, <1>2, <1>3, <2>2 DEF ServerResultPoints, SiteResultPoints
  <2>3. CASE Outcome(x) \notin {"tie", "no_result"}
    <3>1. CASE ~Plays(x, Winner(x))
      BY <1>1, <1>2, <1>3, <2>3, <3>1 DEF ServerResultPoints, SiteResultPoints
    <3>2. CASE Winner(x) = t
      BY <1>1, <1>2, <1>3, <2>3, <3>2, SidesOfAWinner DEF ServerResultPoints, SiteResultPoints
    <3>3. CASE Winner(x) = Other(x, t) /\ Winner(x) # t
      BY <1>1, <1>2, <1>3, <2>3, <3>3, SidesOfAWinner DEF ServerResultPoints, SiteResultPoints
    <3>4. QED
      BY <3>1, <3>2, <3>3, SidesOfAWinner
  <2>4. QED
    BY <2>1, <2>2, <2>3
<1>8. ServerBonus(x, t) = SiteBonus(x, t)
  <2>1. CASE competition # "t20 blast" \/ ~SiteDefinitive(x)
    BY <1>6, <2>1 DEF ServerBonus, SiteBonus
  <2>2. CASE ~(competition # "t20 blast" \/ ~SiteDefinitive(x))
    <3> DEFINE first == x.result.first
    <3>1. Plays(x, first) /\ t # first <=> Plays(x, first) /\ t = Other(x, first)
      BY SidesOfAWinner DEF Plays, Other
    <3>2. ServerBonus(x, t) =
              Test(InningsStats(x, t).runs >= BonusRuns)
              + Test(/\ Plays(x, first) /\ t # first /\ Winner(x) = t
                     /\ InningsStats(x, first).runs + 1 >= BonusRuns)
      BY <1>6, <2>2 DEF ServerBonus
    <3>3. SiteBonus(x, t) =
              Test(InningsStats(x, t).runs >= BonusRuns)
              + Test((Plays(x, first) /\ t = Other(x, first) /\ Winner(x) = t)
                     /\ InningsStats(x, first).runs + 1 >= BonusRuns)
      BY <2>2 DEF SiteBonus
    <3> HIDE DEF first
    <3>4. QED
      BY <3>1, <3>2, <3>3 DEF Test
  <2>3. QED
    BY <2>1, <2>2
<1>9. QED
  BY <1>4, <1>6, <1>7, <1>8, SidesOfAWinner
     DEF ServerRated, SiteRated, ServerPoints, SitePoints

LEMMA PairsOfTeams ==
    ASSUME NEW f \in Regular
    PROVE  Pairing[f][1] # Pairing[f][2] /\ Pairing[f][1] \in Teams /\ Pairing[f][2] \in Teams
BY SeasonAssumption

\* Fixtures whose cards can be read; a regular one is between two of the teams.
IsFixture(f, x) ==
    /\ IsScorecard(x.card)
    /\ x.ledger # None => IsCard(x.ledger.entry.card)
    /\ f \in Regular => x.home # x.away /\ x.home \in Teams /\ x.away \in Teams

CardsInv ==
    /\ \A f \in DOMAIN fixture : IsFixture(f, fixture[f])
    /\ desk # Idle => IsCard(desk.entry.card)

\* The rows of both tables are the same.
LEMMA TablesAgree ==
    ASSUME SeasonInv, CardsInv
    PROVE  SeasonStandingTeamIds(fixture) = SiteStandings(fixture)
<1>1. \A f \in DOMAIN fixture : ServerCounts(f, fixture[f]) <=> SiteCounts(f, fixture[f])
  BY DEF ServerCounts, SiteCounts
<1>2. ASSUME NEW f \in DOMAIN fixture, ServerCounts(f, fixture[f])
      PROVE  /\ fixture[f].status = "completed" /\ IsScorecard(fixture[f].card)
             /\ fixture[f].home # fixture[f].away
             /\ fixture[f].home \in Teams /\ fixture[f].away \in Teams
  BY <1>2 DEF ServerCounts, CardsInv, IsFixture
<1>3. ASSUME NEW t PROVE ServerRow(fixture, t) = SiteRow(fixture, t)
  <2> DEFINE Against(f) == Other(fixture[f], t)
             played == {f \in DOMAIN fixture : ServerCounts(f, fixture[f]) /\ Plays(fixture[f], t)}
             rated == {f \in played : ServerRated(fixture[f])}
             Result(Points(_, _), Won(_, _), Balls(_, _)) ==
                 [team    |-> t,
                  points  |-> SumFunction([f \in played |-> Points(fixture[f], t)]) + Adjustment(fixture, t),
                  wins    |-> Cardinality({f \in played : Won(fixture[f], t)}),
                  losses  |-> Cardinality({f \in played : Won(fixture[f], Against(f))}),
                  for     |-> SumFunction([f \in rated |-> InningsStats(fixture[f], t).runs]),
                  faced   |-> SumFunction([f \in rated |-> Balls(fixture[f], t)]),
                  against |-> SumFunction([f \in rated |-> InningsStats(fixture[f], Against(f)).runs]),
                  bowled  |-> SumFunction([f \in rated |-> Balls(fixture[f], Against(f))])]
  <2>1. played = {f \in DOMAIN fixture : SiteCounts(f, fixture[f]) /\ Plays(fixture[f], t)}
    BY <1>1
  <2>2. ASSUME NEW f \in played
        PROVE  /\ ServerRated(fixture[f]) <=> SiteRated(fixture[f])
               /\ ServerPoints(fixture[f], t) = SitePoints(fixture[f], t)
               /\ ServerWon(fixture[f], t) <=> SiteWon(fixture[f], t)
               /\ ServerWon(fixture[f], Against(f)) <=> SiteWon(fixture[f], Against(f))
               /\ ServerBalls(fixture[f], t) = SiteBalls(fixture[f], t)
               /\ ServerBalls(fixture[f], Against(f)) = SiteBalls(fixture[f], Against(f))
    BY <1>2, FixtureAgrees, BallsAgree
  <2>3. rated = {f \in played : SiteRated(fixture[f])}
    BY <2>2
  <2>4. ServerRow(fixture, t) = Result(ServerPoints, ServerWon, ServerBalls)
    BY DEF ServerRow, Row
  <2>5. SiteRow(fixture, t) = Result(SitePoints, SiteWon, SiteBalls)
    BY <2>1, <2>3 DEF SiteRow, Row
  <2> HIDE DEF played
  <2>6. /\ [f \in played |-> ServerPoints(fixture[f], t)] = [f \in played |-> SitePoints(fixture[f], t)]
        /\ {f \in played : ServerWon(fixture[f], t)} = {f \in played : SiteWon(fixture[f], t)}
        /\ {f \in played : ServerWon(fixture[f], Against(f))}
              = {f \in played : SiteWon(fixture[f], Against(f))}
        /\ [f \in rated |-> ServerBalls(fixture[f], t)] = [f \in rated |-> SiteBalls(fixture[f], t)]
        /\ [f \in rated |-> ServerBalls(fixture[f], Against(f))]
              = [f \in rated |-> SiteBalls(fixture[f], Against(f))]
    BY <2>2
  <2>7. QED
    BY <2>4, <2>5, <2>6
<1>4. {ServerRow(fixture, t) : t \in Teams} = {SiteRow(fixture, t) : t \in Teams}
  BY <1>3
<1>5. QED
  BY <1>4 DEF SeasonStandingTeamIds, SiteStandings

\* The cards that come in are those of the entries.
LEMMA EntryCards ==
    /\ \A e \in Entries \cup LiveEntries : IsCard(e.card)
    /\ \A e \in Played : e # None => IsCard(e.card)
BY EntryAssumption DEF IsEntry

\* Typed in, rebuilt and blank scorecards.
LEMMA CardMade ==
    ASSUME NEW x, NEW card, IsCard(card)
    PROVE  IsScorecard(CardOf(x, card))
<1>1. SUFFICES ASSUME NEW t \in Teams
               PROVE  CardOf(x, card)[t] = None \/ CardOf(x, card)[t] \in Figures
  BY DEF IsScorecard
<1> DEFINE side == SideOf(x, t)
<1>2. CardOf(x, card)[t] = IF card # None /\ Plays(x, t) /\ side \in card.rows THEN card[side] ELSE None
  BY DEF CardOf
<1> HIDE DEF side
<1>3. QED
  BY <1>2 DEF IsCard

LEMMA CardRebuilt ==
    ASSUME NEW x, NEW ledger, IsCard(ledger.entry.card)
    PROVE  IsScorecard(Rebuilt(x, ledger))
<1> DEFINE card == CardOf(ledger, ledger.entry.card)
<1>1. IsScorecard(card)
  BY CardMade
<1>2. Rebuilt(x, ledger) = [t \in Teams |-> IF Plays(x, t) THEN card[t] ELSE None]
  BY DEF Rebuilt
<1> HIDE DEF card
<1>3. QED
  BY <1>1, <1>2 DEF IsScorecard

LEMMA CardBlank == IsScorecard(Blank)
BY DEF IsScorecard, Blank

LEMMA SeededCards ==
    ASSUME NEW f, f \notin Regular, NEW x, IsRow(x), IsFixture(f, x), NEW home, NEW away, NEW free
    PROVE  IsFixture(f, Seeded(x, home, away, free))
<1> DEFINE y == Seeded(x, home, away, free)
<1>1. y.card = x.card /\ y.ledger = x.ledger
  BY DEF Seeded, IsRow, Fields
<1> HIDE DEF y
<1>2. IsFixture(f, y)
  BY <1>1 DEF IsFixture
<1>3. QED
  BY <1>2 DEF y

LEMMA SyncedCards ==
    ASSUME NEW fx, IsSeason(fx), NEW here, NEW free, \A f \in DOMAIN fx : IsFixture(f, fx[f])
    PROVE  LET gx == SyncPlayoffFixtureTeams(fx, here, free)
           IN  DOMAIN gx = DOMAIN fx /\ \A f \in DOMAIN fx : IsFixture(f, gx[f])
<1> DEFINE gx == SyncPlayoffFixtureTeams(fx, here, free)
<1>1. DOMAIN gx = DOMAIN fx
  BY SyncedSeason
<1>2. \A f \in DOMAIN fx :
          \/ gx[f] = fx[f]
          \/ f \notin Regular /\ \E home, away : gx[f] = Seeded(fx[f], home, away, f \in free)
  BY SyncedBracket
<1> HIDE DEF gx
<1>3. \A f \in DOMAIN fx : IsFixture(f, gx[f])
  BY <1>2, SeededCards DEF IsSeason
<1>4. QED
  BY <1>1, <1>3 DEF gx

LEMMA ChangedCards ==
    ASSUME IsSeason(fixture), \A g \in DOMAIN fixture : IsFixture(g, fixture[g]),
           NEW f \in DOMAIN fixture, NEW row, IsRow(row), IsFixture(f, row)
    PROVE  LET gx == [fixture EXCEPT ![f] = row]
           IN  /\ IsSeason(gx) /\ DOMAIN gx = DOMAIN fixture
               /\ \A g \in DOMAIN gx : IsFixture(g, gx[g])
<1> DEFINE gx == [fixture EXCEPT ![f] = row]
<1>1. /\ IsSeason(gx) /\ DOMAIN gx = DOMAIN fixture /\ gx[f] = row
      /\ \A g \in DOMAIN fixture \ {f} : gx[g] = fixture[g]
  BY ChangedSeason
<1> HIDE DEF gx
<1>2. \A g \in DOMAIN gx : IsFixture(g, gx[g])
  BY <1>1
<1>3. QED
  BY <1>1, <1>2 DEF gx

\* The rows that the requests make of a fixture.
LEMMA RevisedRows ==
    ASSUME NEW f, NEW x, IsRow(x), IsFixture(f, x), NEW status, NEW result, NEW published
    PROVE  /\ IsFixture(f, [x EXCEPT !.result = result, !.status = "completed"])
           /\ IsFixture(f, [x EXCEPT !.begun = TRUE])
           /\ IsFixture(f, [x EXCEPT !.published = published])
           /\ IsFixture(f, [x EXCEPT !.status = "scheduled", !.finalized = FALSE,
                                     !.result = None, !.card = Blank, !.ledger = None])
           /\ IsFixture(f, [x EXCEPT !.status = status, !.finalized = FALSE,
                  !.card = IF x.ledger = None THEN Blank ELSE Rebuilt(x, x.ledger)])
<1>1. /\ IsScorecard(x.card) /\ (x.ledger # None => IsCard(x.ledger.entry.card))
      /\ f \in Regular => x.home # x.away /\ x.home \in Teams /\ x.away \in Teams
  BY DEF IsFixture
<1> DEFINE card == IF x.ledger = None THEN Blank ELSE Rebuilt(x, x.ledger)
<1>2. IsScorecard(card) /\ IsScorecard(Blank)
  BY <1>1, CardBlank, CardRebuilt
<1> HIDE DEF card
<1>3. /\ IsFixture(f, [x EXCEPT !.result = result, !.status = "completed"])
      /\ IsFixture(f, [x EXCEPT !.begun = TRUE])
      /\ IsFixture(f, [x EXCEPT !.published = published])
      /\ IsFixture(f, [x EXCEPT !.status = "scheduled", !.finalized = FALSE,
                                !.result = None, !.card = Blank, !.ledger = None])
      /\ IsFixture(f, [x EXCEPT !.status = status, !.finalized = FALSE, !.card = card])
  BY <1>1, <1>2 DEF IsFixture, IsRow, Fields
<1>4. QED
  BY <1>3 DEF card

\* A change of a fixture asks that its teams differ.
LEMMA ChangedFixture ==
    ASSUME NEW f, NEW x, IsRow(x), IsFixture(f, x), NEW change \in Changes,
           Changed(x, change).home # Changed(x, change).away
    PROVE  LET next == Changed(x, change)
           IN  /\ IsFixture(f, next)
               /\ IsFixture(f, [next EXCEPT !.result = None, !.card = Blank, !.finalized = FALSE])
               /\ IsFixture(f, [next EXCEPT !.finalized = TRUE])
<1> DEFINE next == Changed(x, change)
<1>1. IsRow(next) /\ \A field \in Fields : next[field] =
                        IF field \in DOMAIN change THEN change[field] ELSE x[field]
  BY ChangedRow
<1>2. /\ DOMAIN change \subseteq {"home", "away", "status", "published", "here"}
      /\ "home" \in DOMAIN change => change.home \in Teams
      /\ "away" \in DOMAIN change => change.away \in Teams
  BY ChangeAssumption DEF Sides
<1>3. next.home # next.away
  OBVIOUS
<1> HIDE DEF next
<1>4. next.card = x.card /\ next.ledger = x.ledger
  BY <1>1, <1>2 DEF Fields
<1>5. f \in Regular => next.home \in Teams /\ next.away \in Teams
  BY <1>1, <1>2 DEF Fields, IsFixture
<1>6. IsFixture(f, next)
  BY <1>3, <1>4, <1>5 DEF IsFixture
<1>7. /\ IsFixture(f, [next EXCEPT !.result = None, !.card = Blank, !.finalized = FALSE])
      /\ IsFixture(f, [next EXCEPT !.finalized = TRUE])
  BY <1>1, <1>6, CardBlank DEF IsFixture, IsRow, Fields
<1>8. QED
  BY <1>6, <1>7 DEF next

LEMMA SavedCard ==
    ASSUME NEW f, NEW x, IsRow(x), IsFixture(f, x), NEW e, IsCard(e.card)
    PROVE  IsFixture(f, WithResult(x, e))
<1> DEFINE y == WithResult(x, e)
<1>1. y.card = CardOf(x, e.card) /\ y.ledger = x.ledger /\ y.home = x.home /\ y.away = x.away
  BY DEF WithResult, IsRow, Fields
<1> HIDE DEF y
<1>2. IsScorecard(y.card)
  BY <1>1, CardMade
<1>3. IsFixture(f, y)
  BY <1>1, <1>2 DEF IsFixture
<1>4. QED
  BY <1>3 DEF y

LEMMA FinishedCard ==
    ASSUME NEW f, NEW x, IsRow(x), IsFixture(f, x), x.ledger # None
    PROVE  IsFixture(f, Finalized(x))
<1> DEFINE y == Finalized(x)
<1>1. y.card = Rebuilt(x, x.ledger) /\ y.ledger = x.ledger /\ y.home = x.home /\ y.away = x.away
  BY DEF Finalized, IsRow, Fields
<1> HIDE DEF y
<1>2. IsScorecard(y.card)
  BY <1>1, CardRebuilt DEF IsFixture
<1>3. IsFixture(f, y)
  BY <1>1, <1>2 DEF IsFixture
<1>4. QED
  BY <1>3 DEF y

LEMMA ScoredCard ==
    ASSUME NEW f, NEW x, IsRow(x), IsFixture(f, x), NEW ledger, IsCard(ledger.entry.card)
    PROVE  IsFixture(f, [x EXCEPT !.status = "live", !.ledger = ledger, !.card = Rebuilt(x, ledger)])
<1> DEFINE card == Rebuilt(x, ledger)
<1>1. IsScorecard(card)
  BY CardRebuilt
<1> HIDE DEF card
<1>2. IsFixture(f, [x EXCEPT !.status = "live", !.ledger = ledger, !.card = card])
  BY <1>1 DEF IsFixture, IsRow, Fields
<1>3. QED
  BY <1>2 DEF card

LEMMA InitCards == Init => CardsInv
<1> SUFFICES ASSUME Init PROVE CardsInv
  OBVIOUS
<1>1. PICK start \in [Regular -> Played] :
          fixture = [f \in Regular |->
              IF start[f] = None THEN New(Pairing[f][1], Pairing[f][2], f \notin Drafts)
              ELSE WithResult(New(Pairing[f][1], Pairing[f][2], f \notin Drafts), start[f])]
  BY DEF Init
<1>2. ASSUME NEW f \in Regular PROVE IsFixture(f, fixture[f])
  <2> DEFINE x == New(Pairing[f][1], Pairing[f][2], f \notin Drafts)
  <2>1. IsRow(x)
    BY DEF New, IsRow, Fields
  <2>2. x.card = Blank /\ x.ledger = None /\ x.home = Pairing[f][1] /\ x.away = Pairing[f][2]
    BY DEF New
  <2>3. fixture[f] = IF start[f] = None THEN x ELSE WithResult(x, start[f])
    BY <1>1
  <2> HIDE DEF x
  <2>4. IsFixture(f, x)
    BY <2>2, CardBlank, PairsOfTeams DEF IsFixture
  <2>5. start[f] # None => IsCard(start[f].card)
    BY <1>1, EntryCards
  <2>6. start[f] # None => IsFixture(f, WithResult(x, start[f]))
    BY <2>1, <2>4, <2>5, SavedCard
  <2>7. QED
    BY <2>3, <2>4, <2>6
<1>3. DOMAIN fixture = Regular /\ desk = Idle
  BY <1>1 DEF Init
<1>4. QED
  BY <1>2, <1>3 DEF CardsInv

LEMMA CardsStep ==
    ASSUME SeasonInv, CardsInv, [Next]_vars
    PROVE  CardsInv'
<1>1. /\ IsSeason(fixture) /\ \A f \in DOMAIN fixture : IsFixture(f, fixture[f]) /\ IsRow(fixture[f])
      /\ desk # Idle => desk.match \in DOMAIN fixture /\ IsCard(desk.entry.card)
  BY DEF SeasonInv, CardsInv, IsSeason
<1>2. ASSUME desk' = desk \/ desk' = Idle, \A f \in DOMAIN fixture' : IsFixture(f, fixture'[f])
      PROVE  CardsInv'
  BY <1>2 DEF CardsInv
<1>3. ASSUME NEW f \in DOMAIN fixture, NEW row, IsRow(row), IsFixture(f, row),
             fixture' = [fixture EXCEPT ![f] = row], desk' = desk
      PROVE  CardsInv'
  BY <1>1, <1>2, <1>3, ChangedCards
<1>4. ASSUME NEW fx, IsSeason(fx), \A f \in DOMAIN fx : IsFixture(f, fx[f]), NEW here, NEW free,
             fixture' = SyncPlayoffFixtureTeams(fx, here, free), desk' = desk \/ desk' = Idle
      PROVE  CardsInv'
  <2>1. \A f \in DOMAIN fixture' : IsFixture(f, fixture'[f])
    BY <1>4, SyncedCards
  <2>2. QED
    BY <1>2, <1>4, <2>1
<1>5. CASE PublishDrafts
  <2> DEFINE here == TRUE
             seeded == SyncPlayoffFixtureTeams(fixture, here, Free(fixture))
             published(f) == seeded[f].published \/ seeded[f].here
  <2>1. /\ fixture' = [f \in DOMAIN seeded |-> [seeded[f] EXCEPT !.published = published(f)]]
        /\ desk' = desk
    BY <1>5 DEF PublishDrafts
  <2> HIDE DEF here
  <2>2. DOMAIN seeded = DOMAIN fixture /\ \A f \in DOMAIN fixture : IsFixture(f, seeded[f])
    BY <1>1, SyncedCards
  <2>3. IsSeason(seeded)
    BY <1>1, SyncedSeason
  <2> HIDE DEF seeded, published
  <2>4. \A f \in DOMAIN fixture' : IsFixture(f, fixture'[f])
    BY <2>1, <2>2, <2>3, RevisedRows DEF IsSeason
  <2>5. QED
    BY <1>2, <2>1, <2>4
<1>6. CASE CreatePlayoffFixtures
  <2>1. PICK fx : /\ IsSeason(fx)
                  /\ fixture' = SyncPlayoffFixtureTeams(fx, TRUE, Bracket)
                  /\ DOMAIN fixture \subseteq DOMAIN fx \cap Regular
                  /\ \A f \in DOMAIN fixture : fx[f] = fixture[f]
                  /\ \A f \in DOMAIN fx \ DOMAIN fixture :
                        /\ f \notin Regular
                        /\ fx[f].card = Blank /\ fx[f].ledger = None
    BY <1>1, <1>6, CreatedBracket
  <2>2. \A f \in DOMAIN fx : IsFixture(f, fx[f])
    BY <1>1, <2>1, CardBlank DEF IsFixture
  <2>3. desk' = desk
    BY <1>6 DEF CreatePlayoffFixtures
  <2> DEFINE here == TRUE
  <2>4. fixture' = SyncPlayoffFixtureTeams(fx, here, Bracket)
    BY <2>1
  <2> HIDE DEF here
  <2>5. QED
    BY <1>4, <2>1, <2>2, <2>3, <2>4
<1>7. CASE CommitMatchResult
  <2> DEFINE row == WithResult(fixture[desk.match], desk.entry)
             saved == [fixture EXCEPT ![desk.match] = row]
  <2>1. /\ desk # Idle /\ desk' = Idle
        /\ fixture' = SyncPlayoffFixtureTeams(saved, saved[desk.match].here, desk.free)
    BY <1>1, <1>7 DEF CommitMatchResult
  <2>2. IsRow(row) /\ IsFixture(desk.match, row)
    BY <1>1, <2>1, WithResultRow, SavedCard
  <2> HIDE DEF row
  <2>3. IsSeason(saved) /\ \A f \in DOMAIN saved : IsFixture(f, saved[f])
    BY <1>1, <2>1, <2>2, ChangedCards
  <2> HIDE DEF saved
  <2>4. QED
    BY <1>4, <2>1, <2>3
<1>8. CASE RecomputeAllPlayers
  BY <1>1, <1>2, <1>8 DEF RecomputeAllPlayers
<1>9. CASE \E fs \in SUBSET (DOMAIN fixture \cap Worked) \ {{}} : BulkCancelMatches(fs)
  <2>1. PICK fs : BulkCancelMatches(fs)
    BY <1>9
  <2>2. /\ DOMAIN fixture' = DOMAIN fixture \ fs
        /\ \A f \in DOMAIN fixture' : fixture'[f] = fixture[f]
    BY <1>1, <2>1, CancelledSeason
  <2>3. desk' = desk
    BY <2>1 DEF BulkCancelMatches
  <2>4. QED
    BY <1>1, <1>2, <2>2, <2>3
<1>10. ASSUME NEW f \in DOMAIN fixture, NEW e \in Entries, SetMatchResult(f, e)
       PROVE  CardsInv'
  <2>1. fixture' = fixture /\ desk'.entry = e
    BY <1>10 DEF SetMatchResult
  <2>2. QED
    BY <1>1, <2>1, EntryCards DEF CardsInv
<1>11. ASSUME NEW f \in DOMAIN fixture, NEW change \in Changes, UpdateMatch(f, change)
       PROVE  CardsInv'
  <2> DEFINE x == fixture[f]
             next == Changed(x, change)
             reopened == [next EXCEPT !.result = None, !.card = Blank, !.finalized = FALSE]
             completed == [next EXCEPT !.finalized = TRUE]
  <2>1. IsRow(x) /\ IsFixture(f, x) /\ next.home # next.away
    BY <1>1, <1>11 DEF UpdateMatch
  <2>2. /\ desk' = desk
        /\ \/ fixture' = [fixture EXCEPT ![f] = next]
           \/ fixture' = [fixture EXCEPT ![f] = reopened]
           \/ fixture' = [fixture EXCEPT ![f] = completed]
    BY <1>11 DEF UpdateMatch
  <2> HIDE DEF x
  <2>3. IsFixture(f, next) /\ IsFixture(f, reopened) /\ IsFixture(f, completed)
    BY <2>1, ChangedFixture
  <2>4. IsRow(next)
    BY <2>1, ChangedRow
  <2> HIDE DEF next
  <2>5. IsRow(reopened) /\ IsRow(completed)
    BY <2>4 DEF IsRow, Fields
  <2> HIDE DEF reopened, completed
  <2>6. QED
    BY <1>3, <2>2, <2>3, <2>4, <2>5
<1>12. ASSUME NEW f \in DOMAIN fixture, NEW d, DecideDisciplineCase(f, d)
       PROVE  CardsInv'
  <2>1. CASE fixture' = fixture
    BY <1>1, <1>2, <1>12, <2>1 DEF DecideDisciplineCase
  <2>2. ASSUME NEW ruled, fixture' = [fixture EXCEPT ![f].result = ruled, ![f].status = "completed"]
        PROVE  CardsInv'
    <3> DEFINE row == [fixture[f] EXCEPT !.result = ruled, !.status = "completed"]
    <3>1. fixture' = [fixture EXCEPT ![f] = row]
      BY <1>1, <2>2 DEF IsSeason
    <3>2. IsRow(row)
      BY <1>1 DEF IsRow, Fields
    <3>3. IsFixture(f, row)
      BY <1>1, RevisedRows
    <3> HIDE DEF row
    <3>4. desk' = desk
      BY <1>12 DEF DecideDisciplineCase
    <3>5. QED
      BY <1>3, <3>1, <3>2, <3>3, <3>4
  <2>3. QED
    BY <1>12, <2>1, <2>2 DEF DecideDisciplineCase
<1>13. ASSUME NEW f \in DOMAIN fixture, StartScoring(f)
       PROVE  CardsInv'
  <2> DEFINE row == [fixture[f] EXCEPT !.begun = TRUE]
  <2>1. fixture' = [fixture EXCEPT ![f] = row] /\ desk' = desk
    BY <1>1, <1>13 DEF StartScoring, IsSeason
  <2>2. IsRow(row)
    BY <1>1 DEF IsRow, Fields
  <2>3. IsFixture(f, row)
    BY <1>1, RevisedRows
  <2> HIDE DEF row
  <2>4. QED
    BY <1>3, <2>1, <2>2, <2>3
<1>14. ASSUME NEW f \in DOMAIN fixture, NEW e \in LiveEntries, PlayMatch(f, e)
       PROVE  CardsInv'
  <2> DEFINE x == fixture[f]
             ledger == IF x.ledger # None /\ {x.ledger.home, x.ledger.away} # {x.home, x.away}
                       THEN x.ledger ELSE Ledger(x, e)
             row == [x EXCEPT !.status = "live", !.ledger = ledger, !.card = Rebuilt(x, ledger)]
  <2>1. fixture' = [fixture EXCEPT ![f] = row] /\ desk' = desk
    BY <1>1, <1>14 DEF PlayMatch, IsSeason
  <2>2. IsCard(ledger.entry.card)
    BY <1>1, EntryCards DEF IsFixture, Ledger
  <2> HIDE DEF ledger
  <2>3. IsRow(row)
    BY <1>1 DEF IsRow, Fields
  <2>4. IsFixture(f, row)
    BY <1>1, <2>2, ScoredCard
  <2> HIDE DEF row
  <2>5. QED
    BY <1>3, <2>1, <2>3, <2>4
<1>15. ASSUME NEW f \in DOMAIN fixture, FinalizeLiveMatchResult(f)
       PROVE  CardsInv'
  <2> DEFINE row == Finalized(fixture[f])
             saved == [fixture EXCEPT ![f] = row]
  <2>1. /\ fixture[f].ledger # None /\ desk' = desk
        /\ fixture' = SyncPlayoffFixtureTeams(saved, saved[f].here, Free(saved))
    BY <1>15 DEF FinalizeLiveMatchResult
  <2>2. IsRow(row) /\ IsFixture(f, row)
    BY <1>1, <2>1, FinalizedRow, FinishedCard
  <2> HIDE DEF row
  <2>3. IsSeason(saved) /\ \A g \in DOMAIN saved : IsFixture(g, saved[g])
    BY <1>1, <2>2, ChangedCards
  <2> HIDE DEF saved
  <2>4. QED
    BY <1>4, <2>1, <2>3
<1>16. ASSUME NEW f \in DOMAIN fixture, NEW status, CallOff(f, status)
       PROVE  CardsInv'
  <2> DEFINE row == [fixture[f] EXCEPT !.status = status, !.finalized = FALSE,
                        !.card = IF fixture[f].ledger = None THEN Blank
                               ELSE Rebuilt(fixture[f], fixture[f].ledger)]
  <2>1. fixture' = [fixture EXCEPT ![f] = row] /\ desk' = desk
    BY <1>16 DEF CallOff
  <2>2. IsRow(row)
    BY <1>1 DEF IsRow, Fields
  <2>3. IsFixture(f, row)
    BY <1>1, RevisedRows
  <2> HIDE DEF row
  <2>4. QED
    BY <1>3, <2>1, <2>2, <2>3
<1>17. ASSUME NEW f \in DOMAIN fixture, ResetLiveTestMatch(f)
       PROVE  CardsInv'
  <2> DEFINE row == [fixture[f] EXCEPT !.status = "scheduled", !.finalized = FALSE, !.result = None,
                                       !.card = Blank, !.ledger = None]
  <2>1. fixture' = [fixture EXCEPT ![f] = row] /\ desk' = desk
    BY <1>17 DEF ResetLiveTestMatch
  <2>2. IsRow(row)
    BY <1>1 DEF IsRow, Fields
  <2>3. IsFixture(f, row)
    BY <1>1, RevisedRows
  <2> HIDE DEF row
  <2>4. QED
    BY <1>3, <2>1, <2>2, <2>3
<1>18. CASE UNCHANGED vars
  BY <1>1, <1>2, <1>18 DEF vars
<1>19. QED
  BY <1>5, <1>6, <1>7, <1>8, <1>9, <1>10, <1>11, <1>12, <1>13, <1>14, <1>15, <1>16, <1>17, <1>18
     DEF Next

\* The bracket is seeded in the order of the public table in every season, with
\* any teams, fixtures, scorecards, decisions and requests, moved fixtures and
\* replaced teams included.
THEOREM SeedingStaysPublic == Spec => []SeedingFollowsPublicTable
<1>1. SeasonInv /\ CardsInv => SeedingFollowsPublicTable
  BY TablesAgree DEF SeedingFollowsPublicTable
<1>2. QED
  BY <1>1, InitCards, CardsStep, SeasonKeepsItsShape, PTL DEF Spec

-----------------------------------------------------------------------------
(* The order of a points table *)

\* What the values of a function over a finite domain add up to is a number like them.
LEMMA SumTyped ==
    ASSUME NEW D, IsFiniteSet(D), NEW V, Additive(V), NEW v, DOMAIN v = D, \A x \in D : v[x] \in V
    PROVE  SumFunction(v) \in V
<1> DEFINE g == CHOOSE g : Sums(D, v, g)
<1>1. SumFunction(v) = g[D]
  BY DEF SumFunction, SumFunctionOnSet, FoldFunctionOnSet, MapThenFoldSet, Sums
<1>2. Sums(D, v, g)
  BY SumsExist
<1> HIDE DEF g
<1>3. g[D] \in V
  BY <1>2, SumsTyped
<1>4. QED
  BY <1>1, <1>3

\* Integers and natural numbers are closed under addition.
LEMMA NumbersAddUp == Additive(Int) /\ Additive(Nat)
BY DEF Additive

\* Fractions as the tables compare them are in order: what is not below is
\* not below what that is not below.
LEMMA ProductOrder ==
    ASSUME NEW a \in Int, NEW b \in Nat \ {0}, NEW c \in Int, NEW d \in Nat \ {0},
           NEW e \in Int, NEW f \in Nat \ {0}, a * d >= c * b, c * f >= e * d
    PROVE  a * f >= e * b
<1>1. \A x, y \in Int : \A z \in Nat \ {0} : x >= y => x * z >= y * z
  OBVIOUS
<1>2. \A x, y \in Int : \A z \in Nat \ {0} : x * z >= y * z => x >= y
  OBVIOUS
<1>3. /\ a * d \in Int /\ c * b \in Int /\ c * f \in Int /\ e * d \in Int
      /\ a * f \in Int /\ e * b \in Int
  OBVIOUS
<1>4. (a * d) * f >= (c * b) * f
  BY <1>1, <1>3
<1>5. (c * f) * b >= (e * d) * b
  BY <1>1, <1>3
<1>6. (a * d) * f = (a * f) * d /\ (c * b) * f = (c * f) * b /\ (e * d) * b = (e * b) * d
  OBVIOUS
<1>7. (a * f) * d >= (e * b) * d
  BY <1>4, <1>5, <1>6
<1>8. QED
  BY <1>2, <1>3, <1>7

\* A row of a points table.
IsTableRow(x) ==
    /\ x.team \in Nat /\ x.points \in Int /\ x.wins \in Nat /\ x.losses \in Nat
    /\ x.for \in Nat /\ x.against \in Nat /\ x.faced \in Nat /\ x.bowled \in Nat

\* A net run rate is a fraction: its denominator is not zero.
LEMMA NrrTyped ==
    ASSUME NEW x, IsTableRow(x)
    PROVE  Nrr(x)[1] \in Int /\ Nrr(x)[2] \in Nat \ {0}
<1> DEFINE p == Rate(x.for, x.faced)
           q == Rate(x.against, x.bowled)
<1>1. p[1] \in Int /\ p[2] \in Nat \ {0} /\ q[1] \in Int /\ q[2] \in Nat \ {0}
  BY DEF Rate, IsTableRow
<1>2. Nrr(x) = Minus(p, q)
  BY DEF Nrr
<1> HIDE DEF p, q
<1>3. Minus(p, q)[1] = p[1] * q[2] - q[1] * p[2] /\ Minus(p, q)[2] = p[2] * q[2]
  BY DEF Minus
<1>4. p[1] * q[2] \in Int /\ q[1] * p[2] \in Int
  BY <1>1
<1>5. \A a, b \in Nat \ {0} : a * b \in Nat \ {0}
  OBVIOUS
<1>6. p[2] * q[2] \in Nat \ {0}
  BY <1>1, <1>5
<1>7. p[1] * q[2] - q[1] * p[2] \in Int
  BY <1>4
<1>8. QED
  BY <1>2, <1>3, <1>6, <1>7

\* The net run rate of x is the smaller one.
Below(x, y) == Greater(Nrr(y), Nrr(x))

\* Net run rates are in order, ties included.
LEMMA NrrOrder ==
    ASSUME NEW x, IsTableRow(x), NEW y, IsTableRow(y), NEW z, IsTableRow(z)
    PROVE  /\ ~Below(x, x)
           /\ ~(Below(x, y) /\ Below(y, x))
           /\ ~Below(x, y) /\ ~Below(y, z) => ~Below(x, z)
<1> DEFINE p == Nrr(x)
           q == Nrr(y)
           r == Nrr(z)
<1>1. /\ p[1] \in Int /\ p[2] \in Nat \ {0} /\ q[1] \in Int /\ q[2] \in Nat \ {0}
      /\ r[1] \in Int /\ r[2] \in Nat \ {0}
  BY NrrTyped
<1>2. /\ Below(x, y) <=> q[1] * p[2] > p[1] * q[2]
      /\ Below(y, x) <=> p[1] * q[2] > q[1] * p[2]
      /\ Below(y, z) <=> r[1] * q[2] > q[1] * r[2]
      /\ Below(x, z) <=> r[1] * p[2] > p[1] * r[2]
      /\ Below(x, x) <=> p[1] * p[2] > p[1] * p[2]
  BY DEF Below, Greater
<1> HIDE DEF p, q, r
<1>3. /\ q[1] * p[2] \in Int /\ p[1] * q[2] \in Int /\ r[1] * q[2] \in Int /\ q[1] * r[2] \in Int
      /\ r[1] * p[2] \in Int /\ p[1] * r[2] \in Int /\ p[1] * p[2] \in Int
  BY <1>1
<1>4. ~Below(x, x) /\ ~(Below(x, y) /\ Below(y, x))
  BY <1>2, <1>3
<1>5. ASSUME ~Below(x, y), ~Below(y, z)
      PROVE  ~Below(x, z)
  <2>1. p[1] * q[2] >= q[1] * p[2] /\ q[1] * r[2] >= r[1] * q[2]
    BY <1>2, <1>3, <1>5
  <2>2. p[1] * r[2] >= r[1] * p[2]
    BY <1>1, <2>1, ProductOrder
  <2>3. QED
    BY <1>2, <1>3, <2>2
<1>6. QED
  BY <1>4, <1>5

\* The order of a table is strict, and it tells any two teams apart.
LEMMA AheadOrder ==
    ASSUME NEW x, IsTableRow(x), NEW y, IsTableRow(y), NEW z, IsTableRow(z)
    PROVE  /\ ~Ahead(x, x)
           /\ x.team # y.team => Ahead(x, y) \/ Ahead(y, x)
           /\ Ahead(x, y) /\ Ahead(y, z) => Ahead(x, z)
<1>1. /\ ~Below(x, x) /\ ~Below(y, y) /\ ~Below(z, z)
      /\ ~(Below(x, y) /\ Below(y, x)) /\ ~(Below(y, z) /\ Below(z, y)) /\ ~(Below(x, z) /\ Below(z, x))
      /\ ~Below(x, y) /\ ~Below(y, z) => ~Below(x, z)
      /\ ~Below(z, x) /\ ~Below(x, y) => ~Below(z, y)
      /\ ~Below(y, z) /\ ~Below(z, x) => ~Below(y, x)
      /\ ~Below(z, y) /\ ~Below(y, x) => ~Below(z, x)
      /\ ~Below(x, z) /\ ~Below(z, y) => ~Below(x, y)
      /\ ~Below(y, x) /\ ~Below(x, z) => ~Below(y, z)
  BY NrrOrder
<1>2. \A a, b :
        Ahead(a, b) <=>
            \/ a.points > b.points
            \/ /\ a.points = b.points
               /\ \/ Below(b, a)
                  \/ /\ ~Below(a, b)
                     /\ \/ a.wins > b.wins
                        \/ a.wins = b.wins /\ a.losses < b.losses
                        \/ a.wins = b.wins /\ a.losses = b.losses /\ a.team < b.team
  BY DEF Ahead, Below
<1>3. \A a \in {x, y, z} : a.team \in Nat /\ a.points \in Int /\ a.wins \in Nat /\ a.losses \in Nat
  BY DEF IsTableRow
<1>4. ~Ahead(x, x)
  BY <1>1, <1>2, <1>3
<1>5. x.team # y.team => Ahead(x, y) \/ Ahead(y, x)
  BY <1>1, <1>2, <1>3
<1>6. Ahead(x, y) /\ Ahead(y, z) => Ahead(x, z)
  BY <1>1, <1>2, <1>3
<1>7. QED
  BY <1>4, <1>5, <1>6

\* A table of one row per team names a team at each of its places.
LEMMA OrderedTeams ==
    ASSUME NEW row, row = [t \in Teams |-> row[t]], \A t \in Teams : IsTableRow(row[t]) /\ row[t].team = t,
           NEW n \in 1 .. Cardinality(Teams)
    PROVE  Ordered({row[t] : t \in Teams})[n] \in Teams
<1> DEFINE table == {row[t] : t \in Teams}
           R == {p \in table \X table : Ahead(p[1], p[2])}
<1>1. IsFiniteSet(Teams)
  BY SeasonAssumption
<1>2. row \in Bijection(Teams, table)
  <2>1. row \in [Teams -> table]
    OBVIOUS
  <2>2. \A t, u \in Teams : row[t] = row[u] => t = u
    OBVIOUS
  <2>3. \A x \in table : \E t \in Teams : row[t] = x
    OBVIOUS
  <2>4. row \in Injection(Teams, table)
    BY <2>1, <2>2 DEF Injection, IsInjective
  <2>5. row \in Surjection(Teams, table)
    BY <2>1, <2>3 DEF Surjection
  <2>6. QED
    BY <2>4, <2>5 DEF Bijection
<1>3. IsFiniteSet(table) /\ Cardinality(table) = Cardinality(Teams)
  BY <1>1, <1>2, FS_Bijection DEF ExistsBijection
<1>4. \A x \in table : IsTableRow(x) /\ x.team \in Teams
  OBVIOUS
<1>5. \A x, y \in table : x # y => x.team # y.team
  OBVIOUS
<1> HIDE DEF table
<1>6. \A x, y \in table : <<x, y>> \in R <=> Ahead(x, y)
  OBVIOUS
<1> HIDE DEF R
<1>7. /\ \A x \in table : <<x, x>> \notin R
      /\ \A x, y \in table : x # y => <<x, y>> \in R \/ <<y, x>> \in R
      /\ \A x, y, z \in table : <<x, y>> \in R /\ <<y, z>> \in R => <<x, z>> \in R
  BY <1>4, <1>5, <1>6, AheadOrder
<1>8. n \in 1 .. Cardinality(table)
  BY <1>3
<1>9. PICK x \in table : Cardinality({y \in table : <<y, x>> \in R}) = n - 1
  BY <1>3, <1>7, <1>8, EveryPlaceIsTaken
<1>10. {y \in table : <<y, x>> \in R} = {y \in table : Ahead(y, x)}
  BY <1>6
<1> DEFINE z == CHOOSE x_1 \in table : Cardinality({y \in table : Ahead(y, x_1)}) = n - 1
<1>11. z \in table
  BY <1>9, <1>10
<1>12. Ordered(table)[n] = z.team
  BY DEF Ordered
<1> HIDE DEF z
<1>13. QED
  BY <1>4, <1>11, <1>12 DEF table

-----------------------------------------------------------------------------
(* The rows of the server's table *)

\* A discipline case belongs to a fixture and costs one point.
CasesInv ==
    /\ DOMAIN cases \subseteq DOMAIN fixture
    /\ \A f \in DOMAIN cases : cases[f].points = -1

\* What the tables read of a fixture.
Readable(x) ==
    /\ IsScorecard(x.card)
    /\ x.home \in Teams /\ x.away \in Teams
    /\ x.result # None => \A side \in Sides : x.result.extras[side] \in Nat

\* The figures of a team without a row are those of an innings of nothing.
LEMMA InningsTyped ==
    ASSUME NEW x, Readable(x), NEW t \in Teams
    PROVE  InningsStats(x, t) \in Figures
<1> DEFINE rows == IF x.card[t] = None THEN NoInnings ELSE x.card[t]
           extras == IF x.result = None THEN 0 ELSE x.result.extras[SideOf(x, t)]
<1>1. rows \in Figures
  BY DEF Readable, IsScorecard, NoInnings, Figures
<1>2. extras \in Nat
  <2>1. SideOf(x, t) \in Sides
    BY DEF SideOf, Sides
  <2>2. QED
    BY <2>1 DEF Readable
<1>3. InningsStats(x, t) = [rows EXCEPT !.runs = @ + extras]
  BY DEF InningsStats
<1> HIDE DEF rows, extras
<1>4. QED
  BY <1>1, <1>2, <1>3 DEF Figures

LEMMA OtherIsATeam ==
    ASSUME NEW x, Readable(x), NEW t
    PROVE  Other(x, t) \in Teams
BY DEF Readable, Other

\* The points of a match are a number.
LEMMA PointsTyped == ASSUME NEW x, NEW t PROVE ServerPoints(x, t) \in Int
<1>2. TiePoints \in Int /\ NoResultPoints \in Int /\ WinPoints \in Int
  BY DEF TiePoints, NoResultPoints, WinPoints
<1>3. ServerResultPoints(x, t) \in Int
  <2>1. CASE Outcome(x) = "tie"
    BY <1>2, <2>1 DEF ServerResultPoints
  <2>2. CASE Outcome(x) = "no_result"
    BY <1>2, <2>2 DEF ServerResultPoints
  <2>3. CASE Outcome(x) # "tie" /\ Outcome(x) # "no_result"
    BY <1>2, <2>3 DEF ServerResultPoints
  <2>4. QED
    BY <2>1, <2>2, <2>3
<1>4. ServerBonus(x, t) \in Int
  <2> DEFINE first == x.result.first
             big == InningsStats(x, t).runs >= BonusRuns
             chase == /\ Plays(x, first) /\ t # first /\ Winner(x) = t
                      /\ InningsStats(x, first).runs + 1 >= BonusRuns
  <2>1. ServerBonus(x, t) = IF competition # "t20 blast" \/ ~ServerDefinitive(x) THEN 0
                            ELSE Test(big) + Test(chase)
    BY DEF ServerBonus
  <2> HIDE DEF big, chase
  <2> DEFINE a == Test(big)
             b == Test(chase)
  <2>2. a \in Int /\ b \in Int
    BY DEF Test
  <2> HIDE DEF a, b
  <2>3. a + b \in Int
    BY <2>2
  <2>4. ServerBonus(x, t) \in {0, a + b}
    BY <2>1 DEF a, b
  <2>5. QED
    BY <2>3, <2>4
<1>5. QED
  BY <1>3, <1>4 DEF ServerPoints

\* The balls a side is charged with are a number.
LEMMA BallsTyped ==
    ASSUME NEW x, Readable(x), NEW t \in Teams
    PROVE  ServerBalls(x, t) \in Nat
<1>1. InningsStats(x, t) \in Figures /\ InningsStats(x, Other(x, t)) \in Figures
  BY OtherIsATeam, InningsTyped
<1>2. AllottedBalls \in Nat
  BY SeasonAssumption
<1>3. QED
  BY <1>1, <1>2 DEF ServerBalls, Figures

\* The fixtures of a season are finitely many.
LEMMA FinitelyMany == ASSUME NEW fx, IsSeason(fx) PROVE IsFiniteSet(DOMAIN fx)
<1>1. IsFiniteSet(Regular)
  BY SeasonAssumption
<1>2. IsFiniteSet(Bracket)
  <2>1. IsFiniteSet({"qualifier_1"})
    BY FS_Singleton
  <2>2. IsFiniteSet({"qualifier_1"} \cup {"eliminator"})
    BY <2>1, FS_AddElement
  <2>3. IsFiniteSet(({"qualifier_1"} \cup {"eliminator"}) \cup {"qualifier_2"})
    BY <2>2, FS_AddElement
  <2>4. IsFiniteSet((({"qualifier_1"} \cup {"eliminator"}) \cup {"qualifier_2"}) \cup {"final"})
    BY <2>3, FS_AddElement
  <2>5. Bracket = (({"qualifier_1"} \cup {"eliminator"}) \cup {"qualifier_2"}) \cup {"final"}
    BY DEF Bracket
  <2>6. QED
    BY <2>4, <2>5
<1>3. IsFiniteSet(Regular \cup Bracket)
  BY <1>1, <1>2, FS_Union
<1>4. QED
  BY <1>3, FS_Subset DEF IsSeason

\* The points that discipline cases cost are a number.
LEMMA AdjustmentTyped ==
    ASSUME IsSeason(fixture), CasesInv, NEW fx, NEW t
    PROVE  Adjustment(fx, t) \in Int
<1> DEFINE deciding == {f \in DOMAIN cases \cap DOMAIN fx :
                            /\ fx[f].here /\ cases[f].team = t
                            /\ cases[f].status \in {"decided", "appealed", "final"}}
           v == [f \in deciding |-> cases[f].points]
<1>1. IsFiniteSet(deciding)
  <2>1. deciding \in SUBSET DOMAIN fixture
    BY DEF CasesInv
  <2> HIDE DEF deciding
  <2>2. QED
    BY <2>1, FinitelyMany, FS_Subset
<1>2. \A f \in deciding : cases[f].points \in Int
  BY DEF CasesInv
<1>3. Adjustment(fx, t) = SumFunction(v)
  BY DEF Adjustment
<1> HIDE DEF deciding
<1>4. DOMAIN v = deciding /\ \A f \in deciding : v[f] \in Int
  BY <1>2
<1> HIDE DEF v
<1>5. SumFunction(v) \in Int
  BY <1>1, <1>4, NumbersAddUp, SumTyped
<1>6. QED
  BY <1>3, <1>5

\* The server's row of a team is a row of a table, and that team's.
LEMMA ServerRowTyped ==
    ASSUME IsSeason(fixture), CasesInv,
           NEW fx, IsSeason(fx), \A f \in DOMAIN fx : Readable(fx[f]), NEW t \in Teams
    PROVE  IsTableRow(ServerRow(fx, t)) /\ ServerRow(fx, t).team = t
<1> DEFINE Against(f) == Other(fx[f], t)
           played == {f \in DOMAIN fx : ServerCounts(f, fx[f]) /\ Plays(fx[f], t)}
           rated == {f \in played : ServerRated(fx[f])}
           won == {f \in played : ServerWon(fx[f], t)}
           lost == {f \in played : ServerWon(fx[f], Against(f))}
           points == [f \in played |-> ServerPoints(fx[f], t)]
           for == [f \in rated |-> InningsStats(fx[f], t).runs]
           faced == [f \in rated |-> ServerBalls(fx[f], t)]
           against == [f \in rated |-> InningsStats(fx[f], Against(f)).runs]
           bowled == [f \in rated |-> ServerBalls(fx[f], Against(f))]
<1>1. ServerRow(fx, t) =
        [team |-> t, points |-> SumFunction(points) + Adjustment(fx, t),
         wins |-> Cardinality(won), losses |-> Cardinality(lost), for |-> SumFunction(for),
         faced |-> SumFunction(faced), against |-> SumFunction(against), bowled |-> SumFunction(bowled)]
  BY DEF ServerRow, Row
<1>2. /\ played \in SUBSET DOMAIN fx /\ rated \in SUBSET DOMAIN fx
      /\ won \in SUBSET DOMAIN fx /\ lost \in SUBSET DOMAIN fx
  OBVIOUS
<1>4. /\ DOMAIN points = played /\ DOMAIN for = rated /\ DOMAIN faced = rated
      /\ DOMAIN against = rated /\ DOMAIN bowled = rated
  OBVIOUS
<1>5. \A f \in played : points[f] \in Int
  BY PointsTyped
<1>6. ASSUME NEW f \in rated
      PROVE  for[f] \in Nat /\ faced[f] \in Nat /\ against[f] \in Nat /\ bowled[f] \in Nat
  <2>1. Readable(fx[f]) /\ Against(f) \in Teams
    BY OtherIsATeam
  <2> HIDE DEF Against
  <2>2. InningsStats(fx[f], t) \in Figures /\ InningsStats(fx[f], Against(f)) \in Figures
    BY <2>1, InningsTyped
  <2>3. ServerBalls(fx[f], t) \in Nat /\ ServerBalls(fx[f], Against(f)) \in Nat
    BY <2>1, BallsTyped
  <2>4. InningsStats(fx[f], t).runs \in Nat /\ InningsStats(fx[f], Against(f)).runs \in Nat
    BY <2>2 DEF Figures
  <2> HIDE DEF rated
  <2>5. QED
    BY <2>3, <2>4
<1> HIDE DEF played, rated, won, lost, points, for, faced, against, bowled
<1>7. /\ IsFiniteSet(played) /\ IsFiniteSet(rated) /\ IsFiniteSet(won) /\ IsFiniteSet(lost)
  BY <1>2, FinitelyMany, FS_Subset
<1>8. Cardinality(won) \in Nat /\ Cardinality(lost) \in Nat
  BY <1>7, FS_CardinalityType
<1>9. SumFunction(points) \in Int
  BY <1>4, <1>5, <1>7, NumbersAddUp, SumTyped
<1>10. SumFunction(for) \in Nat
  BY <1>4, <1>6, <1>7, NumbersAddUp, SumTyped
<1>11. SumFunction(faced) \in Nat
  BY <1>4, <1>6, <1>7, NumbersAddUp, SumTyped
<1>12. SumFunction(against) \in Nat
  BY <1>4, <1>6, <1>7, NumbersAddUp, SumTyped
<1>13. SumFunction(bowled) \in Nat
  BY <1>4, <1>6, <1>7, NumbersAddUp, SumTyped
<1>14. Adjustment(fx, t) \in Int
  BY AdjustmentTyped
<1>15. t \in Nat
  BY SeasonAssumption
<1>16. QED
  BY <1>1, <1>8, <1>9, <1>10, <1>11, <1>12, <1>13, <1>14, <1>15 DEF IsTableRow

\* The first four places of the table are teams.
LEMMA SeedsAreTeams ==
    ASSUME IsSeason(fixture), CasesInv,
           NEW fx, IsSeason(fx), \A f \in DOMAIN fx : Readable(fx[f]), NEW n \in 1 .. 4
    PROVE  SeasonStandingTeamIds(fx)[n] \in Teams
<1> DEFINE row == [t \in Teams |-> ServerRow(fx, t)]
<1>1. \A t \in Teams : IsTableRow(row[t]) /\ row[t].team = t
  BY ServerRowTyped
<1>2. {ServerRow(fx, t) : t \in Teams} = {row[t] : t \in Teams}
  OBVIOUS
<1>3. row = [t \in Teams |-> row[t]]
  OBVIOUS
<1> HIDE DEF row
<1>4. n \in 1 .. Cardinality(Teams)
  <2>1. IsFiniteSet(Teams) /\ Cardinality(Teams) >= 4
    BY SeasonAssumption
  <2>2. Cardinality(Teams) \in Nat
    BY <2>1, FS_CardinalityType
  <2>3. QED
    BY <2>1, <2>2
<1>5. Ordered({row[t] : t \in Teams})[n] \in Teams
  BY <1>1, <1>3, <1>4, OrderedTeams
<1>6. QED
  BY <1>2, <1>5 DEF SeasonStandingTeamIds

-----------------------------------------------------------------------------
(* Types *)

\* Every field of a fixture, and the deliveries its result comes from.
IsTyped(x) ==
    /\ x.home \in Teams /\ x.away \in Teams
    /\ x.status \in Statuses
    /\ {x.heldHome, x.heldAway, x.published, x.here, x.finalized, x.begun} \subseteq BOOLEAN
    /\ x.result # None =>
          /\ x.result.outcome \in Outcomes
          /\ (x.result.outcome = "win") = (x.result.winner \in Teams)
          /\ x.result.winner \in Teams \cup {Nobody}
          /\ \A side \in Sides : x.result.extras[side] \in Nat
    /\ x.ledger # None => IsEntry(x.ledger.entry) /\ x.ledger.home \in Teams /\ x.ledger.away \in Teams
    /\ x.status = "completed" => x.result # None \/ x.card # Blank

\* What every request keeps of the types.
TypesInv ==
    /\ competition \in Competitions
    /\ \A f \in DOMAIN fixture : IsTyped(fixture[f])
    /\ DOMAIN totals = Teams
    /\ desk # Idle => IsEntry(desk.entry)
    /\ requests \in 0 .. MaxRequests

\* A fixture with a scorecard and its types can be read.
LEMMA TypedReadable == \A x : IsScorecard(x.card) /\ IsTyped(x) => Readable(x)
BY DEF IsTyped, Readable

\* No team has the id that stands for none.
LEMMA NobodyIsNoTeam == Nobody \notin Teams
BY SeasonAssumption DEF Nobody

\* The result of an entry, in the terms of a fixture with two teams.
LEMMA EntryResult ==
    ASSUME NEW x, x.home \in Teams, x.away \in Teams, NEW e, IsResult(e)
    PROVE  /\ e.outcome \in Outcomes
           /\ (e.outcome = "win") = (TeamAt(x, e.winner) \in Teams)
           /\ TeamAt(x, e.winner) \in Teams \cup {Nobody}
<1>1. e.outcome \in Outcomes /\ (e.outcome = "win") = (e.winner \in Sides)
  BY DEF IsResult
<1>2. CASE e.winner = "home"
  BY <1>1, <1>2 DEF TeamAt, Sides
<1>3. CASE e.winner = "away"
  BY <1>1, <1>3 DEF TeamAt, Sides
<1>4. CASE e.winner # "home" /\ e.winner # "away"
  BY <1>1, <1>4, NobodyIsNoTeam DEF TeamAt, Sides
<1>5. QED
  BY <1>2, <1>3, <1>4

\* A recorded result names a team of the fixture when it was won, and only then.
IsTypedResult(r) ==
    /\ r # None
    /\ r.outcome \in Outcomes
    /\ (r.outcome = "win") = (r.winner \in Teams)
    /\ r.winner \in Teams \cup {Nobody}
    /\ \A side \in Sides : r.extras[side] \in Nat

LEMMA ResultTyped ==
    ASSUME NEW x, x.home \in Teams, x.away \in Teams, NEW e, IsEntry(e), NEW excluded
    PROVE  IsTypedResult(ResultOf(x, e, excluded))
<1> DEFINE r == ResultOf(x, e, excluded)
<1>1. /\ r.outcome = e.outcome /\ r.winner = TeamAt(x, e.winner)
      /\ \A side \in Sides : r.extras[side] = e.extras[side]
  BY DEF ResultOf
<1>2. r # None
  BY ResultNotNone
<1> HIDE DEF r
<1>3. IsResult(e) /\ \A side \in Sides : e.extras[side] \in Nat
  BY DEF IsEntry
<1>4. /\ e.outcome \in Outcomes
      /\ (e.outcome = "win") = (TeamAt(x, e.winner) \in Teams)
      /\ TeamAt(x, e.winner) \in Teams \cup {Nobody}
  BY <1>3, EntryResult
<1>5. IsTypedResult(r)
  BY <1>1, <1>2, <1>3, <1>4 DEF IsTypedResult
<1>6. QED
  BY <1>5 DEF r

\* A fixture as it is created.
LEMMA NewTyped ==
    ASSUME NEW home \in Teams, NEW away \in Teams, NEW published \in BOOLEAN
    PROVE  IsTyped(New(home, away, published))
BY DEF New, IsTyped, Statuses

\* A fixture that gets a result and a scorecard.
LEMMA RecordedTyped ==
    ASSUME NEW x, IsRow(x), IsTyped(x), NEW r, IsTypedResult(r), NEW card,
           NEW y, y = [x EXCEPT !.result = r, !.card = card, !.status = "completed",
                                !.finalized = TRUE]
    PROVE  IsTyped(y)
BY DEF IsTyped, IsTypedResult, IsRow, Fields, Statuses

\* A fixture with a result typed in.
LEMMA WithResultTyped ==
    ASSUME NEW x, IsRow(x), IsTyped(x), NEW e, IsEntry(e)
    PROVE  IsTyped(WithResult(x, e))
<1> DEFINE r == ResultOf(x, e, e.excluded)
           card == CardOf(x, e.card)
<1>1. IsTypedResult(r)
  BY ResultTyped DEF IsTyped
<1>2. WithResult(x, e) = [x EXCEPT !.result = r, !.card = card, !.status = "completed",
                                   !.finalized = TRUE]
  BY DEF WithResult
<1> HIDE DEF r, card
<1> DEFINE y == WithResult(x, e)
<1> HIDE DEF y
<1>3. IsTyped(y)
  BY <1>1, <1>2, RecordedTyped DEF y
<1>4. QED
  BY <1>3 DEF y

\* A fixture with its live match finalized.
LEMMA FinalizedTyped ==
    ASSUME NEW x, IsRow(x), IsTyped(x), x.ledger # None
    PROVE  IsTyped(Finalized(x))
<1> DEFINE ledger == x.ledger
           excluded == x.result # None /\ x.result.excluded
           ruled == ResultOf(ledger, ledger.entry, excluded)
           Extras(t) == IF Plays(ledger, t) THEN ruled.extras[SideOf(ledger, t)] ELSE 0
           extras == [home |-> Extras(x.home), away |-> Extras(x.away)]
           r == [ruled EXCEPT !.extras = extras]
           card == Rebuilt(x, ledger)
<1>1. IsEntry(ledger.entry) /\ ledger.home \in Teams /\ ledger.away \in Teams
  BY DEF IsTyped
<1>2. Finalized(x) = [x EXCEPT !.result = r, !.card = card, !.status = "completed",
                               !.finalized = TRUE]
  BY DEF Finalized
<1> HIDE DEF ledger, excluded, card
<1>3. IsTypedResult(ruled)
  BY <1>1, ResultTyped
<1>4. DOMAIN ruled = {"outcome", "winner", "first", "extras", "excluded"}
  BY DEF ResultOf
<1>5. ruled = [field \in {"outcome", "winner", "first", "extras", "excluded"} |-> ruled[field]]
  BY DEF ResultOf
<1> HIDE DEF ruled
<1>6. \A t : Extras(t) \in Nat
  BY <1>3 DEF IsTypedResult, SideOf, Sides
<1> HIDE DEF Extras
<1>7. \A side \in Sides : extras[side] \in Nat
  BY <1>6 DEF Sides
<1> HIDE DEF extras
<1>8. /\ DOMAIN r = {"outcome", "winner", "first", "extras", "excluded"}
      /\ r.outcome = ruled.outcome /\ r.winner = ruled.winner /\ r.extras = extras
  BY <1>5
<1> HIDE DEF r
<1>9. r # None
  <2>1. "outcome" \in DOMAIN r /\ "outcome" \notin DOMAIN None
    BY <1>8 DEF None
  <2>2. QED
    BY <2>1
<1>10. IsTypedResult(r)
  BY <1>3, <1>7, <1>8, <1>9 DEF IsTypedResult
<1>11. QED
  <2> DEFINE y == Finalized(x)
  <2>1. y = [x EXCEPT !.result = r, !.card = card, !.status = "completed",
                      !.finalized = TRUE]
    BY <1>2
  <2> HIDE DEF y
  <2>2. IsTyped(y)
    BY <1>10, <2>1, RecordedTyped
  <2>3. QED
    BY <2>2 DEF y

\* A source names a team or nobody.
LEMMA SourceTyped ==
    ASSUME IsSeason(fixture), CasesInv,
           NEW fx, IsSeason(fx), \A f \in DOMAIN fx : Readable(fx[f]) /\ IsTyped(fx[f]),
           NEW f \in Bracket, NEW side \in Sides
    PROVE  TeamIdFromSource(fx, Source[f][side]) \in Teams \cup {Nobody}
<1> DEFINE s == Source[f][side]
<1>1. \/ s.kind = "standing" /\ s.of \in 1 .. 4
      \/ s.kind \in {"winner", "loser"}
  BY DEF Source, Standing, WinnerOf, LoserOf, Bracket, Sides
<1> HIDE DEF s
<1>2. CASE s.kind = "standing"
  <2>1. s.of \in 1 .. 4
    BY <1>1, <1>2
  <2>2. SeasonStandingTeamIds(fx)[s.of] \in Teams
    BY <2>1, SeedsAreTeams
  <2>3. TeamIdFromSource(fx, s) \in {SeasonStandingTeamIds(fx)[s.of], Nobody}
    BY <1>2 DEF TeamIdFromSource
  <2>4. TeamIdFromSource(fx, s) \in Teams \cup {Nobody}
    BY <2>2, <2>3
  <2>5. QED
    BY <2>4 DEF s
<1>3. CASE s.kind # "standing" /\ s.of \notin DOMAIN fx
  BY <1>3 DEF TeamIdFromSource, s
<1>4. CASE s.kind # "standing" /\ s.of \in DOMAIN fx
  <2> DEFINE x == fx[s.of]
  <2>1. IsTyped(x)
    BY <1>4
  <2>2. Winner(x) \in Teams \cup {Nobody} /\ Other(x, Winner(x)) \in Teams
    BY <2>1 DEF IsTyped, Winner, Other
  <2>3. TeamIdFromSource(fx, s) \in {Winner(x), Other(x, Winner(x)), Nobody}
    <3>1. CASE Winner(x) # Nobody /\ s.kind = "winner"
      BY <1>4, <3>1 DEF TeamIdFromSource
    <3>2. CASE Winner(x) # Nobody /\ s.kind = "loser" /\ Plays(x, Winner(x))
      BY <1>4, <3>2 DEF TeamIdFromSource
    <3>3. CASE ~(Winner(x) # Nobody /\ s.kind = "winner")
               /\ ~(Winner(x) # Nobody /\ s.kind = "loser" /\ Plays(x, Winner(x)))
      BY <1>4, <3>3 DEF TeamIdFromSource
    <3>4. QED
      BY <3>1, <3>2, <3>3
  <2> HIDE DEF x
  <2>4. TeamIdFromSource(fx, s) \in Teams \cup {Nobody}
    BY <2>2, <2>3
  <2>5. QED
    BY <2>4 DEF s
<1>5. QED
  BY <1>2, <1>3, <1>4

\* A playoff fixture after its teams were synchronised.
LEMMA SeededTyped ==
    ASSUME NEW x, IsRow(x), IsTyped(x), NEW home \in Teams \cup {Nobody},
           NEW away \in Teams \cup {Nobody}, NEW free
    PROVE  IsTyped(Seeded(x, home, away, free))
<1> DEFINE y == Seeded(x, home, away, free)
<1>1. /\ y.home \in Teams /\ y.away \in Teams
      /\ y.status = x.status /\ y.result = x.result /\ y.card = x.card /\ y.ledger = x.ledger
      /\ y.published = x.published /\ y.here = x.here
      /\ y.finalized = x.finalized /\ y.begun = x.begun
  BY NobodyIsNoTeam DEF Seeded, IsTyped, IsRow, Fields
<1>2. y.heldHome \in BOOLEAN /\ y.heldAway \in BOOLEAN
  BY DEF Seeded, IsTyped, IsRow, Fields
<1> HIDE DEF y
<1>3. IsTyped(y)
  BY <1>1, <1>2 DEF IsTyped
<1>4. QED
  BY <1>3 DEF y

\* A season after its bracket was synchronised.
LEMMA SyncedTyped ==
    ASSUME IsSeason(fixture), CasesInv,
           NEW fx, IsSeason(fx), \A f \in DOMAIN fx : Readable(fx[f]) /\ IsTyped(fx[f]),
           NEW here, NEW free
    PROVE  LET gx == SyncPlayoffFixtureTeams(fx, here, free)
           IN  DOMAIN gx = DOMAIN fx /\ \A f \in DOMAIN fx : IsTyped(gx[f])
<1> DEFINE gx == SyncPlayoffFixtureTeams(fx, here, free)
           Home(f) == TeamIdFromSource(fx, Source[f].home)
           Away(f) == TeamIdFromSource(fx, Source[f].away)
<1>1. DOMAIN gx = DOMAIN fx
  BY SyncedSeason
<1>2. \A f \in DOMAIN fx :
          \/ gx[f] = fx[f]
          \/ f \notin Regular /\ gx[f] = Seeded(fx[f], Home(f), Away(f), f \in free)
  BY SyncedBracket
<1>3. ASSUME NEW f \in DOMAIN fx \ Regular
      PROVE  Home(f) \in Teams \cup {Nobody} /\ Away(f) \in Teams \cup {Nobody}
  <2>1. f \in Bracket /\ "home" \in Sides /\ "away" \in Sides
    BY DEF IsSeason, Sides
  <2>2. TeamIdFromSource(fx, Source[f]["home"]) \in Teams \cup {Nobody}
    BY <2>1, SourceTyped
  <2>3. TeamIdFromSource(fx, Source[f]["away"]) \in Teams \cup {Nobody}
    BY <2>1, SourceTyped
  <2>4. QED
    BY <2>2, <2>3
<1> HIDE DEF gx, Home, Away
<1>4. ASSUME NEW f \in DOMAIN fx
      PROVE  IsTyped(gx[f])
  <2>1. CASE gx[f] = fx[f]
    BY <2>1
  <2>2. CASE f \notin Regular /\ gx[f] = Seeded(fx[f], Home(f), Away(f), f \in free)
    <3>1. IsRow(fx[f]) /\ IsTyped(fx[f])
      BY DEF IsSeason
    <3>2. Home(f) \in Teams \cup {Nobody} /\ Away(f) \in Teams \cup {Nobody}
      BY <1>3, <2>2
    <3>3. IsTyped(Seeded(fx[f], Home(f), Away(f), f \in free))
      BY <3>1, <3>2, SeededTyped
    <3>4. QED
      BY <2>2, <3>3
  <2>3. QED
    BY <1>2, <2>1, <2>2
<1>5. QED
  BY <1>1, <1>4 DEF gx

\* What no request changes, and what each adds.
LEMMA CountersStep ==
    ASSUME TypesInv, [Next]_vars
    PROVE  /\ competition' = competition /\ requests' \in 0 .. MaxRequests
           /\ DOMAIN totals' = Teams
<1>1. \A name : Request(name) => competition' = competition /\ requests' \in 0 .. MaxRequests
  <2>1. requests \in 0 .. MaxRequests /\ MaxRequests \in Nat
    BY SeasonAssumption DEF TypesInv
  <2>2. QED
    BY <2>1 DEF Request
<1>2. \A name : AtDesk(name) => competition' = competition /\ requests' \in 0 .. MaxRequests
  BY <1>1 DEF AtDesk
<1>3. \A fx, ts : RecomputePlayerCareerStats(fx, ts) => DOMAIN totals' = Teams
  BY DEF RecomputePlayerCareerStats
<1>4. DOMAIN totals = Teams /\ requests \in 0 .. MaxRequests
  BY DEF TypesInv
<1>5. CASE PublishDrafts
  BY <1>2, <1>4, <1>5 DEF PublishDrafts
<1>6. CASE CreatePlayoffFixtures
  BY <1>2, <1>4, <1>6 DEF CreatePlayoffFixtures
<1>7. CASE CommitMatchResult
  BY <1>3, <1>4, <1>7 DEF CommitMatchResult
<1>8. CASE RecomputeAllPlayers
  BY <1>2, <1>3, <1>8 DEF RecomputeAllPlayers
<1>9. ASSUME NEW fs, BulkCancelMatches(fs)
      PROVE  /\ competition' = competition /\ requests' \in 0 .. MaxRequests /\ DOMAIN totals' = Teams
  BY <1>2, <1>4, <1>9 DEF BulkCancelMatches
<1>10. ASSUME NEW f, \/ \E e : SetMatchResult(f, e)
                     \/ \E d : DecideDisciplineCase(f, d)
                     \/ StartScoring(f)
                     \/ \E e : PlayMatch(f, e)
       PROVE  /\ competition' = competition /\ requests' \in 0 .. MaxRequests /\ DOMAIN totals' = Teams
  BY <1>1, <1>2, <1>4, <1>10 DEF SetMatchResult, DecideDisciplineCase, StartScoring, PlayMatch
<1>11. ASSUME NEW f, NEW change, UpdateMatch(f, change)
       PROVE  /\ competition' = competition /\ requests' \in 0 .. MaxRequests /\ DOMAIN totals' = Teams
  BY <1>2, <1>3, <1>4, <1>11 DEF UpdateMatch
<1>12. ASSUME NEW f, FinalizeLiveMatchResult(f)
       PROVE  /\ competition' = competition /\ requests' \in 0 .. MaxRequests /\ DOMAIN totals' = Teams
  BY <1>2, <1>3, <1>12 DEF FinalizeLiveMatchResult
<1>13. ASSUME NEW f, NEW status, CallOff(f, status)
       PROVE  /\ competition' = competition /\ requests' \in 0 .. MaxRequests /\ DOMAIN totals' = Teams
  BY <1>2, <1>3, <1>4, <1>13 DEF CallOff
<1>14. ASSUME NEW f, ResetLiveTestMatch(f)
       PROVE  /\ competition' = competition /\ requests' \in 0 .. MaxRequests /\ DOMAIN totals' = Teams
  BY <1>2, <1>3, <1>14 DEF ResetLiveTestMatch
<1>15. CASE UNCHANGED vars
  BY <1>4, <1>15 DEF vars
<1>16. QED
  BY <1>5, <1>6, <1>7, <1>8, <1>9, <1>10, <1>11, <1>12, <1>13, <1>14, <1>15 DEF Next

\* A case stays the case of a fixture, with one point.
LEMMA CasesStep ==
    ASSUME SeasonInv, CasesInv, [Next]_vars
    PROVE  CasesInv'
<1>1. IsSeason(fixture)
  BY DEF SeasonInv
<1>2. ASSUME cases' = cases, DOMAIN fixture \subseteq DOMAIN fixture'
      PROVE  CasesInv'
  BY <1>2 DEF CasesInv
<1>3. \A f, row : fixture' = [fixture EXCEPT ![f] = row] => DOMAIN fixture' = DOMAIN fixture
  OBVIOUS
<1>4. CASE PublishDrafts
  <2>1. DOMAIN fixture' = DOMAIN fixture
    BY <1>1, <1>4, PublishedSeason
  <2>2. QED
    BY <1>2, <1>4, <2>1 DEF PublishDrafts
<1>5. CASE CreatePlayoffFixtures
  <2>1. PICK fx : /\ IsSeason(fx) /\ fixture' = SyncPlayoffFixtureTeams(fx, TRUE, Bracket)
                  /\ DOMAIN fixture \subseteq DOMAIN fx \cap Regular
    BY <1>1, <1>5, CreatedBracket
  <2>2. DOMAIN fixture' = DOMAIN fx
    BY <2>1 DEF SyncPlayoffFixtureTeams
  <2>3. cases' = cases
    BY <1>5 DEF CreatePlayoffFixtures
  <2>4. QED
    BY <1>2, <2>1, <2>2, <2>3
<1>6. CASE CommitMatchResult
  <2> DEFINE row == WithResult(fixture[desk.match], desk.entry)
             saved == [fixture EXCEPT ![desk.match] = row]
  <2>1. /\ desk # Idle /\ cases' = cases
        /\ fixture' = SyncPlayoffFixtureTeams(saved, saved[desk.match].here, desk.free)
    BY <1>6 DEF CommitMatchResult
  <2>2. desk.match \in DOMAIN fixture /\ IsRow(fixture[desk.match])
    BY <2>1 DEF SeasonInv, IsSeason
  <2>3. IsRow(row)
    BY <2>2, WithResultRow
  <2> HIDE DEF row
  <2>4. IsSeason(saved) /\ DOMAIN saved = DOMAIN fixture
    BY <1>1, <2>2, <2>3, ChangedSeason
  <2> HIDE DEF saved
  <2>5. DOMAIN fixture' = DOMAIN fixture
    BY <2>1, <2>4, SyncedSeason
  <2>6. QED
    BY <1>2, <2>1, <2>5
<1>7. CASE RecomputeAllPlayers
  BY <1>2, <1>7 DEF RecomputeAllPlayers
<1>8. CASE \E fs \in SUBSET (DOMAIN fixture \cap Worked) \ {{}} : BulkCancelMatches(fs)
  <2>1. PICK fs : BulkCancelMatches(fs)
    BY <1>8
  <2>2. /\ fixture' = [f \in DOMAIN fixture \ fs |-> fixture[f]]
        /\ cases' = [f \in DOMAIN cases \ fs |-> cases[f]]
    BY <2>1 DEF BulkCancelMatches
  <2>3. QED
    BY <2>2 DEF CasesInv
<1>9. ASSUME NEW f \in DOMAIN fixture, NEW d, DecideDisciplineCase(f, d)
      PROVE  CasesInv'
  <2> DEFINE case == [status |-> d.status, team |-> TeamAt(fixture[f], d.side), points |-> -1]
  <2>1. /\ cases' = [g \in DOMAIN cases \cup {f} |-> IF g = f THEN case ELSE cases[g]]
        /\ DOMAIN fixture' = DOMAIN fixture
    BY <1>1, <1>9 DEF DecideDisciplineCase
  <2>2. case.points = -1
    OBVIOUS
  <2> HIDE DEF case
  <2>3. /\ DOMAIN cases' = DOMAIN cases \cup {f}
        /\ \A g \in DOMAIN cases' : cases'[g] = IF g = f THEN case ELSE cases[g]
    BY <2>1
  <2>4. QED
    BY <2>1, <2>2, <2>3 DEF CasesInv
<1>10. ASSUME NEW f \in DOMAIN fixture,
              \/ \E e \in Entries : SetMatchResult(f, e)
              \/ \E change \in Changes : UpdateMatch(f, change)
              \/ StartScoring(f)
              \/ \E e \in LiveEntries : PlayMatch(f, e)
              \/ \E status \in {"abandoned", "cancelled"} : CallOff(f, status)
              \/ ResetLiveTestMatch(f)
       PROVE  CasesInv'
  <2>1. DOMAIN fixture' = DOMAIN fixture /\ cases' = cases
    BY <1>1, <1>10 DEF SetMatchResult, UpdateMatch, StartScoring, PlayMatch, CallOff,
       ResetLiveTestMatch, IsSeason
  <2>2. QED
    BY <1>2, <2>1
<1>11. ASSUME NEW f \in DOMAIN fixture, FinalizeLiveMatchResult(f)
       PROVE  CasesInv'
  <2> DEFINE row == Finalized(fixture[f])
             saved == [fixture EXCEPT ![f] = row]
  <2>1. cases' = cases /\ fixture' = SyncPlayoffFixtureTeams(saved, saved[f].here, Free(saved))
    BY <1>11 DEF FinalizeLiveMatchResult
  <2>2. IsRow(row)
    BY <1>1, FinalizedRow DEF IsSeason
  <2> HIDE DEF row
  <2>3. IsSeason(saved) /\ DOMAIN saved = DOMAIN fixture
    BY <1>1, <2>2, ChangedSeason
  <2> HIDE DEF saved
  <2>4. DOMAIN fixture' = DOMAIN fixture
    BY <2>1, <2>3, SyncedSeason
  <2>5. QED
    BY <1>2, <2>1, <2>4
<1>12. CASE UNCHANGED vars
  BY <1>2, <1>12 DEF vars
<1>13. QED
  BY <1>4, <1>5, <1>6, <1>7, <1>8, <1>9, <1>10, <1>11, <1>12 DEF Next

\* A season with one fixture exchanged for another of the same form.
LEMMA ChangedTyped ==
    ASSUME IsSeason(fixture), \A g \in DOMAIN fixture : IsTyped(fixture[g]),
           NEW f \in DOMAIN fixture, NEW row, IsRow(row), IsTyped(row)
    PROVE  LET gx == [fixture EXCEPT ![f] = row]
           IN  IsSeason(gx) /\ \A g \in DOMAIN gx : IsTyped(gx[g])
<1> DEFINE gx == [fixture EXCEPT ![f] = row]
<1>1. /\ IsSeason(gx) /\ DOMAIN gx = DOMAIN fixture /\ gx[f] = row
      /\ \A g \in DOMAIN fixture \ {f} : gx[g] = fixture[g]
  BY ChangedSeason
<1> HIDE DEF gx
<1>2. \A g \in DOMAIN gx : IsTyped(gx[g])
  BY <1>1
<1>3. QED
  BY <1>1, <1>2 DEF gx

\* A fixture that is changed.
LEMMA ChangeTyped ==
    ASSUME NEW x, IsRow(x), IsTyped(x), NEW change \in Changes
    PROVE  LET next == Changed(x, change)
           IN  /\ next.status # "completed" => IsTyped(next)
               /\ next.status # "completed" =>
                      IsTyped([next EXCEPT !.result = None, !.card = Blank, !.finalized = FALSE])
               /\ x.status = "completed" \/ HasScorecard(x) =>
                      IsTyped([next EXCEPT !.finalized = TRUE])
<1> DEFINE next == Changed(x, change)
<1>1. IsRow(next) /\ \A field \in Fields : next[field] =
                        IF field \in DOMAIN change THEN change[field] ELSE x[field]
  BY ChangedRow
<1>2. /\ DOMAIN change \subseteq {"home", "away", "status", "published", "here"}
      /\ "home" \in DOMAIN change => change.home \in Teams
      /\ "away" \in DOMAIN change => change.away \in Teams
      /\ "status" \in DOMAIN change => change.status \in Statuses
      /\ "published" \in DOMAIN change => change.published \in BOOLEAN
      /\ "here" \in DOMAIN change => change.here \in BOOLEAN
  BY ChangeAssumption DEF Sides
<1> HIDE DEF next
<1>3. /\ next.card = x.card /\ next.ledger = x.ledger /\ next.result = x.result
      /\ next.heldHome = x.heldHome /\ next.heldAway = x.heldAway
      /\ next.finalized = x.finalized /\ next.begun = x.begun
  BY <1>1, <1>2 DEF Fields
<1>4. next.home \in Teams /\ next.away \in Teams /\ next.status \in Statuses
  BY <1>1, <1>2 DEF Fields, IsTyped
<1>5. next.published \in BOOLEAN /\ next.here \in BOOLEAN
  BY <1>1, <1>2 DEF Fields, IsTyped
<1>6. next.status # "completed" => IsTyped(next)
  BY <1>3, <1>4, <1>5 DEF IsTyped
<1>7. next.status # "completed" =>
          IsTyped([next EXCEPT !.result = None, !.card = Blank, !.finalized = FALSE])
  BY <1>1, <1>6 DEF IsTyped, IsRow, Fields
<1>8. ASSUME x.status = "completed" \/ HasScorecard(x)
      PROVE  IsTyped([next EXCEPT !.finalized = TRUE])
  <2>1. x.result # None \/ x.card # Blank
    BY <1>8 DEF IsTyped, HasScorecard
  <2> DEFINE y == [next EXCEPT !.finalized = TRUE]
  <2>2. /\ y.home = next.home /\ y.away = next.away /\ y.status = next.status
        /\ y.heldHome = next.heldHome /\ y.heldAway = next.heldAway /\ y.here = next.here
        /\ y.published = next.published /\ y.finalized = TRUE /\ y.begun = next.begun
        /\ y.result = next.result /\ y.card = next.card /\ y.ledger = next.ledger
    BY <1>1 DEF IsRow, Fields
  <2> HIDE DEF y
  <2>3. IsTyped(y)
    BY <1>3, <1>4, <1>5, <2>1, <2>2 DEF IsTyped
  <2>4. QED
    BY <2>3 DEF y
<1>9. QED
  BY <1>6, <1>7, <1>8 DEF next

\* The other rows the requests make of a fixture.
LEMMA ScoredTyped ==
    ASSUME NEW x, IsRow(x), IsTyped(x)
    PROVE  /\ \A published \in BOOLEAN : IsTyped([x EXCEPT !.published = published])
           /\ IsTyped([x EXCEPT !.begun = TRUE])
           /\ \A status \in {"abandoned", "cancelled"} : \A card :
                  IsTyped([x EXCEPT !.status = status, !.finalized = FALSE, !.card = card])
           /\ IsTyped([x EXCEPT !.status = "scheduled", !.finalized = FALSE, !.result = None,
                                !.card = Blank, !.ledger = None])
<1>1. \A published \in BOOLEAN : IsTyped([x EXCEPT !.published = published])
  BY DEF IsTyped, IsRow, Fields
<1>2. IsTyped([x EXCEPT !.begun = TRUE])
  BY DEF IsTyped, IsRow, Fields
<1>3. \A status \in {"abandoned", "cancelled"} : \A card :
          IsTyped([x EXCEPT !.status = status, !.finalized = FALSE, !.card = card])
  BY DEF IsTyped, IsRow, Fields, Statuses
<1>4. IsTyped([x EXCEPT !.status = "scheduled", !.finalized = FALSE, !.result = None,
                        !.card = Blank, !.ledger = None])
  BY DEF IsTyped, IsRow, Fields, Statuses
<1>5. QED
  BY <1>1, <1>2, <1>3, <1>4

LEMMA LiveTyped ==
    ASSUME NEW x, IsRow(x), IsTyped(x), NEW card, NEW ledger,
           IsEntry(ledger.entry), ledger.home \in Teams, ledger.away \in Teams
    PROVE  IsTyped([x EXCEPT !.status = "live", !.ledger = ledger, !.card = card])
BY DEF IsTyped, IsRow, Fields, Statuses

\* A result that the discipline committee sets.
LEMMA RuledTyped ==
    ASSUME NEW x, IsRow(x), IsTyped(x), NEW e, IsResult(e), NEW first, NEW excluded,
           NEW extras, \A side \in Sides : extras[side] \in Nat
    PROVE  LET ruled == [outcome |-> e.outcome, winner |-> TeamAt(x, e.winner), first |-> first,
                         extras |-> extras, excluded |-> excluded]
           IN  IsTyped([x EXCEPT !.result = ruled, !.status = "completed"])
<1> DEFINE ruled == [outcome |-> e.outcome, winner |-> TeamAt(x, e.winner), first |-> first,
                     extras |-> extras, excluded |-> excluded]
<1>1. ruled # None
  <2>1. "outcome" \in DOMAIN ruled /\ "outcome" \notin DOMAIN None
    BY DEF None
  <2>2. QED
    BY <2>1
<1>2. /\ ruled.outcome \in Outcomes
      /\ (ruled.outcome = "win") = (ruled.winner \in Teams)
      /\ ruled.winner \in Teams \cup {Nobody}
      /\ \A side \in Sides : ruled.extras[side] \in Nat
  BY EntryResult DEF IsTyped
<1> HIDE DEF ruled
<1>3. IsTyped([x EXCEPT !.result = ruled, !.status = "completed"])
  BY <1>1, <1>2 DEF IsTyped, IsRow, Fields, Statuses
<1>4. QED
  BY <1>3 DEF ruled

\* Seasons start with fixtures between teams.
LEMMA InitTypes == Init => TypesInv /\ CasesInv
<1> SUFFICES ASSUME Init PROVE TypesInv /\ CasesInv
  OBVIOUS
<1>1. PICK start \in [Regular -> Played] :
          fixture = [f \in Regular |->
              IF start[f] = None THEN New(Pairing[f][1], Pairing[f][2], f \notin Drafts)
              ELSE WithResult(New(Pairing[f][1], Pairing[f][2], f \notin Drafts), start[f])]
  BY DEF Init
<1>2. ASSUME NEW f \in Regular PROVE IsTyped(fixture[f])
  <2> DEFINE x == New(Pairing[f][1], Pairing[f][2], f \notin Drafts)
  <2>1. IsRow(x)
    BY DEF New, IsRow, Fields
  <2>2. IsTyped(x)
    <3>1. (f \notin Drafts) \in BOOLEAN
      OBVIOUS
    <3>2. QED
      BY <3>1, PairsOfTeams, NewTyped
  <2>3. fixture[f] = IF start[f] = None THEN x ELSE WithResult(x, start[f])
    BY <1>1
  <2> HIDE DEF x
  <2>4. start[f] # None => IsEntry(start[f])
    BY EntryAssumption
  <2>5. QED
    BY <2>1, <2>2, <2>3, <2>4, WithResultTyped
<1>3. /\ competition \in Competitions /\ DOMAIN fixture = Regular /\ DOMAIN totals = Teams
      /\ cases = [f \in {} |-> None] /\ desk = Idle /\ requests = 0
  BY <1>1 DEF Init
<1>4. TypesInv
  <2>1. 0 \in 0 .. MaxRequests
    <3>1. MaxRequests \in Nat
      BY SeasonAssumption
    <3>2. QED
      BY <3>1, SMTT(30)
  <2>2. \A f \in DOMAIN fixture : IsTyped(fixture[f])
    BY <1>2, <1>3
  <2>3. QED
    BY <1>3, <2>1, <2>2 DEF TypesInv
<1>5. CasesInv
  BY <1>3 DEF CasesInv
<1>6. QED
  BY <1>4, <1>5

\* Every request leaves fixtures between teams.
LEMMA TypesStep ==
    ASSUME SeasonInv, CardsInv, CasesInv, TypesInv, [Next]_vars
    PROVE  TypesInv'
<1>1. /\ IsSeason(fixture)
      /\ \A f \in DOMAIN fixture : /\ IsFixture(f, fixture[f]) /\ IsRow(fixture[f])
                                   /\ IsTyped(fixture[f]) /\ Readable(fixture[f])
      /\ desk # Idle => desk.match \in DOMAIN fixture /\ IsCard(desk.entry.card) /\ IsEntry(desk.entry)
  BY TypedReadable DEF SeasonInv, CardsInv, IsSeason, TypesInv, IsFixture
<1>2. competition' = competition /\ requests' \in 0 .. MaxRequests /\ DOMAIN totals' = Teams
  BY CountersStep
<1>3. competition' \in Competitions
  BY <1>2 DEF TypesInv
<1>4. ASSUME desk' = desk \/ desk' = Idle, \A f \in DOMAIN fixture' : IsTyped(fixture'[f])
      PROVE  TypesInv'
  BY <1>1, <1>2, <1>3, <1>4 DEF TypesInv
<1>5. ASSUME NEW f \in DOMAIN fixture, NEW row, IsRow(row), IsTyped(row),
             fixture' = [fixture EXCEPT ![f] = row], desk' = desk
      PROVE  TypesInv'
  BY <1>1, <1>4, <1>5, ChangedTyped
<1>6. ASSUME NEW fx, IsSeason(fx), \A f \in DOMAIN fx : Readable(fx[f]) /\ IsTyped(fx[f]),
             NEW here, NEW free,
             fixture' = SyncPlayoffFixtureTeams(fx, here, free), desk' = desk \/ desk' = Idle
      PROVE  TypesInv'
  <2>1. \A f \in DOMAIN fixture' : IsTyped(fixture'[f])
    BY <1>1, <1>6, SyncedTyped
  <2>2. QED
    BY <1>4, <1>6, <2>1
<1>7. ASSUME NEW f \in DOMAIN fixture, NEW row, IsRow(row), IsTyped(row), IsFixture(f, row),
             NEW here, NEW free,
             fixture' = SyncPlayoffFixtureTeams([fixture EXCEPT ![f] = row], here, free),
             desk' = desk \/ desk' = Idle
      PROVE  TypesInv'
  <2> DEFINE saved == [fixture EXCEPT ![f] = row]
  <2>1. IsSeason(saved) /\ \A g \in DOMAIN saved : IsFixture(g, saved[g])
    BY <1>1, <1>7, ChangedCards
  <2>2. \A g \in DOMAIN saved : IsTyped(saved[g])
    BY <1>1, <1>7, ChangedTyped
  <2>3. fixture' = SyncPlayoffFixtureTeams(saved, here, free)
    BY <1>7
  <2> HIDE DEF saved
  <2>4. \A g \in DOMAIN saved : Readable(saved[g])
    BY <2>1, <2>2, TypedReadable DEF IsFixture
  <2>5. QED
    BY <1>6, <1>7, <2>1, <2>2, <2>3, <2>4
<1>8. CASE PublishDrafts
  <2> DEFINE here == TRUE
             seeded == SyncPlayoffFixtureTeams(fixture, here, Free(fixture))
             published(f) == seeded[f].published \/ seeded[f].here
  <2>1. /\ fixture' = [f \in DOMAIN seeded |-> [seeded[f] EXCEPT !.published = published(f)]]
        /\ desk' = desk
    BY <1>8 DEF PublishDrafts
  <2> HIDE DEF here
  <2>2. DOMAIN seeded = DOMAIN fixture /\ \A f \in DOMAIN fixture : IsTyped(seeded[f])
    BY <1>1, SyncedTyped
  <2>3. IsSeason(seeded)
    BY <1>1, SyncedSeason
  <2>4. \A f \in DOMAIN fixture : published(f) \in BOOLEAN
    OBVIOUS
  <2> HIDE DEF seeded, published
  <2>5. \A f \in DOMAIN fixture' : IsTyped(fixture'[f])
    BY <2>1, <2>2, <2>3, <2>4, ScoredTyped DEF IsSeason
  <2>6. QED
    BY <1>4, <2>1, <2>5
<1>9. CASE CreatePlayoffFixtures
  <2> DEFINE seeds == SeasonStandingTeamIds(fixture)
             Held(home, away) == [New(seeds[home], seeds[away], FALSE)
                                      EXCEPT !.heldHome = TRUE, !.heldAway = TRUE]
             bracket == [qualifier_1 |-> Held(1, 2), eliminator |-> Held(3, 4),
                         qualifier_2 |-> Held(1, 3), final |-> Held(1, 3)]
             fx == [f \in DOMAIN fixture \cup Bracket |->
                      IF f \in Bracket THEN bracket[f] ELSE fixture[f]]
  <2>1. fixture' = SyncPlayoffFixtureTeams(fx, TRUE, Bracket) /\ DOMAIN fixture \cap Bracket = {} /\ desk' = desk
    BY <1>9 DEF CreatePlayoffFixtures
  <2>2. \A n \in 1 .. 4 : seeds[n] \in Teams
    BY <1>1, SeedsAreTeams
  <2>3. ASSUME NEW home \in 1 .. 4, NEW away \in 1 .. 4
        PROVE  IsRow(Held(home, away)) /\ IsTyped(Held(home, away)) /\ Readable(Held(home, away))
    <3> DEFINE x == New(seeds[home], seeds[away], FALSE)
    <3>1. IsTyped(x)
      BY <2>2, NewTyped
    <3>2. IsRow(x) /\ x.card = Blank
      BY DEF New, IsRow, Fields
    <3>3. Held(home, away) = [x EXCEPT !.heldHome = TRUE, !.heldAway = TRUE]
      OBVIOUS
    <3> HIDE DEF x, Held
    <3>4. IsRow(Held(home, away)) /\ Held(home, away).card = Blank
      BY <3>2, <3>3 DEF IsRow, Fields
    <3>5. IsTyped(Held(home, away))
      BY <3>1, <3>2, <3>3 DEF IsTyped, IsRow, Fields
    <3>6. QED
      BY <3>4, <3>5, CardBlank, TypedReadable
  <2> HIDE DEF Held
  <2>4. 1 \in 1 .. 4 /\ 2 \in 1 .. 4 /\ 3 \in 1 .. 4 /\ 4 \in 1 .. 4
    OBVIOUS
  <2>5. \A f \in Bracket : IsRow(bracket[f]) /\ IsTyped(bracket[f]) /\ Readable(bracket[f])
    BY <2>3, <2>4 DEF Bracket
  <2> HIDE DEF bracket, seeds
  <2>6. /\ DOMAIN fx = DOMAIN fixture \cup Bracket
        /\ \A f \in DOMAIN fixture : fx[f] = fixture[f]
        /\ \A f \in Bracket : fx[f] = bracket[f]
        /\ fx = [f \in DOMAIN fx |-> fx[f]]
    BY <2>1
  <2> HIDE DEF fx
  <2>7. IsSeason(fx)
    BY <1>1, <2>5, <2>6 DEF IsSeason
  <2>8. \A f \in DOMAIN fx : Readable(fx[f]) /\ IsTyped(fx[f])
    BY <1>1, <2>5, <2>6
  <2> DEFINE here == TRUE
  <2>9. fixture' = SyncPlayoffFixtureTeams(fx, here, Bracket)
    BY <2>1
  <2> HIDE DEF here
  <2>10. QED
    BY <1>6, <2>1, <2>7, <2>8, <2>9
<1>10. CASE CommitMatchResult
  <2> DEFINE row == WithResult(fixture[desk.match], desk.entry)
             here == [fixture EXCEPT ![desk.match] = row][desk.match].here
  <2>1. /\ desk # Idle /\ desk' = Idle
        /\ fixture' = SyncPlayoffFixtureTeams([fixture EXCEPT ![desk.match] = row], here, desk.free)
    BY <1>1, <1>10 DEF CommitMatchResult
  <2> HIDE DEF here
  <2>2. IsRow(row) /\ IsFixture(desk.match, row)
    BY <1>1, <2>1, WithResultRow, SavedCard
  <2>3. IsTyped(row)
    BY <1>1, <2>1, WithResultTyped
  <2> HIDE DEF row
  <2>4. QED
    BY <1>1, <1>7, <2>1, <2>2, <2>3
<1>11. CASE RecomputeAllPlayers
  BY <1>1, <1>4, <1>11 DEF RecomputeAllPlayers
<1>12. CASE \E fs \in SUBSET (DOMAIN fixture \cap Worked) \ {{}} : BulkCancelMatches(fs)
  <2>1. PICK fs : BulkCancelMatches(fs)
    BY <1>12
  <2>2. /\ DOMAIN fixture' = DOMAIN fixture \ fs
        /\ \A f \in DOMAIN fixture' : fixture'[f] = fixture[f]
    BY <1>1, <2>1, CancelledSeason
  <2>3. desk' = desk
    BY <2>1 DEF BulkCancelMatches
  <2>4. QED
    BY <1>1, <1>4, <2>2, <2>3
<1>13. ASSUME NEW f \in DOMAIN fixture, NEW e \in Entries, SetMatchResult(f, e)
       PROVE  TypesInv'
  <2>1. fixture' = fixture /\ desk'.entry = e
    BY <1>13 DEF SetMatchResult
  <2>2. IsEntry(e)
    <3>1. e \in (Played \ {None}) \cup Entries \cup LiveEntries
      OBVIOUS
    <3>2. QED
      BY <3>1, EntryAssumption
  <2>3. QED
    BY <1>1, <1>2, <1>3, <2>1, <2>2 DEF TypesInv
<1>14. ASSUME NEW f \in DOMAIN fixture, NEW change \in Changes, UpdateMatch(f, change)
       PROVE  TypesInv'
  <2> DEFINE x == fixture[f]
             next == Changed(x, change)
             reopened == [next EXCEPT !.result = None, !.card = Blank, !.finalized = FALSE]
             completed == [next EXCEPT !.finalized = TRUE]
  <2>1. IsRow(x) /\ IsTyped(x)
    BY <1>1
  <2>2. /\ desk' = desk
        /\ \/ /\ next.status # "completed" /\ fixture' = [fixture EXCEPT ![f] = next]
           \/ /\ next.status # "completed" /\ fixture' = [fixture EXCEPT ![f] = reopened]
           \/ /\ x.status = "completed" \/ HasScorecard(x)
              /\ fixture' = [fixture EXCEPT ![f] = completed]
    BY <1>14 DEF UpdateMatch
  <2> HIDE DEF x
  <2>3. /\ next.status # "completed" => IsTyped(next) /\ IsTyped(reopened)
        /\ x.status = "completed" \/ HasScorecard(x) => IsTyped(completed)
    BY <2>1, ChangeTyped
  <2>4. IsRow(next)
    BY <2>1, ChangedRow
  <2> HIDE DEF next
  <2>5. IsRow(reopened) /\ IsRow(completed)
    BY <2>4 DEF IsRow, Fields
  <2> HIDE DEF reopened, completed
  <2>6. QED
    BY <1>5, <2>2, <2>3, <2>4, <2>5
<1>15. ASSUME NEW f \in DOMAIN fixture, NEW d \in Decisions, DecideDisciplineCase(f, d)
       PROVE  TypesInv'
  <2>1. CASE d.override = None
    BY <1>1, <1>4, <1>15, <2>1 DEF DecideDisciplineCase
  <2>2. CASE d.override # None
    <3> DEFINE x == fixture[f]
               first == IF x.result = None THEN Nobody ELSE x.result.first
               extras == IF x.result = None THEN [side \in Sides |-> 0] ELSE x.result.extras
               ruled == [outcome |-> d.override.outcome, winner |-> TeamAt(x, d.override.winner),
                         first |-> first, extras |-> extras, excluded |-> d.override.excluded]
               row == [x EXCEPT !.result = ruled, !.status = "completed"]
    <3>1. /\ desk' = desk
          /\ fixture' = [fixture EXCEPT ![f].result = ruled, ![f].status = "completed"]
      BY <1>15, <2>2 DEF DecideDisciplineCase
    <3>2. IsResult(d.override)
      BY <2>2, EntryAssumption
    <3>3. \A side \in Sides : extras[side] \in Nat
      BY <1>1 DEF IsTyped
    <3>4. IsRow(x) /\ IsTyped(x)
      BY <1>1
    <3> DEFINE override == d.override
               excluded == d.override.excluded
    <3> HIDE DEF first, extras, x, override, excluded
    <3>5. IsResult(override)
      BY <3>2 DEF override
    <3>6. IsTyped([x EXCEPT !.result = [outcome |-> override.outcome,
                                        winner |-> TeamAt(x, override.winner), first |-> first,
                                        extras |-> extras, excluded |-> excluded],
                            !.status = "completed"])
      BY <3>3, <3>4, <3>5, RuledTyped
    <3>7. IsTyped(row)
      BY <3>6 DEF override, excluded
    <3> HIDE DEF ruled
    <3> USE DEF x
    <3>8. fixture' = [fixture EXCEPT ![f] = row]
      BY <1>1, <3>1 DEF IsSeason
    <3>9. IsRow(row)
      BY <1>1 DEF IsRow, Fields
    <3> HIDE DEF row
    <3>10. QED
      BY <1>5, <3>1, <3>7, <3>8, <3>9
  <2>3. QED
    BY <2>1, <2>2
<1>16. ASSUME NEW f \in DOMAIN fixture, StartScoring(f)
       PROVE  TypesInv'
  <2> DEFINE row == [fixture[f] EXCEPT !.begun = TRUE]
  <2>1. fixture' = [fixture EXCEPT ![f] = row] /\ desk' = desk
    BY <1>1, <1>16 DEF StartScoring, IsSeason
  <2>2. IsRow(row)
    BY <1>1 DEF IsRow, Fields
  <2>3. IsTyped(row)
    BY <1>1, ScoredTyped
  <2> HIDE DEF row
  <2>4. QED
    BY <1>5, <2>1, <2>2, <2>3
<1>17. ASSUME NEW f \in DOMAIN fixture, NEW e \in LiveEntries, PlayMatch(f, e)
       PROVE  TypesInv'
  <2> DEFINE x == fixture[f]
             ledger == IF x.ledger # None /\ {x.ledger.home, x.ledger.away} # {x.home, x.away}
                       THEN x.ledger ELSE Ledger(x, e)
             card == Rebuilt(x, ledger)
             row == [x EXCEPT !.status = "live", !.ledger = ledger, !.card = card]
  <2>1. fixture' = [fixture EXCEPT ![f] = row] /\ desk' = desk
    BY <1>1, <1>17 DEF PlayMatch, IsSeason
  <2>2. IsEntry(e)
    <3>1. e \in (Played \ {None}) \cup Entries \cup LiveEntries
      OBVIOUS
    <3>2. QED
      BY <3>1, EntryAssumption
  <2>3. IsEntry(ledger.entry) /\ ledger.home \in Teams /\ ledger.away \in Teams
    <3>1. IsTyped(x)
      BY <1>1
    <3> HIDE DEF x
    <3>2. QED
      BY <2>2, <3>1 DEF IsTyped, Ledger
  <2> HIDE DEF ledger, card
  <2>4. IsRow(row)
    BY <1>1 DEF IsRow, Fields
  <2>5. IsTyped(row)
    BY <1>1, <2>3, LiveTyped
  <2> HIDE DEF row
  <2>6. QED
    BY <1>5, <2>1, <2>4, <2>5
<1>18. ASSUME NEW f \in DOMAIN fixture, FinalizeLiveMatchResult(f)
       PROVE  TypesInv'
  <2> DEFINE row == Finalized(fixture[f])
             here == [fixture EXCEPT ![f] = row][f].here
             free == Free([fixture EXCEPT ![f] = row])
  <2>1. /\ fixture[f].ledger # None /\ desk' = desk
        /\ fixture' = SyncPlayoffFixtureTeams([fixture EXCEPT ![f] = row], here, free)
    BY <1>18 DEF FinalizeLiveMatchResult
  <2> HIDE DEF here, free
  <2>2. IsRow(row) /\ IsFixture(f, row)
    BY <1>1, <2>1, FinalizedRow, FinishedCard
  <2>3. IsTyped(row)
    BY <1>1, <2>1, FinalizedTyped
  <2> HIDE DEF row
  <2>4. QED
    BY <1>7, <2>1, <2>2, <2>3
<1>19. ASSUME NEW f \in DOMAIN fixture, NEW status \in {"abandoned", "cancelled"}, CallOff(f, status)
       PROVE  TypesInv'
  <2> DEFINE card == IF fixture[f].ledger = None THEN Blank ELSE Rebuilt(fixture[f], fixture[f].ledger)
             row == [fixture[f] EXCEPT !.status = status, !.finalized = FALSE, !.card = card]
  <2>1. fixture' = [fixture EXCEPT ![f] = row] /\ desk' = desk
    BY <1>19 DEF CallOff
  <2> HIDE DEF card
  <2>2. IsRow(row)
    BY <1>1 DEF IsRow, Fields
  <2>3. IsTyped(row)
    BY <1>1, ScoredTyped
  <2> HIDE DEF row
  <2>4. QED
    BY <1>5, <2>1, <2>2, <2>3
<1>20. ASSUME NEW f \in DOMAIN fixture, ResetLiveTestMatch(f)
       PROVE  TypesInv'
  <2> DEFINE row == [fixture[f] EXCEPT !.status = "scheduled", !.finalized = FALSE, !.result = None,
                                       !.card = Blank, !.ledger = None]
  <2>1. fixture' = [fixture EXCEPT ![f] = row] /\ desk' = desk
    BY <1>20 DEF ResetLiveTestMatch
  <2>2. IsRow(row)
    BY <1>1 DEF IsRow, Fields
  <2>3. IsTyped(row)
    BY <1>1, ScoredTyped
  <2> HIDE DEF row
  <2>4. QED
    BY <1>5, <2>1, <2>2, <2>3
<1>21. CASE UNCHANGED vars
  BY <1>1, <1>4, <1>21 DEF vars
<1>22. QED
  BY <1>8, <1>9, <1>10, <1>11, <1>12, <1>13, <1>14, <1>15, <1>16, <1>17, <1>18, <1>19, <1>20, <1>21
     DEF Next

\* Every fixture has two teams of the season, its result names one of the two or
\* nobody, and a completed one has a result or a scorecard; the seeding never
\* leaves a side of a playoff fixture empty (_season_standing_team_ids orders
\* the teams of any season, _sync_playoff_fixture_teams).
THEOREM TypeCorrect == Spec => []TypeOK
<1>1. SeasonInv /\ CasesInv /\ TypesInv => TypeOK
  BY DEF SeasonInv, IsSeason, CasesInv, TypesInv, IsTyped, TypeOK
<1>2. QED
  BY <1>1, InitCards, CardsStep, InitTypes, TypesStep, CasesStep, SeasonKeepsItsShape, PTL DEF Spec
=============================================================================
