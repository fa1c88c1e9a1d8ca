# TLA+ models of the NPL platform

TLA+ modules, TLC configurations and TLAPS proofs for the league platform in
this repository: the API (`src/api`), the admin dashboard (`src/admin`) and the
public website (`src/website`).  The models follow a match from the button on a
scorer's screen to the official result, the points table and the playoff
bracket, and the dashboard pages around it.

- [What is here](#what-is-here)
- [Inventory of the system](#inventory-of-the-system)
- [The modules and the code](#the-modules-and-the-code)
- [Runs](#runs)
- [Where the code and its documentation disagree](#where-the-code-and-its-documentation-disagree)
- [Proofs](#proofs)
- [Not modelled](#not-modelled)
- [Plan](#plan)

## What is here

| file | content |
|---|---|
| `ScoringServer.tla` | abstract specification: what the server promises a scoring screen |
| `LiveScoring.tla` | the server side of live scoring, one action per handler; implements `ScoringServer` |
| `ScoringOutbox.tla` | scoring screens, their outboxes and the network around `ScoringServer` |
| `OverControl.tla` | overs, strike and bowlers: the scoring screen's selection and the server's numbering |
| `InningsSheet.tla` | the figures of an innings as the server, the official scorecard, the screen and the website work them out |
| `SeasonDesk.tla` | the fixtures of a season: results, points tables, playoff bracket and career totals |
| `AdminPages.tla` | the pages of the admin dashboard over one cache of server answers |
| `MC*.tla`, `*.cfg` | TLC instances |
| `LiveScoringProofs.tla` | type correctness; the inductive invariant of the ledger and what is derived from it; one lease, versions, authorised writes, lock time |
| `LiveScoringRefinementProofs.tla` | `LiveScoring` implements `ScoringServer` |
| `ScoringOutboxProofs.tla` | screens and network: types, nothing lost, nothing reordered, no pause without a reason |
| `OverControlProofs.tla` | an innings: types, labels, bowlers of consecutive overs, strike, no pause without a reason |
| `InningsSheetProofs.tla` | the figures of an innings: score, batters, bowlers, the batters shown and the result, as the four programs work them out |
| `SeasonDeskProofs.tla` | a season: types, career totals, the bracket, the two points tables |
| `AdminPagesProofs.tla` | the dashboard's cache: every handler shows its writes |
| `NatLemmas.tla` | induction and recursion on naturals, sums, counts and orders over finite sets, with sets and functions as parameters |
| `PROJECT.json` | components, runs, mutants, source lines of every definition, findings, hazards, theorems |

    tlc -workers 2 -config LiveScoring_ledger.cfg MCLiveScoring
    tlc -workers 2 -config ScoringOutbox_retry.cfg MCScoringOutbox
    tlapm LiveScoringProofs.tla

## Inventory of the system

Every handler of the API is a synchronous function on a SQLAlchemy session:
PostgreSQL, isolation READ COMMITTED, `autoflush=False`
(`src/api/app/db/session.py`).  A handler that raises never commits.
Competing handlers are kept apart by row locks (`with_for_update`) where the
code takes one, and by nothing where it does not; that difference decides which
handlers below are hard.

| component | state | operations | hard behaviours | what makes it correct | model |
|---|---|---|---|---|---|
| **Live scoring server** (`admin_routes.py`) | match row (status, version, reconciled version, lock time, target), `match_ball_events`, squads, `match_player_stats`, `match_results`, career totals, `match_scoring_sessions` | acquire, renew, take over, release the lease; start, setup, conditions, squad; create, update, delete, undo a delivery; reconcile; finalise, call off; reset a test match | leases that lapse or are taken over while writes are prepared; retried deliveries; corrections after the finish; a rebuild with unflushed rows | one open lease; a version names one ledger; what is derived is what the ledger says; only the holder of the lease writes | `LiveScoring` |
| **Scoring screen and outbox** (`$matchId.tsx`, `scoring-outbox.ts`) | outbox in memory and in localStorage, lease token, cached live state, pause and flush flags | record, flush, poll and take over the lease, undo, correct or remove a queued delivery, sync | every await; lost requests and replies; late requests; reloads; two screens; two tabs of one browser | nothing recorded is lost, doubled or reordered; the outbox drains | `ScoringOutbox` |
| **Ball-by-ball rules and numbering** (`admin_routes.py`, `$matchId.tsx`) | over, ball and sequence numbers of the ledger; the selected batters and bowler, the over dialog | renumbering after each change; end of over and innings; who may bat and bowl | boundary cases of legal balls and over-complete overrides; screen and server each decide on their own list of deliveries | numbers and strike are a function of the deliveries; no bowler has two overs in a row | `OverControl` |
| **Figures of an innings** (`admin_routes.py`, `$matchId.tsx`, `LiveScorePanel.tsx`) | none: worked out from the deliveries | score, extras, batters, bowlers, partnerships, chase | four programs, each with its own reading of a no-ball, a bye, a penalty, a retirement | they agree, or differ by deliveries one can name | `InningsSheet` |
| **Match administration** (`admin_routes.py`) | matches, results, scorecards, discipline cases | publish, update, set result, bulk cancel, discipline decisions, recompute all totals | reads the match without its lock, so it interleaves with the scorer | a match keeps the teams of its deliveries; totals stay those of completed matches | `SeasonDesk` |
| **Scorecard edit requests** | `match_scorecard_edit_requests` | request, approve, deny | two requests or two decisions at once; approvals that run out | one decision per request; a locked scorecard changes only with an approval | in `LiveScoring`, one handler at a time |
| **Scorer assignment and users** | `match_scorer_assignments`, users | assign, create, deactivate, change role | two assignments at once; two super admins deactivating each other | at most one scorer per match; a super admin remains | assignment in `LiveScoring`, rest planned |
| **Playoff seeding and standings** (`admin_routes.py`, `leagueSeasonAggregates.ts`) | teams and sources of playoff fixtures; standings are computed, twice | create the bracket, resolve its sources after each result | a fixture that starts while it is reseeded; results corrected after the fixtures that depend on them | the bracket is seeded in the order the public sees, and follows the results | `SeasonDesk` |
| **Player career statistics** | totals per player | recompute | reads rows pending in the session | totals are those of completed matches | what one match adds in `LiveScoring`, who recomputes in `SeasonDesk` |
| **Season rosters, DLS, overs notation** | rosters; none | eligibility; par scores | real arithmetic | - | no |
| **Merchandise orders and stock** | variants, orders | order (locks), cancel and edit (do not) | stock read and written back | stock + ordered is constant | planned |
| **Fan notifications** | queue, deliveries, devices | enqueue with key, dispatch with skip-locked | a crash between gateway and commit | sent at least once, once unless a crash | planned |
| **Supporters, authentication, rate limit** | accounts, follows; tokens; windows | register, vote; login, refresh; allow | shared token refresh; window limits | - | rate limit planned |
| **Admin dashboard** (`src/admin/src/routes`) | the page on show, the query cache | sixty handlers over forty-four pages: write, invalidate, open the next page | an answer under way while a handler writes; a handler that awaits a refetch of a page that is gone; polls | a tab shows its own writes; saves end; polled pages catch up | `AdminPages` |
| **Articles, media, site pages, teams, leagues, seasons, players** | one row or file each | create, update, delete | - | referential checks | their pages, in `AdminPages` |
| **SEO redirects, public pages, link previews, operations** | one row each, or none | render | - | - | no |

Interactions: screens call the server over HTTP (the only message passing); the
administration, discipline, roster and playoff handlers share the match row and
its results with live scoring; finalising a match calls the career totals and
the playoff seeding inside its own transaction; the website reads what the API
publishes and works out scores and tables again; fan notifications are queued
from the matches and dispatched by a request of a super admin.

## The modules and the code

### LiveScoring: the server, for one match

State: `match` is the row of `matches`; `ledger` is `match_ball_events` in
sequence order; `squad`, `scorecard`, `result` and `sessions` are the rows of
`match_squad_players`, `match_player_stats`, `match_results` and
`match_scoring_sessions`; `career` is what this match adds to the stored career
totals; `scorers` is the assignment; `requests` the edit requests.

*Atomicity.*  Every scoring handler begins with `_lock_score_match`
(`SELECT ... FOR UPDATE` on the match) and commits once, so it runs entirely
before or after every other one: one action per handler.  A refused write is
rolled back completely, including the `expired` mark that
`_expire_session_if_needed` sets on the way, and is therefore no step at all;
the guards of an action are the conditions under which the handler reaches its
commit.  `BeginScoringWrite` is the shared preamble (permission and lock of the
scorecard, lease, version).  The edit-request handlers and the assignment lock
nothing; the model runs them one at a time, and their overlap is listed under
the hazards.

*What a write ends with.*  `ReconcileLiveScorecard` is the rebuild,
`FinalizeLiveMatchResult` the rebuild of a finished match with its official
result and career totals, `RebuildAfter` the choice between them after a change
of the ledger.  `SaveMatchDaySquad` passes the rebuild an empty eleven: the new
squad rows are pending when the rebuild queries them and the session does not
autoflush.

*Abstraction of data.*  A delivery is its `client_event_id` and the player it
credits, which is what the properties distinguish: whether the figures of a
player count the deliveries of the ledger.  A row of figures is one number, the
result is its figures plus the target it used.  Over labels, dismissals and
eligibility, toss and umpires are left out.  Conditions are two actions, as they
are two branches of the handler: `ClearLiveMatchConditions` takes back whatever
target was set, `SaveLiveMatchConditions` sets one.  Time is a clock of ticks; the
90-second lease, the two-hour lock delay and the two-hour approval are
`SessionLease`, `LockDelay` and `AccessWindow`.

### ScoringServer: the abstract server

A ledger, a version, the open lease, and who was issued which token.  It says
only what a screen relies on: a write needs the open lease, takes one version
and adds, changes or removes at most one delivery (or clears the ledger of a
test match); tokens are never reissued and a closed lease stays closed.
`LiveScoring!Server` instantiates it with the version of the match row, the
current unexpired session as lease, and the devices of the session rows;
`ImplementsServer` is the abstract specification itself.  A lease that lapses
is a step of the clock in `LiveScoring` and `CloseLease` here; an acquisition
that closes an expired row and opens a new one is `OpenLease`.

### ScoringOutbox: screens and network

`ScoringOutbox` extends `ScoringServer` and puts around its state the refs and
caches of each screen: `queue` (`outboxRef`), `storage` (localStorage, one per
browser), `token` (the last successful session poll), `seen` (the cached live
state: its version and the last delivery shown), `paused`, `flush` (the running
`flushDeliveryOutbox`: its copy of the queue, version and token), `correction`
(an edit of a queued delivery that awaits its GET).

`flushDeliveryOutbox` is split at its awaits: `StartFlush` (or `SyncQueued`) up
to the GET, `FlushLoaded` after it, `ServerHandlesPost` while the POST is out,
`BallAcknowledged` or `BallRefused` after the reply.  `FlushFails` is a failed
or lost request or reply, after which the server may still handle the request
(`wire`, `ServerHandlesLate`).  Corrections of queued deliveries are split at
their GET.  Undo is a request on the wire.  A reload keeps only localStorage.

Only deliveries and undos are posted by these screens: the other writes change
the version in the same way and are in `LiveScoring`.  The model does not
include a browser that refuses to store the outbox (private mode), in which a
reload loses it.  `history` remembers what operators did and what the server
accepted, `used` bounds the rare events; the code has no such state.

### OverControl: overs, strike and bowlers

State: `ledger` is `match_ball_events` with its labels, `queue` the outbox,
`data` the list of deliveries the screen shows (`liveQ.data.events` with the
queued ones), `key` is `lastHydratedEventKeyRef`, `pick` the selected striker,
non-striker and bowler, `ruling` the umpire's call of the next delivery,
`dialog` the new-over dialog, `paused` a delivery the server refused.
`history` counts the rare events and bounds them; `reset` remembers that a
fetch replaced the selection.

`RecordBall` is `submitBall` with all it calls (the label from
`nextDeliveryPosition`, the optimistic delivery, the selection after it, the
dialog), `SyncBall` one round of the flush: the server checks the bowler
(`BowlerAllowed`), numbers the ledger (`RenumberLiveEvents`) and the screen
puts the reply beside what still waits.  `Refetch` is a poll, after which the
effect `Hydrate` selects the players again when the last delivery is another
than the one it knows.  Undo, end and continuation of an over, corrections and
removals are requests whose reply replaces the list.

An innings has no wicket without a replacement and one innings is in progress:
who comes in is chosen from those not out.  Buttons behind a dialog are taken as
usable only as the code disables them.  `CorrectQueuedBowler` is the dialog that
edits a delivery still in the outbox: a new bowler goes to the later queued
deliveries of that over as well (`ReplaceQueuedScoringBall`), scoring need not
be paused for it, and what the server has of the over before is what it checks.
Lost requests and several screens are
`ScoringOutbox`'s.

### InningsSheet: one innings, four programs

State: `events`, the deliveries of the match with the fields each program
reads; `innings` and `pick`, the screen's selection; `revised`, the revised
target.  `Delivery` is what the buttons and dialogs of the screen put into a
request: the run and extras buttons (`Hits`, `Extras`), the short-run dialog
(`ShortRuns`, up to ten runs run, in every way they can be credited), the wicket
dialog with the runs completed at a run out (`RunOuts`) and the dismissals it
offers off a legal ball, a wide and a no-ball, retirements, timed out and a
non-striker who left early included (`Dismissals`).  `Record` is any of them with
any batter who is not out dismissed, not only the striker, any batter left coming
in where the dialog asks for one, and the end of the innings by the tenth wicket,
which starts the second innings at once.  The selection is changed by recording
only: *Swap strike* and undo are `OverControl`'s.
The rest of the module are functions of the deliveries, one per program and
figure, named for the function in the code or with the prefix `Site` for the
website, `Official` for the official scorecard, `Table` and `Screen` for the
two places the screen adds up.

Where the programs differ on purpose or by accident, the properties say by
which deliveries, so that any other difference is an error:

- the official scorecard counts a four only where a button for a four recorded
  it (`boundary_type`, `admin_routes.py:6078`): not what was hit off a no-ball, run
  at a run out, or left of five by a short run, which screen and website count;
- the website counts no no-ball as a ball faced;
- the screen's table (`liveInningsScorecard`) charges byes off a no-ball to the
  bowler, the figures beside the bowler's name do not;
- the screen's partnership (`livePartnership`) contains penalties awarded to
  the fielding side;
- the website names the batters without the umpire's calls and without batters
  who retired unbeaten;
- a tied finish is shown as a win probability of 0.01.

The second innings has no limit of overs in the code.  Labels of the deliveries
as text, `last_six`, strike rates and the win probability itself are left out.

### SeasonDesk: the fixtures of a season

State: `fixture` holds the matches with result and scorecard, `totals` the
career totals, `cases` the discipline cases, `desk` a result that is being
saved, between its last read and its commit.  One player stands for the players
of a team, a scorecard is an innings total per side, and the totals of a team
are the set of scorecards they count.  A points table is a set of rows, one per
team, and its order is the teams by the number of rows ahead of theirs.
`EntryAssumption` says of the results that are typed in what
`admin_set_match_result` validates: a winner if and only if it is a win.

Administrators act one at a time; saving a result is the exception that takes
long (`SetMatchResult` reads, `CommitMatchResult` commits), and scorers act
meanwhile.  Two administrators who save at the same moment are not in the
model.  `SeasonStandingTeamIds` and `SiteStandings` are the two points tables:
points, bonus points, net run rate as an exact fraction, and the order.  The website's
is fed by `/public/results`, so `SiteCounts` has completed, published fixtures
only, as the server's has.
`SyncPlayoffFixtureTeams` is called wherever the code calls it.  The bonus of
200 runs and the overs of an innings are constants, scaled down in the runs.

`UpdateMatch` writes any of the fields that `admin_update_match` sets in its
loop and the properties read (status, the two teams, season, publication),
whatever state the fixture is in; the career totals it recomputes and the rows it
removes are those of the fixture as it was.  A match that is being scored keeps
the two teams its deliveries name in `ledger`; a rebuild of a scorecard whose
teams are no longer in the fixture fails (`Rebuildable`).

Left out: revised targets, a second bracket beside the remains of a first, the
recognition of ties in free text and the rounding of the net run rate.
What is in the model and no property
forbids: results typed in for fixtures with provisional teams, and a Qualifier 1
put back to scheduled after the final was seeded from it.

### AdminPages: the dashboard and its cache

State: `watched` is the key of the answer this behaviour is about, `page` the
page on show, `entry` the cached answer, `flight` the request for it, `server`
how often its rows were written, `own` the last of those writes that a handler
of this tab has finished, `op` the running handler.  The keys do not influence
each other, so one is watched at a time and only the handlers that write or name
it are started (`Touching`), with the pages near them (`Near`).

`Reads` says what each page asks for, `Handlers` what each handler writes and
which calls it makes after the reply, in order; both are transcribed page by
page, each page and each handler with its own lines in `PROJECT.json`.  The cache
is react-query 5, modelled from its use as external: stale after a minute,
invalidated answers asked for again while shown, `await` of an invalidation waits
for that.  A read that fails is retried until it is answered.

What a request writes and what an answer is read from are the API's
(`admin_routes.py`).  A request that writes rows of several kinds has a
definition of its own (`MatchUpdated`, `ResultSet`, `MatchesDeleted` with what
the database cascades to, `UserUpdated` with the assignments a deactivated scorer
loses, `ScorecardChanged`, `SquadSaved`, `MatchReset`, `CaseDecided`,
`OrderUpdated`, `RosterSaved`), and so has an answer that is read from several
(`FixtureRows`, `ScorerRows`, `LiveRows`, `EligibleRows`, ...).  The names of other
records that are joined to an answer are left out, and so is the audit log, which
nearly every request extends.  `Affects` is the intersection of the two: a handler
writes rows the answer is made of.

Of all pairs of a handler and an answer it affects, 155 are ones the handler
must cover; `Overlooked` lists the others, in which it names no key of the
answer, which stays old until its minute is over.  The list is exact: no pair in it
that affects the answer is named by the handler after all, and the theorem fails
if one is missing.  They are:

- named by nobody: the totals of the dashboard, the tables offered to a story, the
  teams of the scoring page, the matches of the discipline page, the audit log and
  the supporter search;
- the player search and the rosters, but for a saved roster;
- the scorers' list of matches after writes on other pages, and after a saved
  squad (it polls);
- the matches and players after what the scoring screen or a discipline decision
  changes;
- the players offered to the scorer after a saved season and after everything
  else the scoring screen saves that rebuilds the scorecard, but a squad;
- the live score after assignments, a deactivated user, a discipline decision and
  edit requests (it polls);
- the scorers of a match after a scorer was deactivated: the dialog says "This
  will also remove the account from open fixtures" (`users/index.tsx:81`), the
  handler names the users only (`users/index.tsx:70`);
- the pending edit requests after everything but a decision (they poll);
- the gallery after an upload from the scoring screen and after cancelled
  fixtures, and the photos of a match after a change in the gallery;
- the discipline cases after a reported incident and after cancelled fixtures;
- the report on fans after an order or a cancelled fixture;
- the stock after an order; the users after a saved profile; the page of a removed
  sponsor.

`OwnWritesShown` also leaves out an answer that crossed the write: one the server
gave before the handler's write and that arrives after it.  Where no later call
asks again, such an answer does count as fresh for a minute; the field `raced` of
an entry remembers it.  `StaleIsFetched`, `SavesEnd` and `PolledPagesCatchUp`
have neither exception.

## Runs

Safety runs use `CHECK_DEADLOCK FALSE`: the bounds on versions, sessions, the
clock and the rare events end every behaviour, and a match whose scoring is
over may really stop.  Symmetry permutes users of one role, screens, deliveries
and players of one kind; no definition tells them apart, and no run with a
liveness property uses it.

| run | instance | checks | shows | distinct states |
|---|---|---|---|---|
| `ledger` | one administrator, two players (one a concussion substitute), two deliveries, six versions | `FiguresFollowLedger`, `AlwaysReconciled`, `CompletedResultFollowsLedger`, `CompletedFiguresCounted`, `NoDuplicateBall`, `VersionNamesLedger`, `CorrectionsKeepLockTime` | every sequence of up to six writes of every kind leaves what is derived equal to what the ledger says | 87 324 |
| `lease` | a super admin and a scorer on two screens, two sessions, four versions, two ticks, an edit request | `TypeOK`, `OneActiveSession`, `ImplementsServer`, `LedgerWritesAuthorised` | takeover, lapse, renewal and release in every order, before and after the lock; every step is a step of the abstract server and no change of the ledger is without the right to it | 45 254 |
| `outbox_retry` | one screen, two faults, one correction, one player the server refuses | `TypeOK`, `RecordedOrderKept`, `PausedForAReason`, `QueuedBallsDrain` | lost requests and replies, late requests and reloads cost neither order nor progress | 17 994 |
| `outbox_takeover` | two screens in two browsers, three leases, one undo, one correction, one fault | `NoBallLost`, `RecordedOrderKept` | two screens that take over from each other lose nothing | 1 734 620 |
| `over` | three batters, two bowlers, two overs of two balls, one of each rare event | `TypeOK`, `PositionsAgree`, `NoConsecutiveOvers`, `PausedForAReason`, `StrikeFollowsTheInnings` | labels, strike and bowlers of screen and server are those of the deliveries | 190 671 |
| `sheet` | twelve kinds of delivery, a short run, a run out, a retirement and a stumping off a wide among them, any batter out, three deliveries, two innings, two overs of two, two wickets, one revised target | `TypeOK`, `ScoreShown`, `RunsAccounted`, `BowlersAccounted`, `BattersAgree`, `PartnershipsAccounted`, `BattersShown`, `ResultShown` | four programs agree on every figure, or differ by the deliveries listed above | 116 220 |
| `cache` | every key of the dashboard, two writes | `TypeOK`, `OwnWritesShown`, `StaleIsFetched`, `SavesEnd`, `PolledPagesCatchUp` | whatever order pages open and answers arrive in, the tab shows its own writes, and handlers end | 371 990 |
| `season` | four teams, two regular fixtures (one a draft), a bracket, typed-in results of three kinds (a win, a wash-out, a walkover), updates of status, team, season and publication, four requests of twelve kinds | `TypeOK`, `SeedingFollowsPublicTable`, `BracketFollowsResults`, `TotalsStayRight` | the bracket is seeded in the public order and follows saved results; totals stay right | 191 888 |

*Why the bounds are enough.*  The shortest history that exercises a property
of the ledger is: lease, squad, delivery, finish, lease again, correction or undo; six
versions leave room for a reset or a second finish.  Two deliveries distinguish order and
removal from either end; the concussion substitute is the case in which the
eleven and the credited players differ.  Two sessions are a lease and what ends it, or a
lease before and one after the lock; the takeover back is among the three leases
of `outbox_takeover`, and the theorems have any number.  Two ticks reach both sides of a lease of one tick and
of a lock delay of one tick.  In the outbox two deliveries are a head and a
tail; two faults are a failure while recovering from a failure.  Two overs of two
balls have an over before, a change of ends and a last over.  Three deliveries
of every kind include a wicket between two scoring deliveries and an innings
that ends and one that begins; the figures are sums over deliveries, so what
three of any kinds leave unseen is a property of four that no three of them
have.  Two writes let an answer be older than one of them and newer than the
other.  The season starts with any mixture of its results, so four requests are
spent on what comes after: bracket, result, correction, start.

Between them these runs take every action of the next-state relations, and
every property listed has a mutant of a mapped definition (a dropped guard, a
missing reset, a swapped order) that the same run rejects.

*Fairness.*  In `ScoringOutbox`, `FairSpec` asks weak fairness of the flush of each screen and of
its session poll.  The code justifies both: an effect re-arms the flush timer
after every change of the outbox and, with a back-off, after every failure; an
await ends, with a reply or an error; the session query has a
`refetchInterval` of 30 seconds.  Nothing is asked of operators, of
late requests, or of the network beyond ending each await: faults are bounded
because a network that never works delivers nothing.  `QueuedBallsDrain` is
conditional on a screen that keeps its lease and is not paused from some moment
on.

`AdminPages` asks weak fairness of requests (answered or failed), of the code
that goes on after a reply, and of the timers of polled answers; nothing of the
user.  A request ends because `fetch` does; a failed read is retried.
`PolledPagesCatchUp` is conditional on a page that stays open.

## Where the code and its documentation disagree

Four runs state a sentence of the documentation, of a message or of the screen
and TLC shows a behaviour of the code in which it is false (`findings` in
`PROJECT.json` quotes the lines).

| run | property | what happens |
|---|---|---|
| `insync` | `InSyncScorecardIsRebuilt` | a squad saved after the first deliveries is not flushed when the scorecard is rebuilt: the scorecard lacks the rows of the eleven and reports `in_sync` until the next write |
| `outbox_twice` | `AcceptedOnce` | a delivery that was accepted without its reply arriving, then undone on another screen, is unknown to the server and accepted again |
| `season_started` | `ScorecardKeepsTeams` | a Qualifier 1 that starts between the reads and the commit of another result is reseeded under its deliveries |
| `season_final` | `HomeAndAwayDiffer` | a result of Qualifier 1 corrected after Qualifier 2 was played puts one team on both sides of the final |

More sentences that the code does not keep are stated as properties in the
modules, or noted here, without a run of their own:

| property or place | what happens |
|---|---|
| `ResultDerivedFromLedger` (`LiveScoring`) | a finalised match that is called off keeps its official result, which later corrections no longer update (`SCORING_RELIABILITY.md:3`) |
| `NoBallLost` with a shared browser (`ScoringOutbox`) | two tabs of one browser overwrite each other's stored outbox; after a reload a recorded delivery is nowhere (`$matchId.tsx:5212`) |
| `RemovedBallStaysOut` (`ScoringOutbox`) | a queued delivery removed while a flush has copied the queue is posted all the same (`$matchId.tsx:2421`) |
| `UndoRemovesTheBallShown` (`ScoringOutbox`) | the version of an acknowledged retry is put on an older list of deliveries, so an undo passes the version check and removes a delivery its operator never saw (`SCORING_RELIABILITY.md:11`) |
| `LabelsFollowTheOvers` (`OverControl`) | a wide with which the umpire ends the over ends it for the next label, not for the renumbering (`test_live_scoring_schemas.py:667`) |
| `StrikeFollowsTheCall` (`OverControl`) | an over ended after a dead ball leaves the batters at the wrong ends |
| `OverNoteSaved` (`OverControl`) | the note of an over goes to the last delivery the server has, or nowhere while the outbox is full (`$matchId.tsx:7107`) |
| `ChosenBowlerStays` (`OverControl`) | a refetch after the dialog closed selects the bowler of the last delivery again |
| `BallsFacedEverywhere` (`InningsSheet`) | the website leaves no-balls out of the balls faced (`admin_routes.py:5753`) |
| `ScorecardKeepsTeams`, with updates (`SeasonDesk`) | an update of a fixture replaces a team whose deliveries are in the ledger (`admin_routes.py:2350`); the next rebuild of its scorecard fails (`admin_routes.py:6042`) |
| `TotalsStayRight`, `Overlooks` (`SeasonDesk`) | career totals are not recomputed by a bulk cancel, a status set to completed, a finished match that is called off, or a discipline decision; the dialog of the bulk cancel speaks of fixtures only (`matches/index.tsx:490`) |
| `Overlooked` (`AdminPages`) | `invalidate-competition-data.ts:3` says caches are refreshed after results; a match finished on the scoring screen or by a discipline decision refreshes neither matches nor players |

`NoBallLost` therefore holds for screens in browsers of their own
(`outbox_takeover`) and not for tabs that share one.

## Proofs

The theorems hold for every value of the constants under the assumptions the
modules declare, which TLC evaluates in every run of the modules:

- `LiveScoring`: durations are positive (`DurationAssumption`), bounds are
  naturals (`BoundAssumption`), scorers have no other role, substitutes are
  players and a revised target is not zero (`RoleAssumption`).  Any users,
  screens, players and deliveries.
- `ScoringOutbox`: every screen has a browser (`ScreenAssumption`), bounds are
  naturals.  Any screens, deliveries, faults and leases.  Three theorems have
  the hypothesis `OwnBrowsers`, no two screens in one browser: two tabs that
  share a browser do lose deliveries (below the findings).
- `OverControl`: the two squads are sequences of different players, two batters
  and a bowler at least (`SideAssumption`); an over has at least one ball, the
  number of overs and the bounds on events of each kind are naturals
  (`LengthAssumption`).  Any squads, overs and keypad.
- `SeasonDesk`: teams and regular fixtures are finitely many, a regular fixture
  has two teams of the season, an innings has at least one ball, the names of
  regular fixtures and of the bracket differ (`SeasonAssumption`); what is typed
  in is what the handler accepts (`EntryAssumption`).  Any teams, pairings,
  scorecards, decisions and requests.
- `InningsSheet`: each side is a sequence of at least two different players
  (`SidesAssumption`); an over, an innings and the number of wickets that ends
  it are positive, revised targets and the bound on deliveries are naturals, and
  a run records what the keypad has (`KeypadAssumption`).  Any sides, over
  length and number of deliveries.  `WebsiteShowsTheBatters` has the hypothesis
  `FullSides`, more players than the wickets that end an innings (eleven for
  ten in the code): with fewer, nobody is left to come in before the innings
  ends, and the screen keeps the dismissed batter selected.
- `AdminPages`: the watched keys are among the answers of the dashboard
  (`KeysAssumption`), any number of writes (`MaxWritesAssumption`).

| theorem | states | argument |
|---|---|---|
| `TypeCorrect` | `[]TypeOK` | inductive by itself; one lemma for the lease steps, one for the writes, one for edit requests |
| `LedgerCorrect` | `[]LedgerInv` | the five ledger invariants together are inductive, given types: a correction of a completed match needs `CompletedResultFollowsLedger` to know that it finalises again (`HasFinalResult`), and then `StatRowsValue` gives rows, result and totals from the new ledger; a write that does not touch the ledger needs that rows of players without a ball are zero |
| `DerivedFollowsLedger` | `FiguresFollowLedger`, `AlwaysReconciled`, `CompletedResultFollowsLedger`, `CompletedFiguresCounted`, `NoDuplicateBall` always | from `LedgerCorrect` |
| `LeaseExclusive` | `[]OneActiveSession` | through `SingleLease` ("two active rows are one row"), which is inductive and, unlike the count in `OneActiveSession`, needs no fact about cardinalities at each step |
| `VersionsNameLedgers` | `VersionNamesLedger` | only a scoring write changes ledger, squad or target, and it raises the version (`OnlyScoringWrites`); the rows derived from them have writers that leave the version alone (results typed in, discipline), which is why the theorem is not about those |
| `LedgerWritesAreAuthorised` | `LedgerWritesAuthorised` | every write carries the guards of `BeginScoringWrite` |
| `CorrectionsNeverExtendTheLock` | `CorrectionsKeepLockTime` | a completed match has a lock time (`LedgerInv`), so finalising again keeps it |
| `LiveScoringImplementsServer` | `ImplementsServer` | `CurrentToken` is determined by `SingleLease`; renewals keep it, grants and takeovers make it the new index, releases and the clock end it; every write maps to `Write` |
| `DeliveriesStayUnique`, `ScorecardStaysReconciled`, `CompletedResultStands`, `CompletedTotalsStand` | `[]NoDuplicateBall`, `[]AlwaysReconciled`, `[]CompletedResultFollowsLedger`, `[]CompletedFiguresCounted` | the parts of `DerivedFollowsLedger`, one theorem each |
| `ScoringOutboxProofs!TypeCorrect` | `[]TypeOK` | through `Shape`, which adds that a flush waiting for a reply has a batch and that tokens were issued |
| `ScreensKeepTheServer` | `ScoringServer!ServerSpec` | the steps of screens, network and late requests that change the server are writes, grants or closings of the abstract server |
| `NoRecordedBallIsLost` | `[]NoBallLost` under `OwnBrowsers` | `KeepInv`: what is saved is what the screen has in memory (so a reload loses nothing), and the delivery of an acknowledgement on its way was handled (so the screen may drop it) |
| `RecordedOrderIsKept` | `[]RecordedOrderKept` under `OwnBrowsers` | `OrderInv`, seven parts: besides the ledger, the outboxes and copies of them are in the order of recording, and no request that is on its way, now or handled late, could bring a delivery in after a later one of its screen: its token or its version is out of date, or the later one waits behind it |
| `ScoringPausesForAReason` | `[]PausedForAReason` under `OwnBrowsers` | `HolderInv`: while one screen has held the only lease, its flush posts the front of its outbox against the version of the server, or a delivery the server has already (`ScreensInStep`), and a late request is about the head of the outbox or a delivery the server has (`WireInStep`); so no reply is a refusal for the version |
| `SeasonKeepsItsShape` | `[]SeasonInv` | inductive: while a result is being saved only scorers act, and neither starting nor playing a match completes it; so the fixtures the save found free (`desk.free`) are not completed at its commit |
| `TotalsStay` | `TotalsStayRight` | totals depend on the completed fixtures, their scorecards and their teams only (`CountedSame`); reseeding touches no completed fixture (`SeasonInv`), and a revision that recomputes nobody is one of `Overlooks` or changes nothing that counts |
| `BracketStaysSeeded` | `BracketFollowsResults` | `FreeInv`: a playoff fixture untouched at the commit was found free at the read, and nothing a save found free has a result before its commit; so what the save resolved its sources from is what they are at the commit (`TableSame`, `SourcesSame`) |
| `SeedingStaysPublic` | `[]SeedingFollowsPublicTable` | `CardsInv`: scorecards can be read and every fixture, whoever edited it, is between two different teams of the season; then the two programs count the same fixtures, agree on each one (`FixtureAgrees`, `BallsAgree`) and so add up the same functions (`TablesAgree`) |
| `SeasonDeskProofs!TypeCorrect` | `[]TypeOK` | from `SeasonInv`, `CardsInv`, `CasesInv` and `TypesInv`: that seeding never leaves a side of a playoff fixture empty needs a team at each place of the table. Its order is strict and tells any two teams apart (`AheadOrder`; net run rates are fractions compared by cross products, `ProductOrder`), so each of the first four places is somebody's (`EveryPlaceIsTaken`) and every seed is a team (`SeedsAreTeams`) |
| `OverControlProofs!TypeCorrect` | `[]TypeOK` | from `Kept`, the first part of the inductive invariant: `Counts` (bounds), `Screen` (players and dialog are of the two squads), `Listed` (the list on the screen is the ledger followed by the outbox, wherever a reply or a fetch finds it) and `Labels` |
| `LabelsAgree` | `[]PositionsAgree` | `Labels`: the ledger is numbered, and what waits behind it carries the labels the screen would give it now; numbering a list that carries them already changes nothing, and the two readings of the umpire's call (`CallsCounted`) differ on a delivery that is not legal only, which `OnLegalOnly` counts |
| `NobodyBowlsTwoOversInARow` | `[]NoConsecutiveOvers` | `OversApart`, over the deliveries two by two; the check looks at the over of one new delivery, so it needs that the labels of a ledger never decrease and that numbering again moves no delivery to another over |
| `OverControlProofs!ScoringPausesForAReason` | `[]PausedForAReason` | `Turns`: the recorded deliveries, sent or not, are in turn (`InTurn`), and unless the dialog is open the selected bowler may bowl the next delivery; an open dialog means that the last delivery ended an over. Each delivery is then accepted however many wait before it, because the check of the server sees a beginning of the same list |
| `StrikeIsKept` | `[]StrikeFollowsTheInnings` | `Strike`: besides the selection, every recorded delivery was faced by the batter who was due (`Struck`); without it an undo, which selects again from the last delivery left, would not give the batters of the whole innings |
| `InningsSheetProofs!TypeCorrect` | `[]TypeOK` | `SheetTypes`, which also says what a recorded delivery is made of: `Body` gives what the buttons put together (dead balls score nothing, every extra is of one kind, a no-ball costs one), which the properties below need of every delivery |
| `SheetInvariant` | `[]SheetInv` | the deliveries of the innings are `Written`: each has the label of its place, names nobody as out when no wicket fell, and is followed by one with the same two batters then; and the selected batters are the ones `SelectionAfter` gives for the last (`Selected`) |
| `ScreenShowsTheScore` | `[]ScoreShown` | one more delivery changes the summary of the server exactly as `appendOptimisticBall` changes it (`OptimisticBall`); induction over the deliveries that wait (`QueuedBalls`) |
| `ScoreIsAccounted` | `[]RunsAccounted` | the score of a delivery is its bat runs, extras and award, and its extras are of one of four kinds (`Charged`, `Readings`); sums of sums (`SumPlus`), sums grouped by batter (`GroupedSum`) |
| `BattersHaveTheSameRuns` | `[]BattersAgree` | the deliveries of a batter, live and dead, apart (`Batted`): dead ones score nothing; balls differ by the no-balls, and fours by the scores of four without a boundary, because every delivery the screen makes that has the boundary `four` scores four (`Body`) |
| `BowlersHaveTheSameFigures` | `[]BowlersAccounted` | `ServerConceded`, `ScreenConceded` and `SiteConceded` are equal on every delivery a button makes, `TableConceded` adds what ran off a no-ball; sums grouped by bowler (`ChargedSum`). Maidens need an invariant of the places: while the umpire rules on no over, an over never holds more legal balls than it has (`OversFilled`), so the server's "at least six", the screen's "six" and the website's "at the sixth" are the same overs (`OfficialMaidens`, `ScreenMaidens`, `SiteMaidens`) |
| `PartnershipsAddUp` | `[]PartnershipsAccounted` | an invariant of the fold over the deliveries: finished partnerships and the open one share out the runs and balls so far (`Shared`), whoever bats. Without retirements more holds (`Pieces`): one is open exactly when the last delivery was no wicket, its pair is the one that faced it (`Written`), its runs and balls are those since the last wicket, and as many are finished as wickets fell, each sum up to the wicket being the score at its fall |
| `WebsiteShowsTheBatters` | `[]BattersShown` under `FullSides` | `SheetInv`, the replacement of every batter who is out (`Replaced`, which needs that somebody is left: `SomebodyIsLeft`), and that the sixth legal ball of an over is the one the website finds by counting the legal balls of the whole innings modulo six (`LegalsPlaced`, `OverEndsShown`) |
| `ChartShowsTheResult` | `[]ResultShown` | arithmetic over the two summaries, which are numbers (`SummaryTyped`) |
| `CacheKept` | `[]CacheInv` | no answer that counts, in the cache or on its way, is older than the last finished write, and a running handler that has changed the watched answer still has a call to make that covers it, or has made it and nothing older counts since |
| `HandlersShowTheirWrites`, `InvalidAnswersAreFetched`, `AdminPagesProofs!TypeCorrect` | `[]OwnWritesShown`, `[]StaleIsFetched`, `[]TypeOK` | from `CacheKept`; that the calls of a handler cover every answer it changes is a lemma per group of pages (`...HandlersComplete`), over all fifty-eight handlers and all answers |

`NatLemmas` derives induction and recursion on the naturals from the
well-foundedness theorems of the library, with a set for the induction
hypothesis and a function for the step, because the backends cannot instantiate
theorems with operator parameters.  `AdminPages!CallsOf` and the functions
`Places` and `Faces` of `OverControl` and `Places` and `PartnershipFold` of
`InningsSheet`, which carry place, batters and partnerships through an innings,
are recursive functions and are reasoned about with it.  For
the points tables of `SeasonDesk` it shows that the sum of a function over a
finite set is defined and is a number like its terms (`SumsExist`, `SumsTyped`),
and that a strict total order of a finite set puts an element at every place
(`EveryPlaceIsTaken`).  For the figures of `InningsSheet` it has the sum of two
functions (`SumPlus`), of two disjoint sets (`SumUnion`) and of a set divided
into groups (`SumGroups`), a count as a sum (`SumCounts`) and a bound of a sum
(`SumBound`).

The inductive invariant of `OverControl` is `IInv`: `Kept`, `OversApart`,
`Strike` and `Turns`.  TLC found it to be invariant on a small instance before
it was proved.  None of the four properties is inductive: each is about the list
on the screen, and what a flush, a reply or a fetch makes of that list depends on
the ledger and on what the outbox still holds.

Three operators had `CASE` expressions with guards that overlap, for which TLA+
leaves the choice open while TLC takes the first: the umpire's call that a
delivery carries (`OverControl`), the team a source names (`SeasonDesk`) and
what the website charges to the bowler (`InningsSheet`).  The proofs of the
first two could not be done; all three now say which case comes first, as the
code does.  Reading the handlers again for the same proofs showed that the note of an over
goes through the update of a delivery (`admin_update_live_ball`),
which checks the bowler and numbers the ledger again; `ConfirmNewOverBowler` now
does both.

Only model-checked: the liveness properties of `ScoringOutbox` and `AdminPages`,
because liveness under fairness and `ENABLED` are beyond the proof system's
backends.  No operator is declared `RECURSIVE`.

## Not modelled

`PROJECT.json` lists every component with the reason.  In short: components
planned below; components without a protocol (rosters, redirects, uploads, the
pages, menus and link previews of the website, the fields of the dashboard's
forms, operations scripts), which are most of the lines of the two web
applications; and arithmetic out of a model checker's reach (the exponentials
of the DLS tables, win probability, averages and rates).  Inside live scoring,
the audit log, commentary and the eligibility checks of squads and rosters are
left out.

## Plan

Done: `LiveScoring`, `ScoringServer`, `ScoringOutbox` and the proofs above;
`OverControl`, `InningsSheet`, `SeasonDesk`, `AdminPages`.  Next, in order of
importance:

1. Two administrators at once in `SeasonDesk`: updates and decisions split into
   a read and a commit, as saving a result is.
2. `MerchandiseStock`: orders, cancellations and edits of a variant as read and
   commit steps; the conservation of stock; theorem for the locked operations.
3. `FanNotifications`: an abstract at-least-once queue, the dispatcher with
   retries and a crash before its commit as an implementation of it.
4. `Accounts`: assignments and the last super administrator with two
   administrators at once.
