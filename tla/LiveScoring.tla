---------------------------- MODULE LiveScoring ----------------------------
(***************************************************************************)
(* The server side of live scoring for ONE match: every handler of         *)
(* src/api/app/api/v1/admin_routes.py that takes the row lock of the match *)
(* (_lock_score_match), the requests that reopen a locked scorecard, and   *)
(* the assignment of the scorer.                                           *)
(*                                                                         *)
(* A handler that locks the match row runs its whole transaction before    *)
(* the next one starts, so each handler is one action.  A handler that     *)
(* raises is rolled back (db/session.py closes the session without         *)
(* committing, src/api/app/db/session.py) and leaves no trace, not even    *)
(* the "expired" mark that _expire_session_if_needed put on a lease: it is *)
(* not an action at all.                                                   *)
(*                                                                         *)
(* Abstractions.  A delivery is its client_event_id and the player it      *)
(* credits; a scorecard is the number of deliveries credited to each       *)
(* player who has a row; the official result is the figures and the        *)
(* revised target it was computed from.  Over and ball labels, dismissals  *)
(* and the eligibility rules of a delivery are not in this module.  Time   *)
(* advances in ticks.                                                      *)
(***************************************************************************)
EXTENDS Integers, Sequences, FiniteSets, SequencesExt

CONSTANTS
    SuperAdmins, Managers, Scorers,  \* the users, by role
    Devices,                         \* scoring screens (one per browser tab)
    Players,                         \* players of the two teams
    ConcussionSubs,                  \* players a squad registers as concussion substitute
    BallIds,                         \* client_event_id values
    Targets,                         \* revised targets the DLS calculation can set
    SessionLease, LockDelay, AccessWindow,           \* durations, in ticks
    MaxClock, MaxVersion, MaxSessions, MaxRequests   \* bounds of the model

Users == SuperAdmins \cup Managers \cup Scorers

NoTime == -1     \* a NULL timestamp
NoTarget == 0    \* a NULL revised target

ASSUME DurationAssumption ==
    /\ SessionLease \in Nat \ {0}
    /\ LockDelay \in Nat \ {0}
    /\ AccessWindow \in Nat \ {0}

ASSUME BoundAssumption ==
    /\ MaxClock \in Nat
    /\ MaxVersion \in Nat
    /\ MaxSessions \in Nat
    /\ MaxRequests \in Nat

\* A user has one role, and only players appear in a squad or on a ball.
ASSUME RoleAssumption ==
    /\ Scorers \cap (SuperAdmins \cup Managers) = {}
    /\ ConcussionSubs \subseteq Players
    /\ Targets \subseteq Nat \ {NoTarget}

VARIABLES
    clock,      \* datetime.now(timezone.utc)
    match,      \* the row of matches
    ledger,     \* match_ball_events, in sequence_number order
    squad,      \* players registered in match_squad_players who may bat
    scorecard,  \* match_player_stats: rows of this match
    result,     \* the row of match_results, if any
    career,     \* what this match adds to the stored career totals
    sessions,   \* match_scoring_sessions, in id order; the index is the token
    scorers,    \* users assigned to the match with a scoring duty
    requests    \* match_scorecard_edit_requests, in id order

record == <<match, ledger, squad, scorecard, result, career>>
vars == <<clock, record, sessions, scorers, requests>>

-----------------------------------------------------------------------------
(* Types *)

Status == {"scheduled", "live", "postponed", "completed", "abandoned", "cancelled"}
SessionStatus == {"active", "expired", "taken_over", "released"}

Ball == [id : BallIds, player : Players]

IsStatLines(f) == DOMAIN f \subseteq Players /\ f \in [DOMAIN f -> Nat]

MatchRow ==
    [status : Status, finalizedAt : Nat \cup {NoTime}, version : 0 .. MaxVersion,
     reconciled : 0 .. MaxVersion, target : Targets \cup {NoTarget}]

IsResultRow(r) ==
    /\ r \in [status : {"none", "official"}, figures : {r.figures},
              target : Targets \cup {NoTarget}]
    /\ IsStatLines(r.figures)

SessionRow ==
    [owner : Users, device : Devices, status : SessionStatus, expiresAt : Nat]

RequestRow ==
    [user : Scorers, status : {"pending", "approved", "denied"}, until : Nat \cup {NoTime}]

TypeOK ==
    /\ clock \in 0 .. MaxClock
    /\ match \in MatchRow
    /\ ledger \in Seq(Ball)
    /\ squad \in SUBSET Players
    /\ IsStatLines(scorecard)
    /\ IsResultRow(result)
    /\ IsStatLines(career)
    /\ sessions \in Seq(SessionRow)
    /\ Len(sessions) =< MaxSessions
    /\ scorers \in SUBSET Scorers
    /\ requests \in Seq(RequestRow)
    /\ Len(requests) =< MaxRequests

-----------------------------------------------------------------------------
(* Deriving a scorecard from the ledger *)

NoRows == [p \in {} |-> 0]
NoResult == [status |-> "none", figures |-> NoRows, target |-> NoTarget]

Batted(balls) == {balls[i].player : i \in DOMAIN balls}

Deliveries(balls, p) == Cardinality({i \in DOMAIN balls : balls[i].player = p})

Figures(balls) == [p \in Batted(balls) |-> Deliveries(balls, p)]

\* Mutant: rows for the eleven only, so a concussion substitute gets none.
ElevenOnly(balls, xi) == [p \in xi |-> Deliveries(balls, p)]

\* The rows _finalize_live_match_result writes: one for every player of the
\* playing eleven and one for everybody the ledger credits.
StatRows(balls, xi) == [p \in xi \cup Batted(balls) |-> Deliveries(balls, p)]

PlayingXI(registered) == registered \ ConcussionSubs

\* Mutant: totals read before the new rows are flushed.
TotalsOfOldRows(affected, rows) ==
    [p \in (DOMAIN career \ affected) \cup (DOMAIN scorecard \cap affected) |->
        IF p \in affected THEN scorecard[p] ELSE career[p]]

\* recompute_player_career_stats: the totals of the affected players are
\* rebuilt from the rows of completed matches, the others are left alone.
Recomputed(affected, rows) ==
    [p \in (DOMAIN career \ affected) \cup (DOMAIN rows \cap affected) |->
        IF p \in affected THEN rows[p] ELSE career[p]]

-----------------------------------------------------------------------------
(* Who may write *)

CanScore(u) == u \in SuperAdmins \cup Managers \cup scorers

Locked ==
    /\ match.status = "completed"
    /\ match.finalizedAt # NoTime
    /\ clock >= match.finalizedAt + LockDelay

RequestsOf(u) == {i \in DOMAIN requests : requests[i].user = u}

HasApprovedAccess(u) ==
    \E i \in RequestsOf(u) :
        /\ \A j \in RequestsOf(u) : j =< i
        /\ requests[i].status = "approved"
        /\ clock < requests[i].until

\* Mutant: the lock is not asked for.
IgnoresLock(u) == CanScore(u)

CanEdit(u) == CanScore(u) /\ (u \in Scorers => ~Locked \/ HasApprovedAccess(u))

ActiveTokens == {t \in DOMAIN sessions : sessions[t].status = "active"}

\* The row _active_scoring_session returns, unless it has expired.
Current(token) ==
    /\ token \in ActiveTokens
    /\ \A t \in ActiveTokens : t =< token
    /\ clock < sessions[token].expiresAt

OwnsSession(u, token) == Current(token) /\ sessions[token].owner = u

Renewed(token) == [sessions EXCEPT ![token].expiresAt = clock + SessionLease]

\* Mutant: the old lease is left open.
LeftOpen(rows, token, how) == rows

Ended(rows, token, how) == [rows EXCEPT ![token].status = how]

\* Mutant: the version is checked and the lease is not.
BeginWithoutLease(u, token, v) ==
    /\ CanEdit(u)
    /\ sessions[token].owner = u
    /\ v = match.version
    /\ match.version < MaxVersion

\* A write is refused unless the caller may edit, its token is the current
\* lease and the version it last saw is the stored one.
BeginScoringWrite(u, token, v) ==
    /\ CanEdit(u)
    /\ OwnsSession(u, token)
    /\ v = match.version
    /\ match.version < MaxVersion

\* Mutant: a write that forgets _advance_score_version.
NotAdvanced == match

Advanced == [match EXCEPT !.version = @ + 1]

-----------------------------------------------------------------------------
(* Rebuilding what is derived.  m is the match row before the rebuild.     *)

ReconcileLiveScorecard(m, balls, xi) ==
    /\ match' = [m EXCEPT !.reconciled = m.version]
    /\ IF balls = <<>>
       THEN /\ scorecard' = NoRows
            /\ career' = Recomputed(DOMAIN scorecard, NoRows)
       ELSE /\ scorecard' = StatRows(balls, xi)
            /\ UNCHANGED career

\* Mutants of finalising: one does not mark the match reconciled, the other
\* starts the lock delay again at every correction.
FinalizeUnmarked(m, balls) ==
    LET rows == StatRows(balls, PlayingXI(squad))
        final == IF m.finalizedAt = NoTime THEN clock ELSE m.finalizedAt
    IN  /\ balls # <<>>
        /\ match' = [m EXCEPT !.status = "completed", !.finalizedAt = final]
        /\ result' = [status |-> "official", figures |-> Figures(balls), target |-> m.target]
        /\ scorecard' = rows
        /\ career' = Recomputed(DOMAIN scorecard \cup DOMAIN rows, rows)

FinalizeRestartsLock(m, balls) ==
    LET rows == StatRows(balls, PlayingXI(squad))
    IN  /\ balls # <<>>
        /\ match' = [m EXCEPT !.status = "completed", !.finalizedAt = clock,
                              !.reconciled = m.version]
        /\ result' = [status |-> "official", figures |-> Figures(balls), target |-> m.target]
        /\ scorecard' = rows
        /\ career' = Recomputed(DOMAIN scorecard \cup DOMAIN rows, rows)

FinalizeLiveMatchResult(m, balls) ==
    LET rows == StatRows(balls, PlayingXI(squad))
        final == IF m.finalizedAt = NoTime THEN clock ELSE m.finalizedAt
    IN  /\ balls # <<>>
        /\ match' = [m EXCEPT !.status = "completed", !.finalizedAt = final,
                              !.reconciled = m.version]
        /\ result' = [status |-> "official", figures |-> Figures(balls), target |-> m.target]
        /\ scorecard' = rows
        /\ career' = Recomputed(DOMAIN scorecard \cup DOMAIN rows, rows)

\* Mutant: corrections never finalise again.
NeverFinal == FALSE

HasFinalResult == match.status = "completed" /\ result.status # "none"

\* What every change of the ledger ends with.  The match keeps its status,
\* or becomes live when `reopened'.
RebuildAfter(balls, reopened) ==
    IF HasFinalResult
    THEN FinalizeLiveMatchResult(Advanced, balls)
    ELSE /\ ReconcileLiveScorecard(
                IF reopened THEN [Advanced EXCEPT !.status = "live"] ELSE Advanced,
                balls, PlayingXI(squad))
         /\ UNCHANGED result

-----------------------------------------------------------------------------
(* The scoring lease *)

CanAppendSession == Len(sessions) < MaxSessions

NewSession(u, d) ==
    [owner |-> u, device |-> d, status |-> "active", expiresAt |-> clock + SessionLease]

\* admin_acquire_scoring_session, called every 30 seconds by an open screen:
\* the same user on the same device renews its lease.
RenewSession(u, d) ==
    /\ CanEdit(u)
    /\ \E t \in ActiveTokens :
        /\ OwnsSession(u, t)
        /\ sessions[t].device = d
        /\ sessions' = Renewed(t)
    /\ UNCHANGED <<clock, record, scorers, requests>>

\* ... nobody holds the lease: an expired row is closed, a new one is granted.
AcquireSession(u, d) ==
    /\ CanEdit(u)
    /\ CanAppendSession
    /\ \A t \in ActiveTokens : ~Current(t)
    /\ IF ActiveTokens = {}
       THEN sessions' = Append(sessions, NewSession(u, d))
       ELSE \E t \in ActiveTokens :
               /\ \A s \in ActiveTokens : s =< t
               /\ sessions' = Append(Ended(sessions, t, "expired"), NewSession(u, d))
    /\ UNCHANGED <<clock, record, scorers, requests>>

\* ... with force_takeover, from whoever holds it.
TakeOverSession(u, d) ==
    /\ CanEdit(u)
    /\ CanAppendSession
    /\ \E t \in ActiveTokens :
        /\ Current(t)
        /\ ~(sessions[t].owner = u /\ sessions[t].device = d)
        /\ sessions' = Append(Ended(sessions, t, "taken_over"), NewSession(u, d))
    /\ UNCHANGED <<clock, record, scorers, requests>>

Heartbeat(u, token) ==
    /\ CanEdit(u)
    /\ OwnsSession(u, token)
    /\ sessions' = Renewed(token)
    /\ UNCHANGED <<clock, record, scorers, requests>>

\* Releasing asks for the assignment only: a locked scorecard can be let go.
ReleaseSession(u, token) ==
    /\ CanScore(u)
    /\ OwnsSession(u, token)
    /\ sessions' = Ended(Renewed(token), token, "released")
    /\ UNCHANGED <<clock, record, scorers, requests>>

-----------------------------------------------------------------------------
(* Scoring writes *)

StartLiveScore(u, token, v) ==
    /\ BeginScoringWrite(u, token, v)
    /\ ReconcileLiveScorecard(
           IF match.status = "completed" THEN Advanced ELSE [Advanced EXCEPT !.status = "live"],
           ledger, PlayingXI(squad))
    /\ sessions' = Renewed(token)
    /\ UNCHANGED <<clock, ledger, squad, result, scorers, requests>>

\* Toss, umpires and allotted overs are not modelled; the rebuild is.
SaveLiveMatchSetup(u, token, v) ==
    /\ BeginScoringWrite(u, token, v)
    /\ ReconcileLiveScorecard(Advanced, ledger, PlayingXI(squad))
    /\ sessions' = Renewed(token)
    /\ UNCHANGED <<clock, ledger, squad, result, scorers, requests>>

\* admin_save_live_match_conditions with clear_dls (or no overs): whatever
\* target was set is dropped.  Neither this request nor the next finalises
\* again, so an official result keeps the target it was computed with.
ClearLiveMatchConditions(u, token, v) ==
    /\ BeginScoringWrite(u, token, v)
    /\ ReconcileLiveScorecard([Advanced EXCEPT !.target = NoTarget], ledger, PlayingXI(squad))
    /\ sessions' = Renewed(token)
    /\ UNCHANGED <<clock, ledger, squad, result, scorers, requests>>

\* ... with overs: a revised target (second innings) needs a recorded first
\* innings; the conditions of the first innings, which leave the target NULL,
\* can be set only while there is none.
SaveLiveMatchConditions(u, token, v, target) ==
    /\ BeginScoringWrite(u, token, v)
    /\ IF target = NoTarget THEN match.target = NoTarget ELSE ledger # <<>>
    /\ ReconcileLiveScorecard([Advanced EXCEPT !.target = target], ledger, PlayingXI(squad))
    /\ sessions' = Renewed(token)
    /\ UNCHANGED <<clock, ledger, squad, result, scorers, requests>>

\* The old squad rows are deleted at once, the new ones are only pending
\* when the scorecard is rebuilt (autoflush=False): the rebuild sees none.
SaveMatchDaySquad(u, token, v, registered) ==
    /\ BeginScoringWrite(u, token, v)
    /\ squad' = registered
    /\ ReconcileLiveScorecard(Advanced, ledger, {})
    /\ sessions' = Renewed(token)
    /\ UNCHANGED <<clock, ledger, result, scorers, requests>>

MayBat(p) == squad = {} \/ p \in squad

\* Mutant: a retried delivery is not recognised.
CreateUnchecked(u, token, v, id, p) ==
    /\ BeginScoringWrite(u, token, v)
    /\ MayBat(p)
    /\ ledger' = Append(ledger, [id |-> id, player |-> p])
    /\ RebuildAfter(ledger', TRUE)
    /\ sessions' = Renewed(token)
    /\ UNCHANGED <<clock, squad, scorers, requests>>

\* A client_event_id that is already in the ledger returns the stored event
\* without a commit, so only an unknown one changes anything.
CreateLiveBall(u, token, v, id, p) ==
    /\ BeginScoringWrite(u, token, v)
    /\ \A i \in DOMAIN ledger : ledger[i].id # id
    /\ MayBat(p)
    /\ ledger' = Append(ledger, [id |-> id, player |-> p])
    /\ RebuildAfter(ledger', TRUE)
    /\ sessions' = Renewed(token)
    /\ UNCHANGED <<clock, squad, scorers, requests>>

UpdateLiveBall(u, token, v, i, p) ==
    /\ BeginScoringWrite(u, token, v)
    /\ i \in DOMAIN ledger
    /\ MayBat(p)
    /\ ledger' = [ledger EXCEPT ![i].player = p]
    /\ RebuildAfter(ledger', FALSE)
    /\ sessions' = Renewed(token)
    /\ UNCHANGED <<clock, squad, scorers, requests>>

DeleteLiveBall(u, token, v, i) ==
    /\ BeginScoringWrite(u, token, v)
    /\ i \in DOMAIN ledger
    /\ ledger' = RemoveAt(ledger, i)
    /\ RebuildAfter(ledger', FALSE)
    /\ sessions' = Renewed(token)
    /\ UNCHANGED <<clock, squad, scorers, requests>>

\* admin_delete_last_live_ball.  On an empty ledger it commits nothing.
DeleteLastLiveBall(u, token, v) ==
    /\ BeginScoringWrite(u, token, v)
    /\ ledger # <<>>
    /\ ledger' = RemoveAt(ledger, Len(ledger))
    /\ RebuildAfter(ledger', FALSE)
    /\ sessions' = Renewed(token)
    /\ UNCHANGED <<clock, squad, scorers, requests>>

ReconcileScorecard(u, token, v) ==
    /\ BeginScoringWrite(u, token, v)
    /\ RebuildAfter(ledger, FALSE)
    /\ sessions' = Renewed(token)
    /\ UNCHANGED <<clock, ledger, squad, scorers, requests>>

\* Finalising: the official result, career totals and the end of the lease.
CompleteLiveScore(u, token, v) ==
    /\ BeginScoringWrite(u, token, v)
    /\ FinalizeLiveMatchResult(Advanced, ledger)
    /\ sessions' = Ended(Renewed(token), token, "released")
    /\ UNCHANGED <<clock, ledger, squad, scorers, requests>>

\* The same endpoint with status "abandoned" or "cancelled".
CallOffLiveScore(u, token, v, status) ==
    /\ BeginScoringWrite(u, token, v)
    /\ ReconcileLiveScorecard([Advanced EXCEPT !.status = status, !.finalizedAt = NoTime],
                              ledger, PlayingXI(squad))
    /\ sessions' = Ended(Renewed(token), token, "released")
    /\ UNCHANGED <<clock, ledger, squad, result, scorers, requests>>

\* admin_reset_live_test_match: for super admins only.
ResetLiveTestMatch(u, token, v) ==
    /\ u \in SuperAdmins
    /\ BeginScoringWrite(u, token, v)
    /\ match' = [status |-> "scheduled", finalizedAt |-> NoTime, version |-> match.version + 1,
                 reconciled |-> match.version + 1, target |-> NoTarget]
    /\ ledger' = <<>>
    /\ squad' = {}
    /\ scorecard' = NoRows
    /\ result' = NoResult
    /\ career' = Recomputed(DOMAIN scorecard \cup Batted(ledger), NoRows)
    /\ requests' = <<>>
    /\ sessions' = Ended(Renewed(token), token, "released")
    /\ UNCHANGED <<clock, scorers>>

ScoringWrite(u, token, v) ==
    \/ StartLiveScore(u, token, v)
    \/ SaveLiveMatchSetup(u, token, v)
    \/ ClearLiveMatchConditions(u, token, v)
    \/ \E target \in Targets \cup {NoTarget} : SaveLiveMatchConditions(u, token, v, target)
    \/ \E registered \in SUBSET Players : SaveMatchDaySquad(u, token, v, registered)
    \/ \E id \in BallIds, p \in Players : CreateLiveBall(u, token, v, id, p)
    \/ \E i \in DOMAIN ledger, p \in Players : UpdateLiveBall(u, token, v, i, p)
    \/ \E i \in DOMAIN ledger : DeleteLiveBall(u, token, v, i)
    \/ DeleteLastLiveBall(u, token, v)
    \/ ReconcileScorecard(u, token, v)
    \/ CompleteLiveScore(u, token, v)
    \/ \E status \in {"abandoned", "cancelled"} : CallOffLiveScore(u, token, v, status)
    \/ ResetLiveTestMatch(u, token, v)

-----------------------------------------------------------------------------
(* Around the scoring lease: assignment, edit requests, time *)

\* admin_set_match_scorers: at most one user with a scoring duty.
SetMatchScorers(assigned) ==
    /\ Cardinality(assigned) =< 1
    /\ scorers' = assigned
    /\ UNCHANGED <<clock, record, sessions, requests>>

\* A pending request is returned as it is.  This handler and the next one do
\* not lock anything; they are modelled one after the other.
RequestScorecardEditAccess(u) ==
    /\ u \in scorers
    /\ Locked
    /\ ~HasApprovedAccess(u)
    /\ \A i \in RequestsOf(u) : requests[i].status # "pending"
    /\ Len(requests) < MaxRequests
    /\ requests' = Append(requests, [user |-> u, status |-> "pending", until |-> NoTime])
    /\ UNCHANGED <<clock, record, sessions, scorers>>

\* Mutant: a denial stored under a name no reader of the table knows.
DecideUnknownStatus(i, approved) ==
    /\ i \in DOMAIN requests
    /\ requests[i].status = "pending"
    /\ requests' = [requests EXCEPT ![i].status = IF approved THEN "approved" ELSE "rejected"]
    /\ UNCHANGED <<clock, record, sessions, scorers>>

DecideScorecardEditRequest(i, approved) ==
    /\ i \in DOMAIN requests
    /\ requests[i].status = "pending"
    /\ requests' = [requests EXCEPT ![i] =
           IF approved
           THEN [@ EXCEPT !.status = "approved", !.until = clock + AccessWindow]
           ELSE [@ EXCEPT !.status = "denied", !.until = NoTime]]
    /\ UNCHANGED <<clock, record, sessions, scorers>>

Tick ==
    /\ clock < MaxClock
    /\ clock' = clock + 1
    /\ UNCHANGED <<record, sessions, scorers, requests>>

-----------------------------------------------------------------------------
(* A fixture as admin_create_match leaves it *)

Init ==
    /\ clock = 0
    /\ match = [status |-> "scheduled", finalizedAt |-> NoTime, version |-> 0,
                reconciled |-> 0, target |-> NoTarget]
    /\ ledger = <<>>
    /\ squad = {}
    /\ scorecard = NoRows
    /\ result = NoResult
    /\ career = NoRows
    /\ sessions = <<>>
    /\ scorers = {}
    /\ requests = <<>>

LeaseStep(u) ==
    \/ \E d \in Devices : RenewSession(u, d) \/ AcquireSession(u, d) \/ TakeOverSession(u, d)
    \/ \E token \in DOMAIN sessions : Heartbeat(u, token) \/ ReleaseSession(u, token)

Next ==
    \/ \E u \in Users : LeaseStep(u)
    \/ \E u \in Users, token \in DOMAIN sessions, v \in 0 .. MaxVersion :
           ScoringWrite(u, token, v)
    \/ \E assigned \in SUBSET Scorers : SetMatchScorers(assigned)
    \/ \E u \in Scorers : RequestScorecardEditAccess(u)
    \/ \E i \in DOMAIN requests, approved \in BOOLEAN : DecideScorecardEditRequest(i, approved)
    \/ Tick

Spec == Init /\ [][Next]_vars

-----------------------------------------------------------------------------
(* Properties *)

\* At most one lease of the match is open, whatever takeovers, expiries and
\* releases happened: no unique index says so, only the code that ends the
\* old row before it inserts a new one.
OneActiveSession == Cardinality(ActiveTokens) =< 1

\* A delivery is in the ledger once: client_event_id identifies it.
NoDuplicateBall ==
    \A i, j \in DOMAIN ledger : ledger[i].id = ledger[j].id => i = j

\* Whatever was corrected, undone or reset, the stored figures of every
\* player who faced a ball are those of the ledger, and a row without balls
\* belongs to the playing eleven.
FiguresFollowLedger ==
    /\ \A p \in Batted(ledger) :
          p \in DOMAIN scorecard /\ scorecard[p] = Deliveries(ledger, p)
    /\ \A p \in DOMAIN scorecard \ Batted(ledger) :
          scorecard[p] = 0 /\ p \in PlayingXI(squad)

\* Every accepted write leaves the scorecard reconciled with its version, so
\* the repair request of the scoring screen is never needed.
AlwaysReconciled == match.reconciled = match.version

\* A completed match has a result computed from the ledger as it stands,
\* corrections after the finish included; it has a time from which it locks
\* and cannot lose its last ball.
CompletedResultFollowsLedger ==
    match.status = "completed" =>
        /\ ledger # <<>>
        /\ match.finalizedAt # NoTime
        /\ result.status = "official"
        /\ result.figures = Figures(ledger)

\* The career totals count a completed match with the figures of its ledger.
CompletedFiguresCounted ==
    match.status = "completed" =>
        \A p \in Batted(ledger) : p \in DOMAIN career /\ career[p] = Deliveries(ledger, p)

\* A version names one ledger, one squad and one revised target, and is never
\* reused: this is what makes the X-Score-Version precondition detect every
\* concurrent change of what the next delivery is checked against.  Apart from
\* deleting the fixture nothing else in the program writes these three.  The
\* rows derived from them have other writers: result entry
\* (admin_routes.py:2425), the update of a fixture and a discipline decision
\* replace rows or result under an unchanged version, so nothing is claimed
\* of those.
VersionNamesLedger ==
    [][/\ match'.version >= match.version
       /\ match'.version = match.version =>
              ledger' = ledger /\ squad' = squad /\ match'.target = match.target]_vars

\* The ledger changes only in the hands of a user who holds the one live
\* lease, is still assigned, and, when the scorecard is locked, is not a
\* scorer without a current approval.
LedgerWritesAuthorised ==
    [][ledger' # ledger =>
        \E t \in ActiveTokens :
            /\ clock < sessions[t].expiresAt
            /\ CanScore(sessions[t].owner)
            /\ Locked /\ sessions[t].owner \in Scorers =>
                   HasApprovedAccess(sessions[t].owner)]_vars

\* Correcting a finalised scorecard never moves its lock time.
CorrectionsKeepLockTime ==
    [][match.status = "completed" /\ match'.status = "completed"
          => match'.finalizedAt = match.finalizedAt]_vars

-----------------------------------------------------------------------------
(* The abstract server a scoring screen relies on *)

CurrentToken ==
    IF \E t \in ActiveTokens : Current(t) THEN CHOOSE t \in ActiveTokens : Current(t) ELSE 0

Server == INSTANCE ScoringServer
    WITH version <- match.version, lease <- CurrentToken,
         leases <- [t \in DOMAIN sessions |-> sessions[t].device]

\* Seen from a screen, every history of one match is a history of
\* ScoringServer: writes only under the one open lease, one version and at
\* most one delivery at a time, tokens never issued twice, and a lease that
\* ended, lapsed or was taken over never open again.
ImplementsServer == Server!ServerSpec

-----------------------------------------------------------------------------
(* Claims of the documentation that the code does not keep *)

\* ops/SCORING_RELIABILITY.md: the scorecard is derived from the ledger and
\* rebuilt by every accepted mutation.  A reconciliation that reports
\* "in_sync" should therefore have nothing left to change.
InSyncScorecardIsRebuilt ==
    match.reconciled = match.version =>
        scorecard = IF ledger = <<>> THEN NoRows ELSE StatRows(ledger, PlayingXI(squad))

\* ops/SCORING_RELIABILITY.md: the match result is derived from the ledger,
\* so an official result never shows figures the ledger no longer has.
ResultDerivedFromLedger ==
    result.status = "official" => result.figures = Figures(ledger)
=============================================================================
