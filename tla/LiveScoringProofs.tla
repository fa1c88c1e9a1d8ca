------------------------- MODULE LiveScoringProofs -------------------------
(***************************************************************************)
(* What a scorecard promises, for every choice of users, screens, players  *)
(* and bounds: the stored figures, the official result and the career      *)
(* totals follow the ledger of deliveries.  Then who may write it, and     *)
(* what one write may change: the scoring lease, the version precondition  *)
(* and the lock.                                                           *)
(***************************************************************************)
EXTENDS LiveScoring, FiniteSetTheorems, TLAPS

-----------------------------------------------------------------------------
(* The operators the scorecard is derived with *)

\* The domain of a sequence of balls is finite, so counting is well defined.
LEMMA DeliveriesType ==
    ASSUME NEW balls \in Seq(Ball), NEW p
    PROVE  Deliveries(balls, p) \in Nat
<1>1. IsFiniteSet(DOMAIN balls)
  <2>1. DOMAIN balls = 1 .. Len(balls)
    OBVIOUS
  <2>2. QED
    BY <2>1, FS_Interval
<1>2. IsFiniteSet({i \in DOMAIN balls : balls[i].player = p})
  BY <1>1, FS_Subset
<1>3. QED
  BY <1>2, FS_CardinalityType DEF Deliveries

\* Only players are credited.
LEMMA BattedType ==
    ASSUME NEW balls \in Seq(Ball)
    PROVE  Batted(balls) \in SUBSET Players
<1>1. \A i \in DOMAIN balls : balls[i] \in Ball
  OBVIOUS
<1>2. \A b \in Ball : b.player \in Players
  BY DEF Ball
<1>3. QED
  BY <1>1, <1>2 DEF Batted

\* The rows a rebuild writes are rows of players.
LEMMA StatRowsType ==
    ASSUME NEW balls \in Seq(Ball), NEW xi \in SUBSET Players
    PROVE  /\ IsStatLines(StatRows(balls, xi))
           /\ IsStatLines(Figures(balls))
BY DeliveriesType, BattedType DEF IsStatLines, StatRows, Figures

\* Recomputing career totals yields rows of players.
LEMMA RecomputedType ==
    ASSUME IsStatLines(career), NEW rows, IsStatLines(rows), NEW affected
    PROVE  IsStatLines(Recomputed(affected, rows))
BY DEF IsStatLines, Recomputed

LEMMA NoRowsType == IsStatLines(NoRows)
BY DEF IsStatLines, NoRows

-----------------------------------------------------------------------------
(* Rebuilding keeps the derived state well typed *)

LEMMA ReconcileType ==
    ASSUME TypeOK, NEW m \in MatchRow, NEW balls \in Seq(Ball), NEW xi \in SUBSET Players,
           ReconcileLiveScorecard(m, balls, xi)
    PROVE  match' \in MatchRow /\ IsStatLines(scorecard') /\ IsStatLines(career')
<1>1. match' \in MatchRow
  BY DEF ReconcileLiveScorecard, MatchRow
<1>2. CASE balls = <<>>
  <2>1. IsStatLines(scorecard')
    BY <1>2, NoRowsType DEF ReconcileLiveScorecard
  <2>2. IsStatLines(career')
    BY <1>2, NoRowsType, RecomputedType DEF ReconcileLiveScorecard, TypeOK
  <2>3. QED
    BY <1>1, <2>1, <2>2
<1>3. CASE balls # <<>>
  <2>1. IsStatLines(scorecard')
    BY <1>3, StatRowsType DEF ReconcileLiveScorecard
  <2>2. IsStatLines(career')
    BY <1>3 DEF ReconcileLiveScorecard, TypeOK, IsStatLines
  <2>3. QED
    BY <1>1, <2>1, <2>2
<1>4. QED
  BY <1>2, <1>3

LEMMA FinalizeType ==
    ASSUME TypeOK, NEW m \in MatchRow, NEW balls \in Seq(Ball),
           FinalizeLiveMatchResult(m, balls)
    PROVE  /\ match' \in MatchRow
           /\ IsStatLines(scorecard')
           /\ IsStatLines(career')
           /\ IsResultRow(result')
<1>1. PlayingXI(squad) \in SUBSET Players
  BY DEF PlayingXI, TypeOK
<1>2. IsStatLines(StatRows(balls, PlayingXI(squad))) /\ IsStatLines(Figures(balls))
  BY <1>1, StatRowsType
<1>3. match' \in MatchRow
  <2>1. clock \in Nat
    BY BoundAssumption DEF TypeOK
  <2>2. QED
    BY <2>1 DEF FinalizeLiveMatchResult, MatchRow, Status
<1>4. IsStatLines(career')
  BY <1>2, RecomputedType DEF FinalizeLiveMatchResult, TypeOK
<1>5. IsResultRow(result')
  BY <1>2 DEF FinalizeLiveMatchResult, IsResultRow, MatchRow
<1>6. QED
  BY <1>2, <1>3, <1>4, <1>5 DEF FinalizeLiveMatchResult

LEMMA AdvancedType ==
    ASSUME TypeOK, match.version < MaxVersion
    PROVE  Advanced \in MatchRow
<1>1. match \in MatchRow
  BY DEF TypeOK
<1>2. match.version + 1 \in 0 .. MaxVersion
  BY <1>1, BoundAssumption DEF MatchRow
<1>3. QED
  BY <1>1, <1>2 DEF Advanced, MatchRow

LEMMA RebuildType ==
    ASSUME TypeOK, match.version < MaxVersion, NEW balls \in Seq(Ball),
           NEW reopened \in BOOLEAN, RebuildAfter(balls, reopened)
    PROVE  /\ match' \in MatchRow
           /\ IsStatLines(scorecard')
           /\ IsStatLines(career')
           /\ IsResultRow(result')
<1>1. Advanced \in MatchRow
  BY AdvancedType
<1>2. CASE HasFinalResult
  BY <1>1, <1>2, FinalizeType DEF RebuildAfter
<1>3. CASE ~HasFinalResult
  <2>1. PlayingXI(squad) \in SUBSET Players
    BY DEF PlayingXI, TypeOK
  <2>2. [Advanced EXCEPT !.status = "live"] \in MatchRow
    BY <1>1 DEF MatchRow, Status
  <2>3. IsResultRow(result')
    BY <1>3 DEF RebuildAfter, TypeOK, IsResultRow
  <2>4. QED
    BY <1>1, <1>3, <2>1, <2>2, <2>3, ReconcileType DEF RebuildAfter
<1>4. QED
  BY <1>2, <1>3

\* Renewing, ending and granting leases keeps the table of leases well typed.
LEMMA SessionsType ==
    ASSUME TypeOK, NEW token \in DOMAIN sessions
    PROVE  /\ Renewed(token) \in Seq(SessionRow)
           /\ Len(Renewed(token)) = Len(sessions)
           /\ \A how \in SessionStatus :
                 /\ Ended(Renewed(token), token, how) \in Seq(SessionRow)
                 /\ Len(Ended(Renewed(token), token, how)) = Len(sessions)
                 /\ Ended(sessions, token, how) \in Seq(SessionRow)
                 /\ Len(Ended(sessions, token, how)) = Len(sessions)
<1>1. clock + SessionLease \in Nat
  BY DurationAssumption, BoundAssumption DEF TypeOK
<1>2. \A i \in DOMAIN sessions : sessions[i] \in SessionRow
  BY DEF TypeOK
<1>3. \A row \in SessionRow : [row EXCEPT !.expiresAt = clock + SessionLease] \in SessionRow
  BY <1>1 DEF SessionRow
<1>4. \A row \in SessionRow, how \in SessionStatus : [row EXCEPT !.status = how] \in SessionRow
  BY DEF SessionRow
<1>5. Renewed(token) \in Seq(SessionRow) /\ Len(Renewed(token)) = Len(sessions)
  BY <1>2, <1>3 DEF Renewed, TypeOK
<1>6. QED
  BY <1>2, <1>4, <1>5 DEF Ended, TypeOK

-----------------------------------------------------------------------------
(* Type correctness *)

\* A call that changes no record but the lease table, or one small table.
LEMMA LeaseStepType ==
    ASSUME TypeOK, NEW u \in Users, LeaseStep(u)
    PROVE  TypeOK'
<1>0. clock + SessionLease \in Nat
  BY DurationAssumption, BoundAssumption DEF TypeOK
<1>1. \A d \in Devices : NewSession(u, d) \in SessionRow
  BY <1>0 DEF NewSession, SessionRow, SessionStatus
<1>2. \A t \in ActiveTokens : t \in DOMAIN sessions
  BY DEF ActiveTokens
<1>3. ASSUME sessions' \in Seq(SessionRow), Len(sessions') =< MaxSessions,
             UNCHANGED <<clock, record, scorers, requests>>
      PROVE  TypeOK'
  BY <1>3 DEF TypeOK, record, IsStatLines, IsResultRow
<1>4. ASSUME NEW d \in Devices, RenewSession(u, d) PROVE TypeOK'
  BY <1>2, <1>3, <1>4, SessionsType DEF RenewSession, TypeOK
<1>5. ASSUME NEW d \in Devices, AcquireSession(u, d) PROVE TypeOK'
  <2>1. Len(sessions) + 1 =< MaxSessions
    BY <1>5, BoundAssumption DEF AcquireSession, CanAppendSession, TypeOK
  <2>2. CASE ActiveTokens = {}
    <3>1. sessions' = Append(sessions, NewSession(u, d))
      BY <1>5, <2>2 DEF AcquireSession
    <3>2. QED
      BY <1>1, <1>3, <1>5, <2>1, <3>1 DEF AcquireSession, TypeOK
  <2>3. CASE ActiveTokens # {}
    <3>1. PICK t \in ActiveTokens : sessions' = Append(Ended(sessions, t, "expired"), NewSession(u, d))
      BY <1>5, <2>3 DEF AcquireSession
    <3>2. /\ Ended(sessions, t, "expired") \in Seq(SessionRow)
          /\ Len(Ended(sessions, t, "expired")) = Len(sessions)
      BY <1>2, SessionsType DEF SessionStatus
    <3>3. QED
      BY <1>1, <1>3, <1>5, <2>1, <3>1, <3>2 DEF AcquireSession
  <2>4. QED
    BY <2>2, <2>3
<1>6. ASSUME NEW d \in Devices, TakeOverSession(u, d) PROVE TypeOK'
  <2>1. Len(sessions) + 1 =< MaxSessions
    BY <1>6, BoundAssumption DEF TakeOverSession, CanAppendSession, TypeOK
  <2>2. PICK t \in ActiveTokens : sessions' = Append(Ended(sessions, t, "taken_over"), NewSession(u, d))
    BY <1>6 DEF TakeOverSession
  <2>3. /\ Ended(sessions, t, "taken_over") \in Seq(SessionRow)
        /\ Len(Ended(sessions, t, "taken_over")) = Len(sessions)
    BY <1>2, SessionsType DEF SessionStatus
  <2>4. UNCHANGED <<clock, record, scorers, requests>>
    BY <1>6 DEF TakeOverSession
  <2>5. sessions' \in Seq(SessionRow) /\ Len(sessions') = Len(sessions) + 1
    BY <1>1, <2>2, <2>3
  <2>6. QED
    BY <1>3, <2>1, <2>4, <2>5
<1>7. ASSUME NEW token \in DOMAIN sessions, Heartbeat(u, token) PROVE TypeOK'
  BY <1>3, <1>7, SessionsType DEF Heartbeat, TypeOK
<1>8. ASSUME NEW token \in DOMAIN sessions, ReleaseSession(u, token) PROVE TypeOK'
  BY <1>3, <1>8, SessionsType DEF ReleaseSession, SessionStatus, TypeOK
<1>9. QED
  BY <1>4, <1>5, <1>6, <1>7, <1>8 DEF LeaseStep

\* What the ledger of every scoring write is.
LEMMA LedgerType ==
    ASSUME TypeOK
    PROVE  /\ \A id \in BallIds, p \in Players : Append(ledger, [id |-> id, player |-> p]) \in Seq(Ball)
           /\ \A i \in DOMAIN ledger, p \in Players : [ledger EXCEPT ![i].player = p] \in Seq(Ball)
           /\ \A i \in DOMAIN ledger : RemoveAt(ledger, i) \in Seq(Ball)
<1>1. ASSUME NEW id \in BallIds, NEW p \in Players
      PROVE  Append(ledger, [id |-> id, player |-> p]) \in Seq(Ball)
  BY DEF TypeOK, Ball
<1>2. ASSUME NEW i \in DOMAIN ledger, NEW p \in Players
      PROVE  [ledger EXCEPT ![i].player = p] \in Seq(Ball)
  <2>1. \A b \in Ball : [b EXCEPT !.player = p] \in Ball
    BY DEF Ball
  <2>2. QED
    BY <2>1 DEF TypeOK
<1>3. ASSUME NEW i \in DOMAIN ledger
      PROVE  RemoveAt(ledger, i) \in Seq(Ball)
  <2>1. i \in 1 .. Len(ledger)
    BY DEF TypeOK
  <2>2. SubSeq(ledger, 1, i - 1) \in Seq(Ball) /\ SubSeq(ledger, i + 1, Len(ledger)) \in Seq(Ball)
    BY <2>1 DEF TypeOK
  <2>3. RemoveAt(ledger, i) = SubSeq(ledger, 1, i - 1) \o SubSeq(ledger, i + 1, Len(ledger))
    BY DEF RemoveAt
  <2>4. \A s, t \in Seq(Ball) : s \o t \in Seq(Ball)
    OBVIOUS
  <2>5. QED
    BY <2>2, <2>3, <2>4
<1>4. QED
  BY <1>1, <1>2, <1>3

LEMMA ScoringWriteType ==
    ASSUME TypeOK, NEW u \in Users, NEW token \in DOMAIN sessions, NEW v \in 0 .. MaxVersion,
           ScoringWrite(u, token, v)
    PROVE  TypeOK'
<1> DEFINE
      LeaseKept == sessions' = Renewed(token) \/ sessions' = Ended(Renewed(token), token, "released")
<1>1. LeaseKept => sessions' \in Seq(SessionRow) /\ Len(sessions') =< MaxSessions
  BY SessionsType DEF TypeOK, SessionStatus
<1>2. PlayingXI(squad) \in SUBSET Players
  BY DEF PlayingXI, TypeOK
<1>3. match.version < MaxVersion => Advanced \in MatchRow
  BY AdvancedType
<1>4. ASSUME NEW m \in MatchRow, NEW xi \in SUBSET Players, ReconcileLiveScorecard(m, ledger, xi),
             LeaseKept, UNCHANGED <<clock, ledger, result, scorers, requests>>,
             squad' \in SUBSET Players
      PROVE  TypeOK'
  <2>1. match' \in MatchRow /\ IsStatLines(scorecard') /\ IsStatLines(career')
    BY <1>4, ReconcileType DEF TypeOK
  <2>2. IsResultRow(result)'
    BY <1>4 DEF TypeOK, IsResultRow, IsStatLines
  <2>3. QED
    BY <1>1, <1>4, <2>1, <2>2 DEF TypeOK
<1>5. ASSUME match.version < MaxVersion, ledger' \in Seq(Ball), NEW reopened \in BOOLEAN,
             RebuildAfter(ledger', reopened), LeaseKept, UNCHANGED <<clock, squad, scorers, requests>>
      PROVE  TypeOK'
  BY <1>1, <1>5, RebuildType DEF TypeOK
<1>6. CASE StartLiveScore(u, token, v)
  <2>1. [Advanced EXCEPT !.status = "live"] \in MatchRow
    BY <1>3, <1>6 DEF StartLiveScore, BeginScoringWrite, MatchRow, Status
  <2>2. QED
    BY <1>2, <1>3, <1>4, <1>6, <2>1 DEF StartLiveScore, BeginScoringWrite, TypeOK
<1>7. CASE SaveLiveMatchSetup(u, token, v)
  BY <1>2, <1>3, <1>4, <1>7 DEF SaveLiveMatchSetup, BeginScoringWrite, TypeOK
<1>8a. CASE ClearLiveMatchConditions(u, token, v)
  <2>1. [Advanced EXCEPT !.target = NoTarget] \in MatchRow
    BY <1>3, <1>8a DEF ClearLiveMatchConditions, BeginScoringWrite, MatchRow
  <2>2. QED
    BY <1>2, <1>4, <1>8a, <2>1 DEF ClearLiveMatchConditions, TypeOK
<1>8. ASSUME NEW target \in Targets \cup {NoTarget}, SaveLiveMatchConditions(u, token, v, target)
      PROVE  TypeOK'
  <2>1. [Advanced EXCEPT !.target = target] \in MatchRow
    BY <1>3, <1>8 DEF SaveLiveMatchConditions, BeginScoringWrite, MatchRow
  <2>2. QED
    BY <1>2, <1>4, <1>8, <2>1 DEF SaveLiveMatchConditions, TypeOK
<1>9. ASSUME NEW registered \in SUBSET Players, SaveMatchDaySquad(u, token, v, registered)
      PROVE  TypeOK'
  BY <1>3, <1>4, <1>9 DEF SaveMatchDaySquad, BeginScoringWrite
<1>10. ASSUME NEW id \in BallIds, NEW p \in Players, CreateLiveBall(u, token, v, id, p)
       PROVE  TypeOK'
  BY <1>5, <1>10, LedgerType DEF CreateLiveBall, BeginScoringWrite
<1>11. ASSUME NEW i \in DOMAIN ledger, NEW p \in Players, UpdateLiveBall(u, token, v, i, p)
       PROVE  TypeOK'
  BY <1>5, <1>11, LedgerType DEF UpdateLiveBall, BeginScoringWrite
<1>12. ASSUME NEW i \in DOMAIN ledger, DeleteLiveBall(u, token, v, i)
       PROVE  TypeOK'
  BY <1>5, <1>12, LedgerType DEF DeleteLiveBall, BeginScoringWrite
<1>13. CASE DeleteLastLiveBall(u, token, v)
  <2>1. Len(ledger) \in DOMAIN ledger
    BY <1>13 DEF DeleteLastLiveBall, TypeOK
  <2>2. QED
    BY <1>5, <1>13, <2>1, LedgerType DEF DeleteLastLiveBall, BeginScoringWrite
<1>14. CASE ReconcileScorecard(u, token, v)
  BY <1>5, <1>14 DEF ReconcileScorecard, BeginScoringWrite, TypeOK
<1>15. CASE CompleteLiveScore(u, token, v)
  BY <1>1, <1>3, <1>15, FinalizeType DEF CompleteLiveScore, BeginScoringWrite, TypeOK
<1>16. ASSUME NEW status \in {"abandoned", "cancelled"}, CallOffLiveScore(u, token, v, status)
       PROVE  TypeOK'
  <2>1. [Advanced EXCEPT !.status = status, !.finalizedAt = NoTime] \in MatchRow
    BY <1>3, <1>16 DEF CallOffLiveScore, BeginScoringWrite, MatchRow, Status
  <2>2. QED
    BY <1>2, <1>4, <1>16, <2>1 DEF CallOffLiveScore, TypeOK
<1>17. CASE ResetLiveTestMatch(u, token, v)
  <2>1. match.version + 1 \in 0 .. MaxVersion
    BY <1>17, BoundAssumption DEF ResetLiveTestMatch, BeginScoringWrite, TypeOK, MatchRow
  <2>2. match' \in MatchRow
    BY <1>17, <2>1 DEF ResetLiveTestMatch, MatchRow, Status
  <2>3. IsStatLines(career')
    BY <1>17, NoRowsType, RecomputedType DEF ResetLiveTestMatch, TypeOK
  <2>4. IsResultRow(result')
    BY <1>17, NoRowsType DEF ResetLiveTestMatch, NoResult, IsResultRow
  <2>5. IsStatLines(scorecard')
    BY <1>17, NoRowsType DEF ResetLiveTestMatch
  <2>6. /\ ledger' \in Seq(Ball)
        /\ squad' \in SUBSET Players
        /\ requests' \in Seq(RequestRow)
        /\ Len(requests') =< MaxRequests
    BY <1>17, BoundAssumption DEF ResetLiveTestMatch
  <2>7. LeaseKept /\ UNCHANGED <<clock, scorers>>
    BY <1>17 DEF ResetLiveTestMatch
  <2>8. QED
    BY <1>1, <2>2, <2>3, <2>4, <2>5, <2>6, <2>7 DEF TypeOK
<1>18. QED
  BY <1>6, <1>7, <1>8, <1>8a, <1>9, <1>10, <1>11, <1>12, <1>13, <1>14, <1>15, <1>16, <1>17
     DEF ScoringWrite

LEMMA RequestStepType ==
    ASSUME TypeOK,
           \/ \E u \in Scorers : RequestScorecardEditAccess(u)
           \/ \E i \in DOMAIN requests, approved \in BOOLEAN : DecideScorecardEditRequest(i, approved)
    PROVE  TypeOK'
<1>1. ASSUME requests' \in Seq(RequestRow), Len(requests') =< MaxRequests,
             UNCHANGED <<clock, record, sessions, scorers>>
      PROVE  TypeOK'
  BY <1>1 DEF TypeOK, record, IsStatLines, IsResultRow
<1>2. ASSUME NEW u \in Scorers, RequestScorecardEditAccess(u) PROVE TypeOK'
  <2>1. [user |-> u, status |-> "pending", until |-> NoTime] \in RequestRow
    BY DEF RequestRow
  <2>2. QED
    BY <1>1, <1>2, <2>1, BoundAssumption DEF RequestScorecardEditAccess, TypeOK
<1>3. ASSUME NEW i \in DOMAIN requests, NEW approved \in BOOLEAN,
             DecideScorecardEditRequest(i, approved)
      PROVE  TypeOK'
  <2>1. clock + AccessWindow \in Nat
    BY DurationAssumption, BoundAssumption DEF TypeOK
  <2>2. \A row \in RequestRow : [row EXCEPT !.status = "approved", !.until = clock + AccessWindow]
                                 \in RequestRow
    BY <2>1 DEF RequestRow
  <2>3. \A row \in RequestRow : [row EXCEPT !.status = "denied", !.until = NoTime] \in RequestRow
    BY DEF RequestRow
  <2>4. requests[i] \in RequestRow
    BY DEF TypeOK
  <2>5. PICK row \in RequestRow : requests' = [requests EXCEPT ![i] = row]
    BY <1>3, <2>2, <2>3, <2>4, Zenon DEF DecideScorecardEditRequest
  <2>6. requests' \in Seq(RequestRow) /\ Len(requests') = Len(requests)
    BY <2>5 DEF TypeOK
  <2>7. UNCHANGED <<clock, record, sessions, scorers>>
    BY <1>3 DEF DecideScorecardEditRequest
  <2>8. QED
    BY <1>1, <2>6, <2>7 DEF TypeOK
<1>4. QED
  BY <1>2, <1>3

\* Every variable keeps its type: in particular no write leaves a status, a
\* lease state or a request state the code does not know.
THEOREM TypeCorrect == Spec => []TypeOK
<1>1. Init => TypeOK
  BY BoundAssumption, NoRowsType
     DEF Init, TypeOK, MatchRow, Status, IsResultRow, NoResult
<1>2. TypeOK /\ [Next]_vars => TypeOK'
  <2> SUFFICES ASSUME TypeOK, [Next]_vars PROVE TypeOK'
    OBVIOUS
  <2>1. ASSUME NEW assigned \in SUBSET Scorers, SetMatchScorers(assigned) PROVE TypeOK'
    BY <2>1 DEF SetMatchScorers, TypeOK, record, IsStatLines, IsResultRow
  <2>2. CASE Tick
    BY <2>2, BoundAssumption DEF Tick, TypeOK, record, IsStatLines, IsResultRow
  <2>3. CASE UNCHANGED vars
    BY <2>3 DEF vars, TypeOK, record, IsStatLines, IsResultRow
  <2>4. QED
    BY <2>1, <2>2, <2>3, LeaseStepType, ScoringWriteType, RequestStepType DEF Next
<1>3. QED
  BY <1>1, <1>2, PTL DEF Spec

-----------------------------------------------------------------------------
(* The ledger and the scorecard *)

\* The inductive invariant.  CompletedFiguresCounted is not inductive alone:
\* reconciling an empty ledger drops career totals, and only
\* CompletedResultFollowsLedger says that a completed match is not empty.
LedgerInv ==
    /\ NoDuplicateBall
    /\ FiguresFollowLedger
    /\ AlwaysReconciled
    /\ CompletedResultFollowsLedger
    /\ CompletedFiguresCounted

-----------------------------------------------------------------------------
(* The rows and the totals of a ledger *)

\* Nobody has faced a ball of no ledger.
LEMMA EmptyLedger == Batted(<<>>) = {}
BY DEF Batted

\* The rows of a rebuild: the figures of everybody the balls credit, zero
\* for the others, who are in the eleven.
LEMMA StatRowsValue ==
    ASSUME NEW balls \in Seq(Ball), NEW xi
    PROVE  /\ \A p \in Batted(balls) :
                 /\ p \in DOMAIN StatRows(balls, xi)
                 /\ StatRows(balls, xi)[p] = Deliveries(balls, p)
           /\ \A p \in DOMAIN StatRows(balls, xi) \ Batted(balls) :
                 StatRows(balls, xi)[p] = 0 /\ p \in xi
<1>1. ASSUME NEW p, p \notin Batted(balls)
      PROVE  Deliveries(balls, p) = 0
  <2>1. {i \in DOMAIN balls : balls[i].player = p} = {}
    BY <1>1 DEF Batted
  <2>2. QED
    BY <2>1, FS_EmptySet DEF Deliveries
<1>2. QED
  BY <1>1 DEF StatRows

\* Removing the i-th element leaves the others in their order.
LEMMA RemoveAtValue ==
    ASSUME NEW balls \in Seq(Ball), NEW i \in DOMAIN balls
    PROVE  /\ Len(RemoveAt(balls, i)) = Len(balls) - 1
           /\ \A j \in 1 .. (Len(balls) - 1) :
                 RemoveAt(balls, i)[j] = balls[IF j < i THEN j ELSE j + 1]
<1> DEFINE before == SubSeq(balls, 1, i - 1)
           after == SubSeq(balls, i + 1, Len(balls))
<1>1. i \in 1 .. Len(balls) /\ Len(balls) \in Nat
  OBVIOUS
<1>2. /\ before \in Seq(Ball) /\ Len(before) = i - 1
      /\ \A j \in 1 .. (i - 1) : before[j] = balls[j]
  BY <1>1
<1>3. /\ after \in Seq(Ball) /\ Len(after) = Len(balls) - i
      /\ \A j \in 1 .. (Len(balls) - i) : after[j] = balls[i + j]
  BY <1>1
<1>4. RemoveAt(balls, i) = before \o after
  BY DEF RemoveAt
<1> HIDE DEF before, after
<1>5. Len(before \o after) = Len(balls) - 1
  BY <1>1, <1>2, <1>3
<1>6. ASSUME NEW j \in 1 .. (Len(balls) - 1)
      PROVE  (before \o after)[j] = balls[IF j < i THEN j ELSE j + 1]
  <2>1. CASE j < i
    BY <1>1, <1>2, <1>3, <2>1
  <2>2. CASE j >= i
    <3>1. (before \o after)[j] = after[j - (i - 1)]
      BY <1>1, <1>2, <1>3, <2>2
    <3>2. j - (i - 1) \in 1 .. (Len(balls) - i) /\ i + (j - (i - 1)) = j + 1
      BY <1>1, <2>2
    <3>3. QED
      BY <1>3, <2>2, <3>1, <3>2
  <2>3. j < i \/ j >= i
    BY <1>1
  <2>4. QED
    BY <2>1, <2>2, <2>3, Zenon
<1>7. QED
  BY <1>4, <1>5, <1>6

-----------------------------------------------------------------------------
(* A rebuild establishes what it is for *)

\* Reconciling without finalising: the figures follow the ledger, the match
\* is marked reconciled, and a result that followed the ledger still does.
LEMMA ReconcileKeeps ==
    ASSUME TypeOK, LedgerInv, NEW m \in MatchRow, NEW xi,
           ReconcileLiveScorecard(m, ledger', xi), ledger' \in Seq(Ball),
           xi \subseteq PlayingXI(squad)',
           NoDuplicateBall',
           m.status = "completed" =>
               /\ match.status = "completed"
               /\ m.finalizedAt = match.finalizedAt
               /\ UNCHANGED <<ledger, result>>
    PROVE  LedgerInv'
<1>1. /\ match'.version = m.version
      /\ match'.reconciled = m.version
      /\ match'.status = m.status
      /\ match'.finalizedAt = m.finalizedAt
  BY DEF ReconcileLiveScorecard, MatchRow
<1>2. FiguresFollowLedger'
  <2>1. CASE ledger' = <<>>
    BY <2>1, EmptyLedger DEF FiguresFollowLedger, ReconcileLiveScorecard, NoRows
  <2>2. CASE ledger' # <<>>
    <3>1. scorecard' = StatRows(ledger', xi)
      BY <2>2 DEF ReconcileLiveScorecard
    <3>2. QED
      BY <3>1, StatRowsValue DEF FiguresFollowLedger
  <2>3. QED
    BY <2>1, <2>2
<1>3. CompletedResultFollowsLedger'
  BY <1>1 DEF LedgerInv, CompletedResultFollowsLedger
<1>4. CompletedFiguresCounted'
  <2>1. SUFFICES ASSUME match'.status = "completed"
                 PROVE  CompletedFiguresCounted'
    BY DEF CompletedFiguresCounted
  <2>2. ledger' = ledger /\ ledger # <<>>
    BY <1>1, <2>1 DEF LedgerInv, CompletedResultFollowsLedger
  <2>3. career' = career
    BY <2>2 DEF ReconcileLiveScorecard
  <2>4. QED
    BY <1>1, <2>1, <2>2, <2>3 DEF LedgerInv, CompletedFiguresCounted
<1>5. QED
  BY <1>1, <1>2, <1>3, <1>4 DEF LedgerInv, AlwaysReconciled

\* Finalising establishes the whole invariant, whatever held before.
LEMMA FinalizeEstablishes ==
    ASSUME TypeOK, NEW m \in MatchRow, FinalizeLiveMatchResult(m, ledger'),
           ledger' \in Seq(Ball), squad' = squad, NoDuplicateBall'
    PROVE  LedgerInv'
<1> DEFINE rows == StatRows(ledger', PlayingXI(squad))
<1>1. /\ ledger' # <<>>
      /\ match'.version = m.version
      /\ match'.reconciled = m.version
      /\ match'.status = "completed"
      /\ match'.finalizedAt = IF m.finalizedAt = NoTime THEN clock ELSE m.finalizedAt
      /\ result' = [status |-> "official", figures |-> Figures(ledger'), target |-> m.target]
      /\ scorecard' = rows
      /\ career' = Recomputed(DOMAIN scorecard \cup DOMAIN rows, rows)
  BY DEF FinalizeLiveMatchResult, MatchRow
<1>2. match'.finalizedAt # NoTime
  <2>1. clock # NoTime
    BY BoundAssumption DEF TypeOK, NoTime
  <2>2. QED
    BY <1>1, <2>1
<1>3. FiguresFollowLedger'
  BY <1>1, StatRowsValue DEF FiguresFollowLedger, PlayingXI
<1>4. CompletedResultFollowsLedger'
  BY <1>1, <1>2 DEF CompletedResultFollowsLedger
<1>5. \A p \in Batted(ledger') : p \in DOMAIN rows /\ rows[p] = Deliveries(ledger', p)
  BY StatRowsValue
<1> HIDE DEF rows
<1>6. CompletedFiguresCounted'
  BY <1>1, <1>5 DEF CompletedFiguresCounted, Recomputed
<1>7. QED
  BY <1>1, <1>3, <1>4, <1>6 DEF LedgerInv, AlwaysReconciled

\* So does what every change of the ledger ends with.
LEMMA RebuildKeeps ==
    ASSUME TypeOK, LedgerInv, match.version < MaxVersion, NEW reopened \in BOOLEAN,
           RebuildAfter(ledger', reopened), ledger' \in Seq(Ball), squad' = squad,
           NoDuplicateBall'
    PROVE  LedgerInv'
<1>1. Advanced \in MatchRow
  BY AdvancedType
<1>2. CASE HasFinalResult
  BY <1>1, <1>2, FinalizeEstablishes DEF RebuildAfter
<1>3. CASE ~HasFinalResult
  <2>1. match.status # "completed"
    BY <1>3 DEF HasFinalResult, LedgerInv, CompletedResultFollowsLedger
  <2>2. PICK m \in MatchRow : /\ ReconcileLiveScorecard(m, ledger', PlayingXI(squad))
                              /\ m.status # "completed"
    <3>1. Advanced.status # "completed"
      BY <2>1 DEF Advanced, TypeOK, MatchRow
    <3>2. /\ [Advanced EXCEPT !.status = "live"] \in MatchRow
          /\ [Advanced EXCEPT !.status = "live"].status # "completed"
      BY <1>1 DEF MatchRow, Status
    <3>3. QED
      BY <1>1, <1>3, <3>1, <3>2, Zenon DEF RebuildAfter
  <2>3. PlayingXI(squad) \subseteq PlayingXI(squad)'
    BY DEF PlayingXI
  <2>4. QED
    BY <2>2, <2>3, ReconcileKeeps
<1>4. QED
  BY <1>2, <1>3

-----------------------------------------------------------------------------
(* The ledger itself *)

\* No write of the ledger records a delivery twice.
LEMMA NoDuplicateStep ==
    ASSUME TypeOK, NoDuplicateBall,
           \/ ledger' = ledger
           \/ \E id \in BallIds, p \in Players :
                 /\ \A i \in DOMAIN ledger : ledger[i].id # id
                 /\ ledger' = Append(ledger, [id |-> id, player |-> p])
           \/ \E i \in DOMAIN ledger, p \in Players : ledger' = [ledger EXCEPT ![i].player = p]
           \/ \E i \in DOMAIN ledger : ledger' = RemoveAt(ledger, i)
    PROVE  NoDuplicateBall'
<1>1. ledger \in Seq(Ball)
  BY DEF TypeOK
<1>2. CASE ledger' = ledger
  BY <1>2 DEF NoDuplicateBall
<1>3. ASSUME NEW id \in BallIds, NEW p \in Players,
             \A i \in DOMAIN ledger : ledger[i].id # id,
             ledger' = Append(ledger, [id |-> id, player |-> p])
      PROVE  NoDuplicateBall'
  BY <1>1, <1>3 DEF NoDuplicateBall, Ball
<1>4. ASSUME NEW i \in DOMAIN ledger, NEW p \in Players, ledger' = [ledger EXCEPT ![i].player = p]
      PROVE  NoDuplicateBall'
  <2>1. DOMAIN ledger' = DOMAIN ledger
    BY <1>4
  <2>2. \A j \in DOMAIN ledger : ledger'[j].id = ledger[j].id
    BY <1>1, <1>4 DEF Ball
  <2>3. QED
    BY <2>1, <2>2 DEF NoDuplicateBall
<1>5. ASSUME NEW i \in DOMAIN ledger, ledger' = RemoveAt(ledger, i)
      PROVE  NoDuplicateBall'
  <2> DEFINE old(j) == IF j < i THEN j ELSE j + 1
  <2>1. DOMAIN ledger' = 1 .. (Len(ledger) - 1)
    <3>1. ledger' \in Seq(Ball)
      BY <1>5, LedgerType
    <3>2. QED
      BY <1>1, <1>5, <3>1, RemoveAtValue
  <2>2. \A j \in DOMAIN ledger' : old(j) \in DOMAIN ledger /\ ledger'[j] = ledger[old(j)]
    BY <1>1, <1>5, <2>1, RemoveAtValue
  <2>3. \A j, k \in DOMAIN ledger' : old(j) = old(k) => j = k
    BY <1>1, <2>1
  <2> HIDE DEF old
  <2>4. QED
    BY <2>2, <2>3 DEF NoDuplicateBall
<1>6. QED
  BY <1>2, <1>3, <1>4, <1>5
-----------------------------------------------------------------------------
(* Every step *)

\* Leases, assignments, edit requests and time leave the record alone.
LEMMA RecordUnchanged ==
    ASSUME TypeOK, LedgerInv, UNCHANGED record
    PROVE  LedgerInv'
BY DEF record, LedgerInv, NoDuplicateBall, FiguresFollowLedger, AlwaysReconciled,
       CompletedResultFollowsLedger, CompletedFiguresCounted

LEMMA ScoringWriteKeeps ==
    ASSUME TypeOK, TypeOK', LedgerInv, NEW u \in Users, NEW token \in DOMAIN sessions,
           NEW v \in 0 .. MaxVersion, ScoringWrite(u, token, v)
    PROVE  LedgerInv'
<1>1. match \in MatchRow /\ ledger' \in Seq(Ball) /\ ledger \in Seq(Ball)
  BY DEF TypeOK
<1>2. match.version < MaxVersion
  BY DEF ScoringWrite, BeginScoringWrite, StartLiveScore, SaveLiveMatchSetup,
         ClearLiveMatchConditions, SaveLiveMatchConditions, SaveMatchDaySquad, CreateLiveBall, UpdateLiveBall,
         DeleteLiveBall, DeleteLastLiveBall, ReconcileScorecard, CompleteLiveScore,
         CallOffLiveScore, ResetLiveTestMatch
<1>3. /\ Advanced \in MatchRow
      /\ Advanced.status = match.status
      /\ Advanced.finalizedAt = match.finalizedAt
  BY <1>1, <1>2, AdvancedType DEF Advanced, MatchRow
<1>4. NoDuplicateBall
  BY DEF LedgerInv
<1>5. ASSUME ledger' = ledger PROVE NoDuplicateBall'
  BY <1>4, <1>5, NoDuplicateStep
<1>6. ASSUME NEW m \in MatchRow, ReconcileLiveScorecard(m, ledger, PlayingXI(squad)),
             UNCHANGED <<ledger, squad, result>>,
             m.status = "completed" =>
                 match.status = "completed" /\ m.finalizedAt = match.finalizedAt
      PROVE  LedgerInv'
  <2>1. PlayingXI(squad) \subseteq PlayingXI(squad)'
    BY <1>6 DEF PlayingXI
  <2>2. ReconcileLiveScorecard(m, ledger', PlayingXI(squad))
    BY <1>6 DEF ReconcileLiveScorecard
  <2>3. QED
    BY <1>1, <1>5, <1>6, <2>1, <2>2, ReconcileKeeps
<1>7. ASSUME NEW reopened \in BOOLEAN, RebuildAfter(ledger', reopened), squad' = squad,
             NoDuplicateBall'
      PROVE  LedgerInv'
  BY <1>1, <1>2, <1>7, RebuildKeeps
<1>8. CASE StartLiveScore(u, token, v)
  <2>1. PICK m \in MatchRow :
            /\ ReconcileLiveScorecard(m, ledger, PlayingXI(squad))
            /\ m.status = "completed" =>
                  match.status = "completed" /\ m.finalizedAt = match.finalizedAt
    <3>1. /\ [Advanced EXCEPT !.status = "live"] \in MatchRow
          /\ [Advanced EXCEPT !.status = "live"].status # "completed"
      BY <1>3 DEF MatchRow, Status
    <3>2. QED
      BY <1>3, <1>8, <3>1, Zenon DEF StartLiveScore
  <2>2. QED
    BY <1>6, <1>8, <2>1 DEF StartLiveScore
<1>9. CASE SaveLiveMatchSetup(u, token, v)
  BY <1>3, <1>6, <1>9 DEF SaveLiveMatchSetup
<1>9a. CASE ClearLiveMatchConditions(u, token, v)
  <2>1. /\ [Advanced EXCEPT !.target = NoTarget] \in MatchRow
        /\ [Advanced EXCEPT !.target = NoTarget].status = match.status
        /\ [Advanced EXCEPT !.target = NoTarget].finalizedAt = match.finalizedAt
    BY <1>3 DEF MatchRow
  <2>2. QED
    BY <1>6, <1>9a, <2>1 DEF ClearLiveMatchConditions
<1>10. ASSUME NEW target \in Targets \cup {NoTarget}, SaveLiveMatchConditions(u, token, v, target)
       PROVE  LedgerInv'
  <2>1. /\ [Advanced EXCEPT !.target = target] \in MatchRow
        /\ [Advanced EXCEPT !.target = target].status = match.status
        /\ [Advanced EXCEPT !.target = target].finalizedAt = match.finalizedAt
    BY <1>3 DEF MatchRow
  <2>2. QED
    BY <1>6, <1>10, <2>1 DEF SaveLiveMatchConditions
<1>11. ASSUME NEW registered \in SUBSET Players, SaveMatchDaySquad(u, token, v, registered)
       PROVE  LedgerInv'
  <2>1. ReconcileLiveScorecard(Advanced, ledger', {})
    BY <1>11 DEF SaveMatchDaySquad, ReconcileLiveScorecard
  <2>2. UNCHANGED <<ledger, result>>
    BY <1>11 DEF SaveMatchDaySquad
  <2>3. QED
    BY <1>1, <1>3, <1>5, <2>1, <2>2, ReconcileKeeps
<1>12. ASSUME NEW id \in BallIds, NEW p \in Players, CreateLiveBall(u, token, v, id, p)
       PROVE  LedgerInv'
  <2>1. NoDuplicateBall'
    BY <1>4, <1>12, NoDuplicateStep DEF CreateLiveBall
  <2>2. QED
    BY <1>7, <1>12, <2>1 DEF CreateLiveBall
<1>13. ASSUME NEW i \in DOMAIN ledger, NEW p \in Players, UpdateLiveBall(u, token, v, i, p)
       PROVE  LedgerInv'
  <2>1. NoDuplicateBall'
    BY <1>4, <1>13, NoDuplicateStep DEF UpdateLiveBall
  <2>2. QED
    BY <1>7, <1>13, <2>1 DEF UpdateLiveBall
<1>14. ASSUME NEW i \in DOMAIN ledger, DeleteLiveBall(u, token, v, i)
       PROVE  LedgerInv'
  <2>1. NoDuplicateBall'
    BY <1>4, <1>14, NoDuplicateStep DEF DeleteLiveBall
  <2>2. QED
    BY <1>7, <1>14, <2>1 DEF DeleteLiveBall
<1>15. CASE DeleteLastLiveBall(u, token, v)
  <2>1. Len(ledger) \in DOMAIN ledger
    BY <1>1, <1>15 DEF DeleteLastLiveBall
  <2>2. NoDuplicateBall'
    BY <1>4, <1>15, <2>1, NoDuplicateStep DEF DeleteLastLiveBall
  <2>3. QED
    BY <1>7, <1>15, <2>2 DEF DeleteLastLiveBall
<1>16. CASE ReconcileScorecard(u, token, v)
  <2>1. RebuildAfter(ledger', FALSE)
    BY <1>16 DEF ReconcileScorecard
  <2>2. QED
    BY <1>5, <1>7, <1>16, <2>1 DEF ReconcileScorecard
<1>17. CASE CompleteLiveScore(u, token, v)
  <2>1. FinalizeLiveMatchResult(Advanced, ledger') /\ squad' = squad /\ NoDuplicateBall'
    BY <1>5, <1>17 DEF CompleteLiveScore
  <2>2. QED
    BY <1>1, <1>3, <2>1, FinalizeEstablishes
<1>18. ASSUME NEW status \in {"abandoned", "cancelled"}, CallOffLiveScore(u, token, v, status)
       PROVE  LedgerInv'
  <2>1. /\ [Advanced EXCEPT !.status = status, !.finalizedAt = NoTime] \in MatchRow
        /\ [Advanced EXCEPT !.status = status, !.finalizedAt = NoTime].status # "completed"
    BY <1>3 DEF MatchRow, Status
  <2>2. QED
    BY <1>6, <1>18, <2>1 DEF CallOffLiveScore
<1>19. CASE ResetLiveTestMatch(u, token, v)
  <2>1. /\ ledger' = <<>>
        /\ scorecard' = NoRows
        /\ match'.status = "scheduled"
        /\ match'.reconciled = match'.version
    BY <1>19 DEF ResetLiveTestMatch
  <2>2. NoDuplicateBall' /\ FiguresFollowLedger'
    BY <2>1, EmptyLedger DEF NoDuplicateBall, FiguresFollowLedger, NoRows
  <2>3. QED
    BY <2>1, <2>2
       DEF LedgerInv, AlwaysReconciled, CompletedResultFollowsLedger, CompletedFiguresCounted
<1>20. QED
  BY <1>8, <1>9, <1>9a, <1>10, <1>11, <1>12, <1>13, <1>14, <1>15, <1>16, <1>17, <1>18, <1>19
     DEF ScoringWrite

-----------------------------------------------------------------------------
(* What the ledger promises *)

\* Through every history of scoring, correcting, finalising, calling off and
\* resetting a match, the ledger names each delivery once and everything the
\* server derives from it follows it.
THEOREM LedgerCorrect == Spec => []LedgerInv
<1>1. Init => LedgerInv
  BY EmptyLedger
     DEF Init, LedgerInv, NoDuplicateBall, FiguresFollowLedger, AlwaysReconciled,
         CompletedResultFollowsLedger, CompletedFiguresCounted, NoRows
<1>2. TypeOK /\ TypeOK' /\ LedgerInv /\ [Next]_vars => LedgerInv'
  <2> SUFFICES ASSUME TypeOK, TypeOK', LedgerInv, [Next]_vars PROVE LedgerInv'
    OBVIOUS
  <2>1. ASSUME NEW u \in Users, LeaseStep(u) PROVE LedgerInv'
    BY <2>1, RecordUnchanged
       DEF LeaseStep, RenewSession, AcquireSession, TakeOverSession, Heartbeat, ReleaseSession
  <2>2. ASSUME NEW assigned \in SUBSET Scorers, SetMatchScorers(assigned) PROVE LedgerInv'
    BY <2>2, RecordUnchanged DEF SetMatchScorers
  <2>3. ASSUME NEW u \in Scorers, RequestScorecardEditAccess(u) PROVE LedgerInv'
    BY <2>3, RecordUnchanged DEF RequestScorecardEditAccess
  <2>4. ASSUME NEW i \in DOMAIN requests, NEW approved \in BOOLEAN,
               DecideScorecardEditRequest(i, approved)
        PROVE  LedgerInv'
    BY <2>4, RecordUnchanged DEF DecideScorecardEditRequest
  <2>5. CASE Tick
    BY <2>5, RecordUnchanged DEF Tick
  <2>6. CASE UNCHANGED vars
    BY <2>6, RecordUnchanged DEF vars
  <2>7. QED
    BY <2>1, <2>2, <2>3, <2>4, <2>5, <2>6, ScoringWriteKeeps DEF Next
<1>3. QED
  BY <1>1, <1>2, TypeCorrect, PTL DEF Spec

\* After every sequence of writes no delivery is in the ledger twice, the
\* stored figures are those of the ledger, the scorecard is reconciled, and a
\* completed match has a result and career totals computed from the ledger as
\* it stands.
THEOREM DerivedFollowsLedger ==
    Spec => [](/\ NoDuplicateBall
               /\ FiguresFollowLedger
               /\ AlwaysReconciled
               /\ CompletedResultFollowsLedger
               /\ CompletedFiguresCounted)
<1>1. LedgerInv => /\ NoDuplicateBall
                   /\ FiguresFollowLedger
                   /\ AlwaysReconciled
                   /\ CompletedResultFollowsLedger
                   /\ CompletedFiguresCounted
  BY DEF LedgerInv
<1>2. QED
  BY <1>1, LedgerCorrect, PTL

\* No retry, whatever was undone, corrected or reset since, puts a delivery
\* into the ledger a second time: create_live_ball looks client_event_id up
\* under the lock of the match.
THEOREM DeliveriesStayUnique == Spec => []NoDuplicateBall
BY DerivedFollowsLedger, PTL

\* Every write of a scoring handler leaves the scorecard reconciled, so no
\* scoring screen starts a repair on its own.
THEOREM ScorecardStaysReconciled == Spec => []AlwaysReconciled
BY DerivedFollowsLedger, PTL

\* A match that is shown as completed has deliveries, and its official result
\* is the one of the ledger as it stands, after corrections too.
THEOREM CompletedResultStands == Spec => []CompletedResultFollowsLedger
BY DerivedFollowsLedger, PTL

\* The career totals of the players of a completed match are those of its
\* ledger as it stands.
THEOREM CompletedTotalsStand == Spec => []CompletedFiguresCounted
BY DerivedFollowsLedger, PTL

-----------------------------------------------------------------------------
\* What OneActiveSession says, without counting.
SingleLease == \A s, t \in ActiveTokens : s = t

LEMMA SingleLeaseIsOne ==
    ASSUME TypeOK, SingleLease
    PROVE  OneActiveSession
<1>1. CASE ActiveTokens = {}
  BY <1>1, FS_EmptySet DEF OneActiveSession
<1>2. CASE ActiveTokens # {}
  <2>1. PICK t : ActiveTokens = {t}
    BY <1>2 DEF SingleLease
  <2>2. QED
    BY <2>1, FS_Singleton DEF OneActiveSession
<1>3. QED
  BY <1>1, <1>2

\* Renewing a lease or releasing it opens none.
LEMMA RenewalOpensNone ==
    ASSUME TypeOK, NEW token \in DOMAIN sessions,
           \/ sessions' = Renewed(token)
           \/ sessions' = Ended(Renewed(token), token, "released")
    PROVE  ActiveTokens' \subseteq ActiveTokens
<1>1. sessions \in Seq(SessionRow) /\ \A i \in DOMAIN sessions : sessions[i] \in SessionRow
  BY DEF TypeOK
<1>2. /\ DOMAIN Renewed(token) = DOMAIN sessions
      /\ \A i \in DOMAIN sessions : Renewed(token)[i].status = sessions[i].status
  BY <1>1 DEF Renewed, SessionRow
<1>3. CASE sessions' = Renewed(token)
  BY <1>2, <1>3 DEF ActiveTokens
<1>4. CASE sessions' = Ended(Renewed(token), token, "released")
  <2>1. DOMAIN sessions' = DOMAIN sessions
    BY <1>2, <1>4 DEF Ended
  <2>2. \A i \in DOMAIN sessions : i # token => sessions'[i].status = sessions[i].status
    BY <1>2, <1>4 DEF Ended
  <2>3. \A row \in SessionRow : [row EXCEPT !.status = "released"].status = "released"
    BY DEF SessionRow
  <2>4. Renewed(token) \in Seq(SessionRow)
    BY SessionsType
  <2>5. Renewed(token)[token] \in SessionRow
    BY <1>2, <2>4
  <2>6. sessions'[token].status = "released"
    BY <1>2, <1>4, <2>3, <2>5 DEF Ended
  <2>7. QED
    BY <2>1, <2>2, <2>6 DEF ActiveTokens
<1>5. QED
  BY <1>3, <1>4

\* Granting a lease after ending the one that was open leaves the new one.
LEMMA GrantLeavesOne ==
    ASSUME TypeOK, SingleLease, NEW row \in SessionRow,
           \/ ActiveTokens = {} /\ sessions' = Append(sessions, row)
           \/ \E t \in ActiveTokens, how \in SessionStatus \ {"active"} :
                 sessions' = Append(Ended(sessions, t, how), row)
    PROVE  SingleLease'
<1>1. sessions \in Seq(SessionRow) /\ \A i \in DOMAIN sessions : sessions[i] \in SessionRow
  BY DEF TypeOK
<1>2. ASSUME NEW rows \in Seq(SessionRow), Len(rows) = Len(sessions),
             sessions' = Append(rows, row),
             \A i \in DOMAIN sessions : rows[i].status # "active"
      PROVE  SingleLease'
  <2>1. DOMAIN sessions' = 1 .. (Len(sessions) + 1)
    BY <1>1, <1>2
  <2>2. \A i \in DOMAIN sessions' : i = Len(sessions) + 1 \/ i \in DOMAIN sessions
    BY <1>1, <2>1
  <2>3. \A i \in DOMAIN sessions : sessions'[i] = rows[i]
    BY <1>1, <1>2
  <2>4. \A i \in ActiveTokens' : i = Len(sessions) + 1
    BY <1>2, <2>2, <2>3 DEF ActiveTokens
  <2>5. QED
    BY <2>4 DEF SingleLease
<1>3. CASE ActiveTokens = {} /\ sessions' = Append(sessions, row)
  BY <1>1, <1>2, <1>3 DEF ActiveTokens
<1>4. ASSUME NEW t \in ActiveTokens, NEW how \in SessionStatus \ {"active"},
             sessions' = Append(Ended(sessions, t, how), row)
      PROVE  SingleLease'
  <2>1. t \in DOMAIN sessions
    BY DEF ActiveTokens
  <2>2. Ended(sessions, t, how) \in Seq(SessionRow) /\ Len(Ended(sessions, t, how)) = Len(sessions)
    BY <2>1, SessionsType
  <2>3. \A i \in DOMAIN sessions : i # t => sessions[i].status # "active"
    BY DEF ActiveTokens, SingleLease
  <2>4. \A r \in SessionRow : [r EXCEPT !.status = how].status = how
    BY DEF SessionRow
  <2>5. \A i \in DOMAIN sessions : Ended(sessions, t, how)[i].status # "active"
    BY <1>1, <2>1, <2>3, <2>4 DEF Ended
  <2>6. QED
    BY <1>2, <1>4, <2>2, <2>5
<1>5. QED
  BY <1>3, <1>4

\* Every scoring write runs under the caller's current lease, from the
\* version it names; it renews or releases that lease and advances the
\* version by one.
LEMMA ScoringWriteGuards ==
    ASSUME TypeOK, NEW u \in Users, NEW token \in DOMAIN sessions, NEW v \in 0 .. MaxVersion,
           ScoringWrite(u, token, v)
    PROVE  /\ BeginScoringWrite(u, token, v)
           /\ \/ sessions' = Renewed(token)
              \/ sessions' = Ended(Renewed(token), token, "released")
           /\ match'.version = match.version + 1
<1> DEFINE Lease == \/ sessions' = Renewed(token)
                    \/ sessions' = Ended(Renewed(token), token, "released")
<1>1. BeginScoringWrite(u, token, v)
  BY DEF ScoringWrite, StartLiveScore, SaveLiveMatchSetup, ClearLiveMatchConditions,
         SaveLiveMatchConditions, SaveMatchDaySquad, CreateLiveBall, UpdateLiveBall, DeleteLiveBall,
         DeleteLastLiveBall, ReconcileScorecard, CompleteLiveScore, CallOffLiveScore,
         ResetLiveTestMatch
<1>2. Lease
  BY DEF ScoringWrite, StartLiveScore, SaveLiveMatchSetup, ClearLiveMatchConditions,
         SaveLiveMatchConditions, SaveMatchDaySquad, CreateLiveBall, UpdateLiveBall, DeleteLiveBall,
         DeleteLastLiveBall, ReconcileScorecard, CompleteLiveScore, CallOffLiveScore,
         ResetLiveTestMatch
<1>3. Advanced \in MatchRow /\ Advanced.version = match.version + 1
  <2>1. match.version < MaxVersion
    BY <1>1 DEF BeginScoringWrite
  <2>2. QED
    BY <2>1, AdvancedType DEF Advanced, TypeOK, MatchRow
<1>4. ASSUME NEW m \in MatchRow, NEW balls, NEW xi, m.version = Advanced.version,
             ReconcileLiveScorecard(m, balls, xi)
      PROVE  match'.version = match.version + 1
  BY <1>3, <1>4 DEF ReconcileLiveScorecard, MatchRow
<1>5. ASSUME NEW balls, FinalizeLiveMatchResult(Advanced, balls)
      PROVE  match'.version = match.version + 1
  BY <1>3, <1>5 DEF FinalizeLiveMatchResult, MatchRow
<1>6. [Advanced EXCEPT !.status = "live"] \in MatchRow
      /\ [Advanced EXCEPT !.status = "live"].version = Advanced.version
  BY <1>3 DEF MatchRow, Status
<1>7. ASSUME NEW balls, NEW reopened \in BOOLEAN, RebuildAfter(balls, reopened)
      PROVE  match'.version = match.version + 1
  <2>1. CASE HasFinalResult
    BY <1>5, <1>7, <2>1 DEF RebuildAfter
  <2>2. CASE ~HasFinalResult
    <3>1. PICK m \in MatchRow : /\ m.version = Advanced.version
                                /\ ReconcileLiveScorecard(m, balls, PlayingXI(squad))
      BY <1>3, <1>6, <1>7, <2>2, Zenon DEF RebuildAfter
    <3>2. QED
      BY <1>4, <3>1
  <2>3. QED
    BY <2>1, <2>2
<1>8. CASE StartLiveScore(u, token, v)
  <2>1. PICK m \in MatchRow : /\ m.version = Advanced.version
                              /\ ReconcileLiveScorecard(m, ledger, PlayingXI(squad))
    BY <1>3, <1>6, <1>8, Zenon DEF StartLiveScore
  <2>2. QED
    BY <1>1, <1>2, <1>4, <2>1
<1>8a. CASE ClearLiveMatchConditions(u, token, v)
  <2>1. /\ [Advanced EXCEPT !.target = NoTarget] \in MatchRow
        /\ [Advanced EXCEPT !.target = NoTarget].version = Advanced.version
    BY <1>3 DEF MatchRow
  <2>2. QED
    BY <1>1, <1>2, <1>4, <1>8a, <2>1 DEF ClearLiveMatchConditions
<1>9. ASSUME NEW target \in Targets \cup {NoTarget}, SaveLiveMatchConditions(u, token, v, target)
      PROVE  match'.version = match.version + 1
  <2>1. /\ [Advanced EXCEPT !.target = target] \in MatchRow
        /\ [Advanced EXCEPT !.target = target].version = Advanced.version
    BY <1>3 DEF MatchRow
  <2>2. QED
    BY <1>4, <1>9, <2>1 DEF SaveLiveMatchConditions
<1>10. ASSUME NEW status \in {"abandoned", "cancelled"}, CallOffLiveScore(u, token, v, status)
       PROVE  match'.version = match.version + 1
  <2>1. /\ [Advanced EXCEPT !.status = status, !.finalizedAt = NoTime] \in MatchRow
        /\ [Advanced EXCEPT !.status = status, !.finalizedAt = NoTime].version = Advanced.version
    BY <1>3 DEF MatchRow, Status
  <2>2. QED
    BY <1>4, <1>10, <2>1 DEF CallOffLiveScore
<1>11. CASE SaveLiveMatchSetup(u, token, v)
  BY <1>1, <1>2, <1>3, <1>4, <1>11 DEF SaveLiveMatchSetup
<1>12. ASSUME NEW registered \in SUBSET Players, SaveMatchDaySquad(u, token, v, registered)
       PROVE  match'.version = match.version + 1
  BY <1>3, <1>4, <1>12 DEF SaveMatchDaySquad
<1>13. CASE CompleteLiveScore(u, token, v)
  BY <1>1, <1>2, <1>5, <1>13 DEF CompleteLiveScore
<1>14. CASE ResetLiveTestMatch(u, token, v)
  <2>1. match'.version = match.version + 1
    BY <1>14 DEF ResetLiveTestMatch
  <2>2. QED
    BY <1>1, <1>2, <2>1
<1>15. CASE \/ \E id \in BallIds, p \in Players : CreateLiveBall(u, token, v, id, p)
            \/ \E i \in DOMAIN ledger, p \in Players : UpdateLiveBall(u, token, v, i, p)
            \/ \E i \in DOMAIN ledger : DeleteLiveBall(u, token, v, i)
            \/ DeleteLastLiveBall(u, token, v)
            \/ ReconcileScorecard(u, token, v)
  <2>1. RebuildAfter(ledger', TRUE) \/ RebuildAfter(ledger', FALSE) \/ RebuildAfter(ledger, FALSE)
    BY <1>15, Zenon
       DEF CreateLiveBall, UpdateLiveBall, DeleteLiveBall, DeleteLastLiveBall, ReconcileScorecard
  <2>2. QED
    BY <1>1, <1>2, <1>7, <2>1
<1>16. QED
  BY <1>1, <1>2, <1>8, <1>8a, <1>9, <1>10, <1>11, <1>12, <1>13, <1>14, <1>15 DEF ScoringWrite

-----------------------------------------------------------------------------
(* The lease, the versions and the lock *)

\* No two leases are ever open.
LEMMA SingleLeaseAlways == Spec => []SingleLease
<1>1. Init => SingleLease
  BY DEF Init, SingleLease, ActiveTokens
<1>2. TypeOK /\ SingleLease /\ [Next]_vars => SingleLease'
  <2> SUFFICES ASSUME TypeOK, SingleLease, [Next]_vars PROVE SingleLease'
    OBVIOUS
  <2>1. ASSUME ActiveTokens' \subseteq ActiveTokens PROVE SingleLease'
    BY <2>1 DEF SingleLease
  <2>2. ASSUME UNCHANGED sessions PROVE SingleLease'
    BY <2>1, <2>2 DEF ActiveTokens
  <2>3. ASSUME NEW u \in Users, NEW d \in Devices, RenewSession(u, d) PROVE SingleLease'
    BY <2>1, <2>3, RenewalOpensNone DEF RenewSession, ActiveTokens
  <2>4. \A u \in Users, d \in Devices : NewSession(u, d) \in SessionRow
    <3>1. clock + SessionLease \in Nat
      BY DurationAssumption, BoundAssumption DEF TypeOK
    <3>2. QED
      BY <3>1 DEF NewSession, SessionRow, SessionStatus
  <2>5. ASSUME NEW u \in Users, NEW d \in Devices, AcquireSession(u, d) PROVE SingleLease'
    BY <2>4, <2>5, GrantLeavesOne DEF AcquireSession, SessionStatus
  <2>6. ASSUME NEW u \in Users, NEW d \in Devices, TakeOverSession(u, d) PROVE SingleLease'
    BY <2>4, <2>6, GrantLeavesOne DEF TakeOverSession, SessionStatus
  <2>7. ASSUME NEW u \in Users, NEW token \in DOMAIN sessions,
               Heartbeat(u, token) \/ ReleaseSession(u, token)
        PROVE  SingleLease'
    BY <2>1, <2>7, RenewalOpensNone DEF Heartbeat, ReleaseSession
  <2>8. ASSUME NEW u \in Users, NEW token \in DOMAIN sessions, NEW v \in 0 .. MaxVersion,
               ScoringWrite(u, token, v)
        PROVE  SingleLease'
    BY <2>1, <2>8, ScoringWriteGuards, RenewalOpensNone
  <2>9. QED
    BY <2>2, <2>3, <2>5, <2>6, <2>7, <2>8
       DEF Next, LeaseStep, vars, SetMatchScorers, RequestScorecardEditAccess,
           DecideScorecardEditRequest, Tick
<1>3. QED
  BY <1>1, <1>2, TypeCorrect, PTL DEF Spec

\* At most one lease is open in every reachable state, although the table
\* has no constraint that says so.
THEOREM LeaseExclusive == Spec => []OneActiveSession
<1>1. TypeOK /\ SingleLease => OneActiveSession
  BY SingleLeaseIsOne
<1>2. QED
  BY <1>1, TypeCorrect, SingleLeaseAlways, PTL

\* What only a scoring write can change.
LEMMA OnlyScoringWrites ==
    ASSUME [Next]_vars, record' # record
    PROVE  \E u \in Users, token \in DOMAIN sessions, v \in 0 .. MaxVersion :
               ScoringWrite(u, token, v)
BY DEF Next, LeaseStep, vars, RenewSession, AcquireSession, TakeOverSession, Heartbeat,
       ReleaseSession, SetMatchScorers, RequestScorecardEditAccess,
       DecideScorecardEditRequest, Tick

\* The version precondition detects every change of the ledger, the squad and
\* the revised target: a version is never reused and never covers two of any.
THEOREM VersionsNameLedgers == Spec => VersionNamesLedger
<1>1. TypeOK /\ [Next]_vars =>
          /\ match'.version >= match.version
          /\ match'.version = match.version =>
                 ledger' = ledger /\ squad' = squad /\ match'.target = match.target
  <2> SUFFICES ASSUME TypeOK, [Next]_vars
               PROVE  /\ match'.version >= match.version
                      /\ match'.version = match.version =>
                             ledger' = ledger /\ squad' = squad /\ match'.target = match.target
    OBVIOUS
  <2>1. match.version \in Nat
    BY BoundAssumption DEF TypeOK, MatchRow
  <2>2. CASE record' = record
    BY <2>1, <2>2 DEF record
  <2>3. CASE record' # record
    BY <2>1, <2>3, OnlyScoringWrites, ScoringWriteGuards
  <2>4. QED
    BY <2>2, <2>3
<1>2. QED
  BY <1>1, TypeCorrect, PTL DEF Spec, VersionNamesLedger

\* Deliveries are written only under a current lease of a user who is still
\* allowed to edit the scorecard.
THEOREM LedgerWritesAreAuthorised == Spec => LedgerWritesAuthorised
<1>1. TypeOK /\ [Next]_vars /\ ledger' # ledger =>
          \E t \in ActiveTokens :
              /\ clock < sessions[t].expiresAt
              /\ CanScore(sessions[t].owner)
              /\ Locked /\ sessions[t].owner \in Scorers => HasApprovedAccess(sessions[t].owner)
  <2> SUFFICES ASSUME TypeOK, [Next]_vars, ledger' # ledger
               PROVE  \E t \in ActiveTokens :
                          /\ clock < sessions[t].expiresAt
                          /\ CanScore(sessions[t].owner)
                          /\ Locked /\ sessions[t].owner \in Scorers =>
                                 HasApprovedAccess(sessions[t].owner)
    OBVIOUS
  <2>1. PICK u \in Users, token \in DOMAIN sessions, v \in 0 .. MaxVersion :
            ScoringWrite(u, token, v)
    BY OnlyScoringWrites DEF record
  <2>2. BeginScoringWrite(u, token, v)
    BY <2>1, ScoringWriteGuards
  <2>3. /\ token \in ActiveTokens
        /\ clock < sessions[token].expiresAt
        /\ sessions[token].owner = u
        /\ CanEdit(u)
    BY <2>2 DEF BeginScoringWrite, OwnsSession, Current
  <2>4. QED
    BY <2>3 DEF CanEdit
<1>2. QED
  BY <1>1, TypeCorrect, PTL DEF Spec, LedgerWritesAuthorised

\* Correcting a finalised scorecard keeps the time from which it locks.
THEOREM CorrectionsNeverExtendTheLock == Spec => CorrectionsKeepLockTime
<1>1. ASSUME TypeOK, LedgerInv, [Next]_vars,
             match.status = "completed", match'.status = "completed"
      PROVE  match'.finalizedAt = match.finalizedAt
  <2>1. CASE record' = record
    BY <2>1 DEF record
  <2>2. CASE record' # record
    <3>1. PICK u \in Users, token \in DOMAIN sessions, v \in 0 .. MaxVersion :
              ScoringWrite(u, token, v)
      BY <2>2, <1>1, OnlyScoringWrites
    <3>2. match.version < MaxVersion
      BY <3>1, <1>1, ScoringWriteGuards DEF BeginScoringWrite
    <3>3. /\ Advanced \in MatchRow
          /\ Advanced.status = match.status
          /\ Advanced.finalizedAt = match.finalizedAt
      BY <1>1, <3>2, AdvancedType DEF Advanced, TypeOK, MatchRow
    <3>4. match.finalizedAt # NoTime /\ HasFinalResult
      BY <1>1 DEF LedgerInv, CompletedResultFollowsLedger, HasFinalResult
    <3>5. ASSUME NEW m \in MatchRow, NEW balls, NEW xi, ReconcileLiveScorecard(m, balls, xi),
                 m.finalizedAt = match.finalizedAt
          PROVE  match'.finalizedAt = match.finalizedAt
      BY <3>5 DEF ReconcileLiveScorecard, MatchRow
    <3>6. ASSUME NEW balls, FinalizeLiveMatchResult(Advanced, balls)
          PROVE  match'.finalizedAt = match.finalizedAt
      BY <3>3, <3>4, <3>6 DEF FinalizeLiveMatchResult, MatchRow
    <3>7. ASSUME NEW balls, NEW reopened, RebuildAfter(balls, reopened)
          PROVE  match'.finalizedAt = match.finalizedAt
      BY <3>4, <3>6, <3>7 DEF RebuildAfter
    <3>8. CASE StartLiveScore(u, token, v)
      BY <1>1, <3>3, <3>5, <3>8 DEF StartLiveScore
    <3>9. CASE SaveLiveMatchSetup(u, token, v)
      BY <3>3, <3>5, <3>9 DEF SaveLiveMatchSetup
    <3>9a. CASE ClearLiveMatchConditions(u, token, v)
      <4>1. /\ [Advanced EXCEPT !.target = NoTarget] \in MatchRow
            /\ [Advanced EXCEPT !.target = NoTarget].finalizedAt = match.finalizedAt
        BY <3>3 DEF MatchRow
      <4>2. QED
        BY <3>5, <3>9a, <4>1 DEF ClearLiveMatchConditions
    <3>10. ASSUME NEW target \in Targets \cup {NoTarget}, SaveLiveMatchConditions(u, token, v, target)
           PROVE  match'.finalizedAt = match.finalizedAt
      <4>1. /\ [Advanced EXCEPT !.target = target] \in MatchRow
            /\ [Advanced EXCEPT !.target = target].finalizedAt = match.finalizedAt
        BY <3>3 DEF MatchRow
      <4>2. QED
        BY <3>5, <3>10, <4>1 DEF SaveLiveMatchConditions
    <3>11. ASSUME NEW registered \in SUBSET Players, SaveMatchDaySquad(u, token, v, registered)
           PROVE  match'.finalizedAt = match.finalizedAt
      BY <3>3, <3>5, <3>11 DEF SaveMatchDaySquad
    <3>12. CASE \/ \E id \in BallIds, p \in Players : CreateLiveBall(u, token, v, id, p)
                \/ \E i \in DOMAIN ledger, p \in Players : UpdateLiveBall(u, token, v, i, p)
                \/ \E i \in DOMAIN ledger : DeleteLiveBall(u, token, v, i)
                \/ DeleteLastLiveBall(u, token, v)
                \/ ReconcileScorecard(u, token, v)
      <4>1. \/ RebuildAfter(ledger', TRUE)
            \/ RebuildAfter(ledger', FALSE)
            \/ RebuildAfter(ledger, FALSE)
        BY <3>12, Zenon
           DEF CreateLiveBall, UpdateLiveBall, DeleteLiveBall, DeleteLastLiveBall,
               ReconcileScorecard
      <4>2. QED
        BY <3>7, <4>1
    <3>13. CASE CompleteLiveScore(u, token, v)
      BY <3>6, <3>13 DEF CompleteLiveScore
    <3>14. ASSUME NEW status \in {"abandoned", "cancelled"}, CallOffLiveScore(u, token, v, status)
           PROVE  FALSE
      <4>1. /\ [Advanced EXCEPT !.status = status, !.finalizedAt = NoTime] \in MatchRow
            /\ [Advanced EXCEPT !.status = status, !.finalizedAt = NoTime].status # "completed"
        BY <3>3 DEF MatchRow, Status
      <4>2. QED
        BY <1>1, <3>14, <4>1 DEF CallOffLiveScore, ReconcileLiveScorecard, MatchRow
    <3>15. CASE ResetLiveTestMatch(u, token, v)
      BY <1>1, <3>15 DEF ResetLiveTestMatch
    <3>16. QED
      BY <3>1, <3>8, <3>9, <3>9a, <3>10, <3>11, <3>12, <3>13, <3>14, <3>15 DEF ScoringWrite
  <2>3. QED
    BY <2>1, <2>2
<1>2. QED
  BY <1>1, TypeCorrect, LedgerCorrect, PTL DEF Spec, CorrectionsKeepLockTime
=============================================================================
