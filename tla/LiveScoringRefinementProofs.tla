-------------------- MODULE LiveScoringRefinementProofs --------------------
(***************************************************************************)
(* LiveScoring implements ScoringServer: the initial states map to initial *)
(* states and every handler to one step of the abstract server or to none. *)
(***************************************************************************)
EXTENDS LiveScoringProofs, SequenceTheorems

Tokens == [t \in DOMAIN sessions |-> sessions[t].device]

-----------------------------------------------------------------------------
(* The token of the open lease *)

LEMMA CurrentTokenIs ==
    ASSUME SingleLease, NEW t, Current(t)
    PROVE  CurrentToken = t
BY DEF CurrentToken, Current, SingleLease

LEMMA NextCurrentTokenIs ==
    ASSUME SingleLease', NEW t, Current(t)'
    PROVE  CurrentToken' = t
BY DEF CurrentToken, Current, SingleLease

LEMMA NoCurrentToken ==
    ASSUME \A t \in ActiveTokens : ~Current(t)
    PROVE  CurrentToken = 0
BY DEF CurrentToken

LEMMA NextNoCurrentToken ==
    ASSUME \A t \in ActiveTokens' : ~Current(t)'
    PROVE  CurrentToken' = 0
BY DEF CurrentToken

\* Who a token was issued to never changes when a row is renewed or ended.
LEMMA TokensKept ==
    ASSUME TypeOK, NEW token \in DOMAIN sessions,
           \/ sessions' = Renewed(token)
           \/ sessions' = Ended(Renewed(token), token, "released")
    PROVE  Tokens' = Tokens
<1>1. \A i \in DOMAIN sessions : sessions[i] \in SessionRow
  BY DEF TypeOK
<1>2. /\ DOMAIN Renewed(token) = DOMAIN sessions
      /\ \A i \in DOMAIN sessions : /\ Renewed(token)[i] \in SessionRow
                                    /\ Renewed(token)[i].device = sessions[i].device
  <2>1. clock + SessionLease \in Nat
    BY DurationAssumption, BoundAssumption DEF TypeOK
  <2>2. QED
    BY <1>1, <2>1 DEF Renewed, SessionRow
<1>3. CASE sessions' = Renewed(token)
  BY <1>2, <1>3 DEF Tokens
<1>4. CASE sessions' = Ended(Renewed(token), token, "released")
  <2>1. \A row \in SessionRow : [row EXCEPT !.status = "released"].device = row.device
    BY DEF SessionRow
  <2>2. /\ DOMAIN sessions' = DOMAIN sessions
        /\ \A i \in DOMAIN sessions : sessions'[i].device = sessions[i].device
    BY <1>2, <1>4, <2>1 DEF Ended
  <2>3. QED
    BY <2>2 DEF Tokens
<1>5. QED
  BY <1>3, <1>4

\* Renewing the current lease keeps it open.
LEMMA RenewalKeepsToken ==
    ASSUME TypeOK, SingleLease, SingleLease', NEW token \in DOMAIN sessions, Current(token),
           sessions' = Renewed(token), clock' = clock
    PROVE  CurrentToken' = CurrentToken
<1>1. sessions \in Seq(SessionRow) /\ sessions[token] \in SessionRow
  BY DEF TypeOK
<1>2. /\ DOMAIN sessions' = DOMAIN sessions
      /\ sessions'[token].status = sessions[token].status
      /\ sessions'[token].expiresAt = clock + SessionLease
  BY <1>1 DEF Renewed, SessionRow
<1>3. clock < clock + SessionLease
  BY DurationAssumption, BoundAssumption DEF TypeOK
<1>4. token \in ActiveTokens'
  BY <1>2 DEF Current, ActiveTokens
<1>5. Current(token)'
  <2>1. \A t \in ActiveTokens' : t = token
    BY <1>4 DEF SingleLease
  <2>2. token =< token
    BY <1>1
  <2>3. QED
    BY <1>2, <1>3, <1>4, <2>1, <2>2 DEF Current
<1>6. QED
  BY <1>5, CurrentTokenIs, NextCurrentTokenIs

\* Releasing it leaves none open.
LEMMA ReleaseClosesToken ==
    ASSUME TypeOK, SingleLease, NEW token \in DOMAIN sessions, token \in ActiveTokens,
           sessions' = Ended(Renewed(token), token, "released")
    PROVE  CurrentToken' = 0
<1>1. ActiveTokens' \subseteq ActiveTokens
  BY RenewalOpensNone
<1>2. Renewed(token) \in Seq(SessionRow) /\ Len(Renewed(token)) = Len(sessions)
  BY SessionsType
<1>3. token \in DOMAIN Renewed(token) /\ Renewed(token)[token] \in SessionRow
  BY <1>2 DEF TypeOK
<1>4. sessions'[token].status = "released"
  BY <1>3 DEF Ended, SessionRow
<1>5. ActiveTokens' = {}
  BY <1>1, <1>4 DEF SingleLease, ActiveTokens
<1>6. QED
  BY <1>5, NextNoCurrentToken

\* Granting a lease opens the token that comes after all others.
LEMMA GrantOpensNew ==
    ASSUME TypeOK, SingleLease', NEW rows \in Seq(SessionRow), Len(rows) = Len(sessions),
           \A i \in DOMAIN sessions : rows[i].device = sessions[i].device,
           NEW u \in Users, NEW d \in Devices,
           sessions' = Append(rows, NewSession(u, d)), clock' = clock
    PROVE  /\ Tokens' = Append(Tokens, d)
           /\ CurrentToken' = Len(Tokens')
<1>1. clock + SessionLease \in Nat /\ clock < clock + SessionLease
  BY DurationAssumption, BoundAssumption DEF TypeOK
<1>2. NewSession(u, d) \in SessionRow
  BY <1>1 DEF NewSession, SessionRow, SessionStatus
<1>3. sessions \in Seq(SessionRow) /\ \A i \in DOMAIN sessions : sessions[i].device \in Devices
  <2>1. \A i \in DOMAIN sessions : sessions[i] \in SessionRow
    BY DEF TypeOK
  <2>2. QED
    BY <2>1 DEF TypeOK, SessionRow
<1>4. /\ DOMAIN sessions' = 1 .. (Len(sessions) + 1)
      /\ sessions'[Len(sessions) + 1] = NewSession(u, d)
      /\ \A i \in DOMAIN sessions : sessions'[i] = rows[i]
  <2>1. sessions' \in Seq(SessionRow) /\ Len(sessions') = Len(rows) + 1
    BY <1>2
  <2>2. /\ sessions'[Len(rows) + 1] = NewSession(u, d)
        /\ \A i \in 1 .. Len(rows) : sessions'[i] = rows[i]
    BY <1>2
  <2>3. DOMAIN sessions = 1 .. Len(rows)
    BY <1>3
  <2>4. QED
    BY <2>1, <2>2, <2>3
<1>5. Tokens \in Seq(Devices) /\ Len(Tokens) = Len(sessions)
  BY <1>3 DEF Tokens
<1>6. Tokens' = Append(Tokens, d)
  <2>1. Tokens' = [i \in 1 .. (Len(sessions) + 1) |-> IF i = Len(sessions) + 1 THEN d ELSE Tokens[i]]
    <3>1. ASSUME NEW i \in 1 .. (Len(sessions) + 1)
          PROVE  sessions'[i].device = IF i = Len(sessions) + 1 THEN d ELSE Tokens[i]
      <4>1. CASE i = Len(sessions) + 1
        BY <1>4, <4>1 DEF NewSession
      <4>2. CASE i # Len(sessions) + 1
        BY <1>3, <1>4, <4>2 DEF Tokens
      <4>3. QED
        BY <4>1, <4>2
    <3>2. QED
      BY <1>4, <3>1 DEF Tokens
  <2>2. Append(Tokens, d) \in Seq(Devices) /\ Len(Append(Tokens, d)) = Len(sessions) + 1
    BY <1>5
  <2>3. \A i \in 1 .. (Len(sessions) + 1) :
            Append(Tokens, d)[i] = IF i = Len(sessions) + 1 THEN d ELSE Tokens[i]
    BY <1>3, <1>5
  <2>4. Tokens' \in Seq(Devices) /\ Len(Tokens') = Len(sessions) + 1
    BY <1>3, <1>5, <2>1
  <2>5. \A i \in 1 .. Len(Tokens') : Tokens'[i] = Append(Tokens, d)[i]
    BY <2>1, <2>3, <2>4
  <2>6. QED
    BY <2>2, <2>4, <2>5, SeqEqual
<1>7. CurrentToken' = Len(sessions) + 1
  <2>1. PICK t : t = Len(sessions) + 1
    OBVIOUS
  <2>2. t \in ActiveTokens'
    BY <1>3, <1>4, <2>1 DEF ActiveTokens, NewSession
  <2>3. Current(t)'
    <3>1. \A s \in ActiveTokens' : s = t
      BY <2>2 DEF SingleLease
    <3>2. sessions'[t].expiresAt = clock + SessionLease
      BY <1>4, <2>1 DEF NewSession
    <3>3. t =< t
      BY <1>3, <2>1
    <3>4. QED
      BY <1>1, <2>2, <3>1, <3>2, <3>3 DEF Current
  <2>4. QED
    BY <2>1, <2>3, NextCurrentTokenIs
<1>8. QED
  BY <1>5, <1>6, <1>7

-----------------------------------------------------------------------------
(* Steps *)

\* Nothing the abstract server shows.
ServerUnchanged == UNCHANGED <<match.version, ledger, CurrentToken, Tokens>>

LEMMA LeaseStepRefines ==
    ASSUME TypeOK, SingleLease, SingleLease', NEW u \in Users, LeaseStep(u)
    PROVE  \/ ServerUnchanged
           \/ \E d \in Devices : Server!OpenLease(d)
           \/ Server!CloseLease
<1>1. UNCHANGED <<clock, match, ledger>>
  BY DEF LeaseStep, RenewSession, AcquireSession, TakeOverSession, Heartbeat, ReleaseSession, record
<1>2. \A i \in DOMAIN sessions : sessions[i] \in SessionRow
  BY DEF TypeOK
<1>3. ASSUME NEW token \in DOMAIN sessions, Current(token), sessions' = Renewed(token)
      PROVE  ServerUnchanged
  BY <1>1, <1>3, TokensKept, RenewalKeepsToken DEF ServerUnchanged
<1>4. ASSUME NEW d \in Devices, NEW rows \in Seq(SessionRow), Len(rows) = Len(sessions),
             \A i \in DOMAIN sessions : rows[i].device = sessions[i].device,
             sessions' = Append(rows, NewSession(u, d))
      PROVE  Server!OpenLease(d)
  BY <1>1, <1>4, GrantOpensNew DEF Server!OpenLease, Tokens
<1>5. ASSUME NEW d \in Devices, NEW t \in ActiveTokens, NEW how \in SessionStatus,
             sessions' = Append(Ended(sessions, t, how), NewSession(u, d))
      PROVE  Server!OpenLease(d)
  <2>1. t \in DOMAIN sessions
    BY DEF ActiveTokens
  <2>2. Ended(sessions, t, how) \in Seq(SessionRow) /\ Len(Ended(sessions, t, how)) = Len(sessions)
    BY <2>1, SessionsType
  <2>3. \A row \in SessionRow : [row EXCEPT !.status = how].device = row.device
    BY DEF SessionRow
  <2>4. \A i \in DOMAIN sessions : Ended(sessions, t, how)[i].device = sessions[i].device
    BY <1>2, <2>1, <2>3 DEF Ended
  <2>5. QED
    BY <1>4, <1>5, <2>2, <2>4
<1>6. ASSUME NEW d \in Devices, RenewSession(u, d) PROVE ServerUnchanged
  BY <1>3, <1>6 DEF RenewSession, OwnsSession, ActiveTokens
<1>7. ASSUME NEW d \in Devices, AcquireSession(u, d) PROVE Server!OpenLease(d)
  <2>1. CASE ActiveTokens = {}
    BY <1>4, <1>7, <2>1 DEF AcquireSession, TypeOK
  <2>2. CASE ActiveTokens # {}
    BY <1>5, <1>7, <2>2 DEF AcquireSession, SessionStatus
  <2>3. QED
    BY <2>1, <2>2
<1>8. ASSUME NEW d \in Devices, TakeOverSession(u, d) PROVE Server!OpenLease(d)
  BY <1>5, <1>8 DEF TakeOverSession, SessionStatus
<1>9. ASSUME NEW token \in DOMAIN sessions, Heartbeat(u, token) PROVE ServerUnchanged
  BY <1>3, <1>9 DEF Heartbeat, OwnsSession
<1>10. ASSUME NEW token \in DOMAIN sessions, ReleaseSession(u, token) PROVE Server!CloseLease
  <2>1. Current(token) /\ sessions' = Ended(Renewed(token), token, "released")
    BY <1>10 DEF ReleaseSession, OwnsSession
  <2>2. CurrentToken = token /\ token # 0
    BY <2>1, CurrentTokenIs DEF TypeOK
  <2>3. CurrentToken' = 0
    BY <2>1, ReleaseClosesToken DEF Current
  <2>4. Tokens' = Tokens
    BY <2>1, TokensKept
  <2>5. QED
    BY <1>1, <2>2, <2>3, <2>4 DEF Server!CloseLease, Server!NoToken, Tokens
<1>11. QED
  BY <1>6, <1>7, <1>8, <1>9, <1>10 DEF LeaseStep

\* A tick opens no lease; the open one may lapse.
LEMMA TickRefines ==
    ASSUME TypeOK, SingleLease, SingleLease', Tick
    PROVE  ServerUnchanged \/ Server!CloseLease
<1>1. UNCHANGED <<match, ledger, sessions>> /\ clock' = clock + 1 /\ clock \in Nat
  BY BoundAssumption DEF Tick, record, TypeOK
<1>2. Tokens' = Tokens
  BY <1>1 DEF Tokens
<1>3. ActiveTokens' = ActiveTokens
  BY <1>1 DEF ActiveTokens
<1>4. ASSUME NEW t, Current(t)'
      PROVE  Current(t)
  <2>1. t \in DOMAIN sessions /\ sessions[t].expiresAt \in Nat
    <3>1. t \in DOMAIN sessions
      BY <1>3, <1>4 DEF Current, ActiveTokens
    <3>2. sessions[t] \in SessionRow
      BY <3>1 DEF TypeOK
    <3>3. QED
      BY <3>1, <3>2 DEF SessionRow
  <2>2. clock < sessions[t].expiresAt
    BY <1>1, <1>4, <2>1 DEF Current
  <2>3. QED
    BY <1>3, <1>4, <2>2 DEF Current
<1>5. CASE \E t \in ActiveTokens' : Current(t)'
  <2>1. PICK t : Current(t)'
    BY <1>5
  <2>2. CurrentToken' = t /\ CurrentToken = t
    BY <1>4, <2>1, CurrentTokenIs, NextCurrentTokenIs
  <2>3. QED
    BY <1>1, <1>2, <2>2 DEF ServerUnchanged
<1>6. CASE ~ \E t \in ActiveTokens' : Current(t)'
  <2>1. CurrentToken' = 0
    BY <1>6, NextNoCurrentToken
  <2>2. QED
    BY <1>1, <1>2, <2>1 DEF ServerUnchanged, Server!CloseLease, Server!NoToken, Tokens
<1>7. QED
  BY <1>5, <1>6

\* What a scoring write does to the ledger.
LEMMA LedgerChange ==
    ASSUME TypeOK, NEW u \in Users, NEW token \in DOMAIN sessions, NEW v \in 0 .. MaxVersion,
           ScoringWrite(u, token, v)
    PROVE  \/ ledger' = ledger
           \/ \E id \in BallIds, p \in Players : Server!AddBall(id, p)
           \/ \E i \in DOMAIN ledger, p \in Players : Server!CorrectBall(i, p)
           \/ \E i \in DOMAIN ledger : Server!RemoveBall(i)
           \/ ledger' = <<>>
<1>1. ASSUME NEW id \in BallIds, NEW p \in Players, CreateLiveBall(u, token, v, id, p)
      PROVE  Server!AddBall(id, p)
  BY <1>1 DEF CreateLiveBall, Server!AddBall, Server!Ids
<1>2. ASSUME NEW i \in DOMAIN ledger, NEW p \in Players, UpdateLiveBall(u, token, v, i, p)
      PROVE  Server!CorrectBall(i, p)
  BY <1>2 DEF UpdateLiveBall, Server!CorrectBall
<1>3. ASSUME NEW i \in DOMAIN ledger, DeleteLiveBall(u, token, v, i)
      PROVE  Server!RemoveBall(i)
  BY <1>3 DEF DeleteLiveBall, Server!RemoveBall, RemoveAt, Server!RemoveAt
<1>4. ASSUME DeleteLastLiveBall(u, token, v)
      PROVE  \E i \in DOMAIN ledger : Server!RemoveBall(i)
  <2>1. Len(ledger) \in DOMAIN ledger
    BY <1>4 DEF DeleteLastLiveBall, TypeOK
  <2>2. QED
    BY <1>4, <2>1 DEF DeleteLastLiveBall, Server!RemoveBall, RemoveAt, Server!RemoveAt
<1>5. QED
  BY <1>1, <1>2, <1>3, <1>4
     DEF ScoringWrite, StartLiveScore, SaveLiveMatchSetup, ClearLiveMatchConditions,
         SaveLiveMatchConditions, SaveMatchDaySquad, ReconcileScorecard, CompleteLiveScore, CallOffLiveScore,
         ResetLiveTestMatch

LEMMA ScoringWriteRefines ==
    ASSUME TypeOK, SingleLease, SingleLease', NEW u \in Users, NEW token \in DOMAIN sessions,
           NEW v \in 0 .. MaxVersion, ScoringWrite(u, token, v)
    PROVE  Server!Write
<1>1. /\ Current(token)
      /\ match'.version = match.version + 1
      /\ \/ sessions' = Renewed(token)
         \/ sessions' = Ended(Renewed(token), token, "released")
  BY ScoringWriteGuards DEF BeginScoringWrite, OwnsSession
<1>2. clock' = clock
  BY DEF ScoringWrite, StartLiveScore, SaveLiveMatchSetup, ClearLiveMatchConditions,
         SaveLiveMatchConditions, SaveMatchDaySquad, CreateLiveBall, UpdateLiveBall, DeleteLiveBall,
         DeleteLastLiveBall, ReconcileScorecard, CompleteLiveScore, CallOffLiveScore,
         ResetLiveTestMatch
<1>3. CurrentToken = token /\ token # 0
  BY <1>1, CurrentTokenIs DEF TypeOK
<1>4. CurrentToken' \in {CurrentToken, 0}
  BY <1>1, <1>2, RenewalKeepsToken, ReleaseClosesToken DEF Current
<1>5. Tokens' = Tokens
  BY <1>1, TokensKept
<1>6. QED
  BY <1>1, <1>3, <1>4, <1>5, LedgerChange DEF Server!Write, Server!NoToken, Tokens

-----------------------------------------------------------------------------
(* The theorem *)

\* Every history of the live-scoring handlers is a history of ScoringServer.
THEOREM LiveScoringImplementsServer == Spec => ImplementsServer
<1>1. Init => Server!ServerInit
  <2> SUFFICES ASSUME Init PROVE Server!ServerInit
    OBVIOUS
  <2>1. ActiveTokens = {}
    BY DEF Init, ActiveTokens
  <2>2. CurrentToken = 0
    BY <2>1 DEF CurrentToken
  <2>3. Tokens = <<>>
    BY DEF Init, Tokens
  <2>4. match.version = 0 /\ ledger = <<>>
    BY DEF Init
  <2>5. QED
    BY <2>2, <2>3, <2>4 DEF Server!ServerInit, Server!NoToken, Tokens
<1>2. TypeOK /\ SingleLease /\ SingleLease' /\ [Next]_vars =>
          [Server!ServerNext]_(Server!serverVars)
  <2> SUFFICES ASSUME TypeOK, SingleLease, SingleLease', [Next]_vars
               PROVE  ServerUnchanged \/ Server!ServerNext
    BY DEF ServerUnchanged, Server!serverVars, Tokens
  <2>1. ASSUME UNCHANGED <<clock, match, ledger, sessions>> PROVE ServerUnchanged
    BY <2>1 DEF ServerUnchanged, CurrentToken, Current, ActiveTokens, Tokens
  <2>2. ASSUME NEW u \in Users, LeaseStep(u) PROVE ServerUnchanged \/ Server!ServerNext
    BY <2>2, LeaseStepRefines DEF Server!ServerNext
  <2>3. ASSUME NEW u \in Users, NEW token \in DOMAIN sessions, NEW v \in 0 .. MaxVersion,
               ScoringWrite(u, token, v)
        PROVE  Server!ServerNext
    BY <2>3, ScoringWriteRefines DEF Server!ServerNext
  <2>4. CASE Tick
    BY <2>4, TickRefines DEF Server!ServerNext
  <2>5. QED
    BY <2>1, <2>2, <2>3, <2>4
       DEF Next, vars, record, SetMatchScorers, RequestScorecardEditAccess,
           DecideScorecardEditRequest
<1>3. QED
  BY <1>1, <1>2, TypeCorrect, SingleLeaseAlways, PTL DEF Spec, ImplementsServer, Server!ServerSpec
=============================================================================
