--------------------------- MODULE ScoringOutbox ---------------------------
(***************************************************************************)
(* The scoring screens of one match and the network between them and the   *)
(* server: src/admin/src/lib/scoring-outbox.ts and the flush, undo,        *)
(* takeover and queued-ball handlers of                                    *)
(* src/admin/src/routes/_shell/scoring/$matchId.tsx.                       *)
(*                                                                         *)
(* A screen records a delivery in its outbox and posts the outbox in       *)
(* order.  Every await is a step of its own: other handlers of the screen, *)
(* other screens and the server run between the request, its handling and  *)
(* the reply.  A screen may give up on a request that the server still     *)
(* handles later.  A GET is answered with the state of the server at the   *)
(* moment its reply arrives.  The server is ScoringServer.                 *)
(***************************************************************************)
EXTENDS ScoringServer, FiniteSets

CONSTANTS
    Ineligible,      \* players whose deliveries the server refuses (HTTP 400)
    Browsers,        \* browsers; the screens of one share its localStorage
    BrowserOf,       \* the browser a screen runs in
    MaxLeases, MaxUndos, MaxCorrections, MaxFaults   \* bounds of the model

ASSUME ScreenAssumption ==
    /\ Ineligible \subseteq Players
    /\ BrowserOf \in [Devices -> Browsers]

ASSUME BoundAssumption ==
    /\ MaxLeases \in Nat
    /\ MaxUndos \in Nat
    /\ MaxCorrections \in Nat
    /\ MaxFaults \in Nat

VARIABLES
    queue,       \* outboxRef.current of each screen
    storage,     \* the persisted outbox of each browser
    token,       \* scoringSessionQ.data.session_token of each screen
    seen,        \* liveQ.data: the version, and the last delivery shown
    paused,      \* outboxPaused
    flush,       \* the running flushDeliveryOutbox of each screen
    correction,  \* the queued-ball correction that awaits its GET
    wire,        \* requests on their way that no flush waits for
    history,     \* what operators did and the server accepted
    used         \* how many bounded events happened

screenVars == <<queue, storage, token, seen, paused, flush, correction>>
vars == <<serverVars, screenVars, wire, history, used>>

NoBall == "none"          \* no delivery shown
Removed == "removed"      \* a correction that removes the queued delivery

NoFlush == [phase |-> "idle", batch |-> <<>>, version |-> 0, token |-> NoToken]
NoCorrection == [id |-> NoBall, to |-> Removed]
NothingSeen == [version |-> 0, last |-> NoBall]

Phase == {"idle", "loading", "posting", "accepted", "refused"}

BallRequest == [kind : {"ball"}, ball : Ball, version : Nat, token : Nat]
UndoRequest == [kind : {"undo"}, shown : BallIds, version : Nat, token : Nat]

TypeOK ==
    /\ version \in Nat
    /\ ledger \in Seq(Ball)
    /\ lease \in 0 .. Len(leases)
    /\ leases \in Seq(Devices)
    /\ queue \in [Devices -> Seq(Ball)]
    /\ storage \in [Browsers -> Seq(Ball)]
    /\ token \in [Devices -> 0 .. Len(leases)]
    /\ seen \in [Devices -> [version : Nat, last : BallIds \cup {NoBall}]]
    /\ paused \in [Devices -> BOOLEAN]
    /\ flush \in [Devices -> [phase : Phase, batch : Seq(Ball), version : Nat, token : Nat]]
    /\ correction \in [Devices -> [id : BallIds \cup {NoBall}, to : Players \cup {Removed}]]
    /\ wire \subseteq BallRequest \cup UndoRequest
    /\ history \in [recorded : Seq([id : BallIds, device : Devices]),
                    undone : SUBSET BallIds, removed : SUBSET BallIds,
                    accepted : [BallIds -> Nat]]
    /\ used \in [undo : 0 .. MaxUndos, correction : 0 .. MaxCorrections, fault : 0 .. MaxFaults]

-----------------------------------------------------------------------------
(* The outbox: scoring-outbox.ts *)

\* Mutant: the newest delivery goes first.
EnqueueFirst(entries, ball) ==
    IF ball.id \in Ids(entries) THEN entries ELSE <<ball>> \o entries

\* enqueueScoringBall: a ball that is queued already is not queued again.
EnqueueScoringBall(entries, ball) ==
    IF ball.id \in Ids(entries) THEN entries ELSE Append(entries, ball)

\* The code filters; an outbox names a ball once, so that takes one entry out.
RemoveScoringBall(entries, id) ==
    IF id \in Ids(entries)
    THEN RemoveAt(entries, CHOOSE i \in DOMAIN entries : entries[i].id = id)
    ELSE entries

\* Mutant: the corrected body loses its client_event_id.
ReplaceWithoutId(entries, id, p, last) ==
    [i \in DOMAIN entries |->
        IF entries[i].id = id THEN [id |-> NoBall, player |-> p] ELSE entries[i]]

\* A corrected bowler also replaces the old one in the later deliveries of
\* the over.  `last' is where that over ends in the outbox; it is in front of
\* the corrected delivery when the player is not its bowler.
ReplaceQueuedScoringBall(entries, id, p, last) ==
    [j \in DOMAIN entries |->
        IF \E i \in DOMAIN entries :
              /\ entries[i].id = id
              /\ j = i \/ (i < j /\ j =< last /\ entries[j].player = entries[i].player)
        THEN [entries[j] EXCEPT !.player = p]
        ELSE entries[j]]

\* Every change of the outbox is saved at once.
SaveOutbox(d, entries) ==
    /\ queue' = [queue EXCEPT ![d] = entries]
    /\ storage' = [storage EXCEPT ![BrowserOf[d]] = entries]

-----------------------------------------------------------------------------
(* What a screen shows *)

LastOf(balls) == IF balls = <<>> THEN NoBall ELSE Last(balls).id

\* The live state with the queued deliveries appended that it does not have
\* yet (withQueuedBalls).
Shown(entries) ==
    LET unsent == {i \in DOMAIN entries : entries[i].id \notin Ids(ledger)}
    IN  [version |-> version,
         last |-> IF unsent = {} THEN LastOf(ledger) ELSE entries[Max(unsent)].id]

Recorded == {history.recorded[i].id : i \in DOMAIN history.recorded}

\* submitBall while the outbox is not paused.  A screen that is offline may
\* record without a lease, so every screen may.
RecordBall(d, id, p) ==
    /\ ~paused[d]
    /\ id \notin Recorded
    /\ SaveOutbox(d, EnqueueScoringBall(queue[d], [id |-> id, player |-> p]))
    /\ seen' = [seen EXCEPT ![d].last = id]
    /\ history' = [history EXCEPT !.recorded = Append(@, [id |-> id, device |-> d])]
    /\ UNCHANGED <<serverVars, token, paused, flush, correction, wire, used>>

\* A poll or an invalidation of the live query.
RefreshLive(d) ==
    /\ seen' = [seen EXCEPT ![d] = Shown(queue[d])]
    /\ seen' # seen
    /\ UNCHANGED <<serverVars, queue, storage, token, paused, flush, correction, wire,
                   history, used>>

-----------------------------------------------------------------------------
(* The lease, seen from a screen *)

\* scoringSessionQ: renews the lease of this screen, or takes a free one.  A
\* refused poll keeps the token of the last successful one.
PollSession(d) ==
    /\ IF lease # NoToken
       THEN leases[lease] = d /\ UNCHANGED <<lease, leases, version, ledger>>
       ELSE Len(leases) < MaxLeases /\ OpenLease(d)
    /\ token' = [token EXCEPT ![d] = lease']
    /\ token' # token
    /\ UNCHANGED <<queue, storage, seen, paused, flush, correction, wire, history, used>>

TakeOverScoring(d) ==
    /\ lease # NoToken
    /\ leases[lease] # d
    /\ Len(leases) < MaxLeases
    /\ OpenLease(d)
    /\ token' = [token EXCEPT ![d] = lease']
    /\ UNCHANGED <<queue, storage, seen, paused, flush, correction, wire, history, used>>

\* No heartbeat for 90 seconds.  The bound keeps a free lease obtainable.
LeaseLapses ==
    /\ Len(leases) < MaxLeases
    /\ CloseLease
    /\ UNCHANGED <<screenVars, wire, history, used>>

-----------------------------------------------------------------------------
(* The server's answer to a request *)

\* Mutant: client_event_id is not looked up.
NoRetryCheck(ball, t) == FALSE

\* A delivery the ledger has is answered with the stored one and the current
\* version, before the version precondition is looked at.
IsRetry(ball, t) == t = lease /\ ball.id \in Ids(ledger)

IsNewBall(ball, v, t) ==
    /\ t = lease
    /\ ball.id \notin Ids(ledger)
    /\ v = version
    /\ ball.player \notin Ineligible

CreateLiveBall(ball) ==
    /\ version' = version + 1
    /\ ledger' = Append(ledger, ball)
    /\ history' = [history EXCEPT !.accepted[ball.id] = @ + 1]
    /\ UNCHANGED <<lease, leases>>

IsUndo(v, t) == t = lease /\ v = version /\ ledger # <<>>

DeleteLastLiveBall ==
    /\ version' = version + 1
    /\ ledger' = Front(ledger)
    /\ history' = [history EXCEPT !.undone = @ \cup {Last(ledger).id}]
    /\ UNCHANGED <<lease, leases>>

-----------------------------------------------------------------------------
(* flushDeliveryOutbox *)

Moved(d, phase) == [flush EXCEPT ![d].phase = phase]

\* Started by the timer after every change of the outbox, with a back-off
\* after a failure, or by "Sync" (which first ends the pause).
StartFlush(d) ==
    /\ token[d] # NoToken
    /\ queue[d] # <<>>
    /\ flush[d].phase = "idle"
    /\ ~paused[d]
    /\ flush' = [flush EXCEPT ![d].phase = "loading", ![d].token = token[d]]
    /\ UNCHANGED <<serverVars, queue, storage, token, seen, paused, correction, wire,
                   history, used>>

\* The button is disabled while a correction is pending.
SyncQueued(d) ==
    /\ paused[d]
    /\ flush[d].phase = "idle"
    /\ correction[d] = NoCorrection
    /\ token[d] # NoToken
    /\ paused' = [paused EXCEPT ![d] = FALSE]
    /\ flush' = [flush EXCEPT ![d].phase = "loading", ![d].token = token[d]]
    /\ UNCHANGED <<serverVars, queue, storage, token, seen, correction, wire, history, used>>

\* The version of the server and the deliveries queued at that moment; an
\* outbox that has become empty ends the flush.
FlushLoaded(d) ==
    /\ flush[d].phase = "loading"
    /\ flush' = [flush EXCEPT ![d] =
           IF queue[d] = <<>> THEN NoFlush
           ELSE [@ EXCEPT !.phase = "posting", !.batch = queue[d], !.version = version]]
    /\ UNCHANGED <<serverVars, queue, storage, token, seen, paused, correction, wire,
                   history, used>>

\* The server handles the delivery a flush is posting.
ServerHandlesPost(d) ==
    LET ball == Head(flush[d].batch)
    IN  /\ flush[d].phase = "posting"
        /\ \/ /\ IsNewBall(ball, flush[d].version, flush[d].token)
              /\ CreateLiveBall(ball)
              /\ flush' = [flush EXCEPT ![d].phase = "accepted", ![d].version = version + 1]
           \/ /\ IsRetry(ball, flush[d].token)
              /\ flush' = [flush EXCEPT ![d].phase = "accepted", ![d].version = version]
              /\ UNCHANGED <<serverVars, history>>
           \/ /\ ~IsNewBall(ball, flush[d].version, flush[d].token)
              /\ ~IsRetry(ball, flush[d].token)
              /\ flush' = Moved(d, "refused")
              /\ UNCHANGED <<serverVars, history>>
        /\ UNCHANGED <<queue, storage, token, seen, paused, correction, wire, used>>

\* The reply: the entry leaves the outbox, the version of the shown state
\* becomes the acknowledged one, and the next delivery is posted.
BallAcknowledged(d) ==
    LET rest == Tail(flush[d].batch)
    IN  /\ flush[d].phase = "accepted"
        /\ SaveOutbox(d, RemoveScoringBall(queue[d], Head(flush[d].batch).id))
        /\ seen' = [seen EXCEPT ![d].version = flush[d].version]
        /\ flush' = [flush EXCEPT ![d] =
               IF rest = <<>> THEN NoFlush ELSE [@ EXCEPT !.phase = "posting", !.batch = rest]]
        /\ UNCHANGED <<serverVars, token, paused, correction, wire, history, used>>

\* Mutants: a refused delivery is dropped; the flush goes on after it.
RefusedIsDropped(d) ==
    /\ flush[d].phase = "refused"
    /\ SaveOutbox(d, RemoveScoringBall(queue[d], Head(flush[d].batch).id))
    /\ paused' = [paused EXCEPT ![d] = TRUE]
    /\ flush' = [flush EXCEPT ![d] = NoFlush]
    /\ UNCHANGED <<serverVars, token, seen, correction, wire, history, used>>

RefusedIsSkipped(d) ==
    LET rest == Tail(flush[d].batch)
    IN  /\ flush[d].phase = "refused"
        /\ paused' = [paused EXCEPT ![d] = TRUE]
        /\ flush' = [flush EXCEPT ![d] =
               IF rest = <<>> THEN NoFlush ELSE [@ EXCEPT !.phase = "posting", !.batch = rest]]
        /\ UNCHANGED <<serverVars, queue, storage, token, seen, correction, wire, history, used>>

\* A client error pauses scoring until the operator resolves it; the unsent
\* tail stays queued.
BallRefused(d) ==
    /\ flush[d].phase = "refused"
    /\ paused' = [paused EXCEPT ![d] = TRUE]
    /\ flush' = [flush EXCEPT ![d] = NoFlush]
    /\ UNCHANGED <<serverVars, queue, storage, token, seen, correction, wire, history, used>>

-----------------------------------------------------------------------------
(* Undo and corrections of queued deliveries *)

\* undoMutation, for an empty outbox only.
UndoLast(d) ==
    /\ used.undo < MaxUndos
    /\ token[d] # NoToken
    /\ queue[d] = <<>>
    /\ flush[d].phase = "idle"
    /\ seen[d].last # NoBall
    /\ wire' = wire \cup {[kind |-> "undo", shown |-> seen[d].last, version |-> seen[d].version,
                           token |-> token[d]]}
    /\ used' = [used EXCEPT !.undo = @ + 1]
    /\ UNCHANGED <<serverVars, screenVars, history>>

\* saveEditingBall and deleteRecordedBall for a queued delivery, up to the
\* GET.  Only the last queued delivery can be removed.
StartCorrection(d, id, to) ==
    /\ used.correction < MaxCorrections
    /\ flush[d].phase = "idle"
    /\ correction[d] = NoCorrection
    /\ id \in Ids(queue[d])
    /\ to = Removed => id = Last(queue[d]).id
    /\ correction' = [correction EXCEPT ![d] = [id |-> id, to |-> to]]
    /\ used' = [used EXCEPT !.correction = @ + 1]
    /\ UNCHANGED <<serverVars, queue, storage, token, seen, paused, flush, wire, history>>

\* ... and after it.  A delivery that has reached the server is left alone.
FinishCorrection(d) ==
    LET id == correction[d].id
        to == correction[d].to
    IN  /\ correction[d] # NoCorrection
        /\ correction' = [correction EXCEPT ![d] = NoCorrection]
        /\ \/ /\ id \in Ids(ledger)
              /\ paused' = [paused EXCEPT ![d] = FALSE]
              /\ UNCHANGED <<queue, storage, seen, history>>
           \/ /\ id \notin Ids(ledger)
              /\ to # Removed
              /\ id \notin Ids(queue[d])
              /\ UNCHANGED <<queue, storage, seen, paused, history>>
           \/ /\ id \notin Ids(ledger)
              /\ to # Removed
              /\ id \in Ids(queue[d])
              /\ \E last \in DOMAIN queue[d] :
                    SaveOutbox(d, ReplaceQueuedScoringBall(queue[d], id, to, last))
              /\ seen' = [seen EXCEPT ![d] = Shown(queue'[d])]
              /\ paused' = [paused EXCEPT ![d] = FALSE]
              /\ UNCHANGED history
           \/ /\ id \notin Ids(ledger)
              /\ to = Removed
              /\ SaveOutbox(d, RemoveScoringBall(queue[d], id))
              /\ seen' = [seen EXCEPT ![d] = Shown(queue'[d])]
              /\ paused' = [paused EXCEPT ![d] = FALSE]
              /\ history' = [history EXCEPT !.removed = @ \cup {id}]
        /\ UNCHANGED <<serverVars, token, flush, wire, used>>

-----------------------------------------------------------------------------
(* Failures *)

Fault == used.fault < MaxFaults /\ used' = [used EXCEPT !.fault = @ + 1]

\* What is left of a flush that nobody waits for any more: a request that
\* was posted may still reach the server.
Abandoned(d) ==
    IF flush[d].phase = "posting"
    THEN {[kind |-> "ball", ball |-> Head(flush[d].batch), version |-> flush[d].version,
           token |-> flush[d].token]}
    ELSE {}

\* Mutant: outboxFlushing is not cleared after a failure.
FlushHangs(d) ==
    /\ Fault
    /\ flush[d].phase # "idle"
    /\ flush' = Moved(d, "failed")
    /\ wire' \in {wire, wire \cup Abandoned(d)}
    /\ UNCHANGED <<serverVars, queue, storage, token, seen, paused, correction, history>>

\* The network fails the request or loses the reply: the delivery stays
\* queued and the flush ends.
FlushFails(d) ==
    /\ Fault
    /\ flush[d].phase # "idle"
    /\ flush' = [flush EXCEPT ![d] = NoFlush]
    /\ wire' \in {wire, wire \cup Abandoned(d)}
    /\ UNCHANGED <<serverVars, queue, storage, token, seen, paused, correction, history>>

\* The tab is reloaded or crashes: only localStorage survives.
ReloadScreen(d) ==
    /\ Fault
    /\ SaveOutbox(d, storage[BrowserOf[d]])
    /\ token' = [token EXCEPT ![d] = NoToken]
    /\ seen' = [seen EXCEPT ![d] = NothingSeen]
    /\ paused' = [paused EXCEPT ![d] = FALSE]
    /\ flush' = [flush EXCEPT ![d] = NoFlush]
    /\ correction' = [correction EXCEPT ![d] = NoCorrection]
    /\ wire' \in {wire, wire \cup Abandoned(d)}
    /\ UNCHANGED <<serverVars, history>>

CorrectionFails(d) ==
    /\ Fault
    /\ correction[d] # NoCorrection
    /\ correction' = [correction EXCEPT ![d] = NoCorrection]
    /\ UNCHANGED <<serverVars, queue, storage, token, seen, paused, flush, wire, history>>

\* A request nobody waits for reaches the server, or is lost.
ServerHandlesLate(r) ==
    /\ wire' = wire \ {r}
    /\ IF r.kind = "ball"
       THEN IF IsNewBall(r.ball, r.version, r.token)
            THEN CreateLiveBall(r.ball)
            ELSE UNCHANGED <<serverVars, history>>
       ELSE IF IsUndo(r.version, r.token)
            THEN DeleteLastLiveBall
            ELSE UNCHANGED <<serverVars, history>>
    /\ UNCHANGED <<screenVars, used>>

-----------------------------------------------------------------------------
(* Specification *)

Init ==
    /\ ServerInit
    /\ queue = [d \in Devices |-> <<>>]
    /\ storage = [b \in Browsers |-> <<>>]
    /\ token = [d \in Devices |-> NoToken]
    /\ seen = [d \in Devices |-> NothingSeen]
    /\ paused = [d \in Devices |-> FALSE]
    /\ flush = [d \in Devices |-> NoFlush]
    /\ correction = [d \in Devices |-> NoCorrection]
    /\ wire = {}
    /\ history = [recorded |-> <<>>, undone |-> {}, removed |-> {},
                  accepted |-> [id \in BallIds |-> 0]]
    /\ used = [undo |-> 0, correction |-> 0, fault |-> 0]

FlushStep(d) ==
    StartFlush(d) \/ FlushLoaded(d) \/ ServerHandlesPost(d) \/ BallAcknowledged(d) \/ BallRefused(d)

OperatorStep(d) ==
    \/ \E id \in BallIds, p \in Players : RecordBall(d, id, p)
    \/ TakeOverScoring(d)
    \/ SyncQueued(d)
    \/ UndoLast(d)
    \/ \E id \in Ids(queue[d]), to \in Players \cup {Removed} : StartCorrection(d, id, to)

FailureStep(d) == FlushFails(d) \/ ReloadScreen(d) \/ CorrectionFails(d)

Next ==
    \/ \E d \in Devices :
          FlushStep(d) \/ OperatorStep(d) \/ PollSession(d) \/ RefreshLive(d) \/ FinishCorrection(d)
    \/ \E d \in Devices : FailureStep(d)
    \/ LeaseLapses
    \/ \E r \in wire : ServerHandlesLate(r)

Spec == Init /\ [][Next]_vars

\* The timer of the flush, its awaits and the session poll of every screen
\* keep running; nothing is asked of operators or of late requests.
Fairness == \A d \in Devices : WF_vars(FlushStep(d)) /\ WF_vars(PollSession(d))

FairSpec == Spec /\ Fairness

-----------------------------------------------------------------------------
(* Properties *)

\* A recorded delivery is in the ledger or still queued somewhere, unless an
\* operator removed or undid it: no crash, lost reply, takeover or refused
\* request loses it.
NoBallLost ==
    \A id \in Recorded \ (history.undone \cup history.removed) :
        id \in Ids(ledger) \/ \E d \in Devices : id \in Ids(queue[d])

\* The deliveries of one screen are in the ledger in the order in which they
\* were recorded, whatever was refused, corrected, retried or handled late.
RecordedOrderKept ==
    \A i, j \in DOMAIN history.recorded : i < j /\ history.recorded[i].device = history.recorded[j].device =>
        \A k, l \in DOMAIN ledger :
            ledger[k].id = history.recorded[i].id /\ ledger[l].id = history.recorded[j].id => k < l

\* As long as one screen has held the only lease of the match and its operator
\* has undone and corrected nothing, no failure and no retry pauses scoring:
\* only a delivery the server cannot accept does.
PausedForAReason ==
    \A d \in Devices :
        /\ paused[d]
        /\ lease # NoToken /\ Len(leases) = 1
        /\ used.undo = 0 /\ used.correction = 0
        => queue[d] # <<>> /\ Head(queue[d]).player \in Ineligible

\* A screen that keeps the lease and is not paused gets its outbox through.
QueuedBallsDrain ==
    \A d \in Devices :
        <>[](lease # NoToken /\ token[d] = lease /\ ~paused[d]) => []<>(queue[d] = <<>>)

-----------------------------------------------------------------------------
(* Claims of the documentation that the code does not keep *)

\* $matchId.tsx: "Safe retry IDs prevent a ball from being added twice."
AcceptedOnce == \A id \in BallIds : history.accepted[id] =< 1

\* $matchId.tsx: "Remove this unsynced ball from this device? It has not
\* reached the match scorecard."
RemovedBallStaysOut == history.removed \cap Ids(ledger) = {}

\* ops/SCORING_RELIABILITY.md: X-Score-Version is "the version returned by the
\* latest live-score response", so an undo removes the delivery that response
\* showed last.
UndoRemovesTheBallShown ==
    [][Len(ledger') < Len(ledger) =>
          \E r \in wire \ wire' : r.kind = "undo" /\ r.shown = Last(ledger).id]_vars
=============================================================================
