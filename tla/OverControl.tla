---------------------------- MODULE OverControl ----------------------------
(***************************************************************************)
(* Overs, strike and bowlers while an innings is scored: the scoring       *)
(* screen (src/admin/src/routes/_shell/scoring/$matchId.tsx) decides when  *)
(* an over ends, who faces and who bowls next, and shows deliveries before *)
(* the server has them; the server (admin_routes.py) checks the bowler and *)
(* numbers the deliveries again after every write.                         *)
(*                                                                         *)
(* One screen holds the lease and scores one innings; leases, versions and *)
(* lost replies are ScoringOutbox's.  React runs the effects of a change   *)
(* of the live state before the next event of the operator, so a step      *)
(* includes them.                                                          *)
(***************************************************************************)
EXTENDS Naturals, Sequences, FiniteSets, SequencesExt

CONSTANTS
    Batters,         \* the batting side, in the order of the squad list
    Bowlers,         \* the bowling side, in the order of the squad list
    BallsPerOver,    \* 6 in the code
    Overs,           \* overs allocated to the innings
    Keypad,          \* the kinds of deliveries a run records
    Limits, MaxOther \* how often each kind of event happens, and how many
                     \* events other than deliveries: bounds of the model

\* The deliveries of the keypad and the dialogs, as far as strike and overs
\* tell them apart.
Kind == {"dot", "single", "wide", "dead", "out"}

\* What the model counts: deliveries recorded, calls of the umpire ("end the
\* over now", "continue this over"), undos, corrections, players and rulings
\* chosen by hand, reloads, deliveries recorded before the state had arrived.
Counted == {"balls", "calls", "undos", "corrections", "choices", "reloads", "blind"}

ASSUME SideAssumption ==
    /\ Batters \in Seq(Range(Batters)) /\ Len(Batters) >= 2 /\ IsInjective(Batters)
    /\ Bowlers \in Seq(Range(Bowlers)) /\ Len(Bowlers) >= 1 /\ IsInjective(Bowlers)

ASSUME LengthAssumption ==
    /\ BallsPerOver \in Nat \ {0}
    /\ Overs \in Nat
    /\ Keypad \subseteq Kind
    /\ Limits \in [Counted -> Nat]
    /\ MaxOther \in Nat

VARIABLES
    ledger,    \* the deliveries the server holds, in order
    queue,     \* bodies recorded and not acknowledged
    loaded,    \* liveQ.data has arrived
    data,      \* liveQ.data.events
    key,       \* lastHydratedEventKeyRef
    pick,      \* the selected striker, non-striker and bowler
    ruling,    \* the radio buttons "Umpire over count"
    dialog,    \* the dialog that asks for the bowler of the new over
    paused,    \* outboxPaused
    history,   \* how many events of each kind happened
    reset      \* a fetch replaced the players that were selected

vars == <<ledger, queue, loaded, data, key, pick, ruling, dialog, paused, history, reset>>

NoPlayer == "nobody"
NoKey == <<0, 0>>

BatterSet == {Batters[i] : i \in DOMAIN Batters}
BowlerSet == {Bowlers[i] : i \in DOMAIN Bowlers}

\* over_complete_override
Override == {"none", "end", "go"}

Event == [id : Nat, kind : Kind, override : Override, over : Nat, ball : Nat,
          striker : BatterSet, other : BatterSet, next : BatterSet \cup {NoPlayer},
          bowler : BowlerSet, note : BOOLEAN, updated : Nat]

IsLegal(e) == e.kind \in {"dot", "single", "out"}
IsDead(e) == e.kind = "dead"

Ids(events) == {events[i].id : i \in DOMAIN events}

Closed == [open |-> FALSE, over |-> 0, previous |-> NoPlayer, note |-> FALSE]

TypeOK ==
    /\ ledger \in Seq(Event)
    /\ queue \in Seq(Event)
    /\ data \in Seq(Event)
    /\ loaded \in BOOLEAN
    /\ key \in Nat \X Nat
    /\ pick \in [striker : BatterSet, other : BatterSet, bowler : BowlerSet]
    /\ ruling \in {"normal", "end", "continue"}
    /\ dialog \in [open : BOOLEAN, over : Nat, previous : BowlerSet \cup {NoPlayer}, note : BOOLEAN]
    /\ paused \in BOOLEAN
    /\ history \in [Counted -> Nat]
    /\ \A f \in Counted : history[f] <= Limits[f]
    /\ reset \in BOOLEAN

-----------------------------------------------------------------------------
(* When an over ends *)

\* _live_event_closes_over and eventClosesOver: the umpire's call comes first.
ClosesOver(e, balls) ==
    /\ ~IsDead(e)
    /\ \/ e.override = "end"
       \/ IsLegal(e) /\ e.override = "none" /\ balls = BallsPerOver

BallsWith(balls, e) == IF IsLegal(e) THEN balls + 1 ELSE balls

After(place, e) ==
    LET balls == BallsWith(place.balls, e)
    IN  IF ClosesOver(e, balls) THEN [over |-> place.over + 1, balls |-> 0]
        ELSE [place EXCEPT !.balls = balls]

Start == [over |-> 0, balls |-> 0]

\* Where the innings stands after each of these deliveries.
Places(events) ==
    LET place[n \in 0 .. Len(events)] ==
            IF n = 0 THEN Start ELSE After(place[n - 1], events[n])
    IN  place

\* _live_overs_label_for_events
OversLabel(events) == Places(events)[Len(events)]

\* nextDeliveryPosition: where the screen puts the next delivery.
NextDeliveryPosition(events) ==
    LET place == OversLabel(events)
    IN  [over |-> place.over, ball |-> place.balls + 1]

\* Mutant: the overs are not counted, only the balls.
NumberedInOneOver(events) ==
    [i \in DOMAIN events |-> [events[i] EXCEPT !.over = 0, !.ball = i]]

Labelled(e, place) ==
    LET at == [e EXCEPT !.over = place.over, !.ball = place.balls + 1]
    IN  IF at = e THEN e ELSE [at EXCEPT !.updated = @ + 1]

\* _renumber_live_events asks whether the over ends for legal deliveries only:
\* the umpire's call on another one does not count.
CallsCounted(events) ==
    [i \in DOMAIN events |-> IF IsLegal(events[i]) THEN events[i]
                             ELSE [events[i] EXCEPT !.override = "none"]]

RenumberLiveEvents(events) ==
    LET place == Places(CallsCounted(events))
    IN  [i \in DOMAIN events |-> Labelled(events[i], place[i - 1])]

\* _assert_bowler_can_bowl_current_over: whoever bowls the over may go on; nobody
\* else who bowled in the over before.
InOver(events, over) == {i \in DOMAIN events : events[i].over = over /\ ~IsDead(events[i])}
BowlersOf(events, over) == {events[i].bowler : i \in InOver(events, over)}

\* Mutant: the server does not look at the bowler.
AnyBowler(events, e) == TRUE

BowlerAllowed(events, e) ==
    \/ IsDead(e)
    \/ \E i \in InOver(events, e.over) :
           events[i].bowler = e.bowler /\ \A j \in InOver(events, e.over) : j <= i
    \/ e.over = 0
    \/ e.bowler \notin BowlersOf(events, e.over - 1)

-----------------------------------------------------------------------------
(* Who faces the next delivery *)

\* Mutant: batters who ran one keep their ends when the over ends, too.
SelectionWithoutOver(e) ==
    LET facing == IF e.kind = "out" THEN e.next ELSE e.striker
        swap   == e.kind = "single"
    IN  [striker |-> IF swap THEN e.other ELSE facing,
         other   |-> IF swap THEN facing ELSE e.other,
         bowler  |-> e.bowler]

\* Mutant: the dismissed batter's place is filled before anybody is chosen.
SelectionOfNext(e) == [striker |-> e.next, other |-> e.other, bowler |-> e.bowler]

\* selectionAfterEvent; applyPostBallState computes the same from the body it
\* recorded.
SelectionAfter(e) ==
    LET facing == IF e.kind = "out" THEN e.next ELSE e.striker
        ends   == ClosesOver(e, e.ball)
        swap   == (e.kind = "single") # ends
    IN  [striker |-> IF swap THEN e.other ELSE facing,
         other   |-> IF swap THEN facing ELSE e.other,
         bowler  |-> e.bowler]

\* restorePreBallState
SelectionBefore(e) == [striker |-> e.striker, other |-> e.other, bowler |-> e.bowler]

KeyOf(e) == <<e.id, e.updated>>

AppendOptimisticBall(events, body) ==
    IF body.id \in Ids(events) THEN events ELSE Append(events, body)

\* The effect on deliveryOutbox, and withQueuedBalls: what the server state
\* lacks is appended again.
WithQueuedBalls(server, entries) ==
    LET shown[n \in 0 .. Len(entries)] ==
            IF n = 0 THEN server ELSE AppendOptimisticBall(shown[n - 1], entries[n])
    IN  shown[Len(entries)]

\* The hydration effect: the players are selected anew when the last delivery is
\* not the one it saw last; an appended one has a fresh updated_at each time.
Hydrate(shown, server, seen) ==
    IF shown = <<>> \/ (shown = server /\ KeyOf(Last(shown)) = seen)
    THEN key' = seen /\ UNCHANGED pick
    ELSE key' = KeyOf(Last(shown)) /\ pick' = SelectionAfter(Last(shown))

Show(server, entries, seen) ==
    LET shown == WithQueuedBalls(server, entries)
    IN  data' = shown /\ Hydrate(shown, server, seen)

Others == FoldFunctionOnSet(+, 0, history, Counted \ {"balls"})

May(f) == history[f] < Limits[f] /\ (f # "balls" => Others < MaxOther)
Count(f) == history' = [history EXCEPT ![f] = @ + 1] /\ UNCHANGED reset

-----------------------------------------------------------------------------
Init ==
    /\ ledger = <<>>
    /\ queue = <<>>
    /\ loaded = TRUE
    /\ data = <<>>
    /\ key = NoKey
    /\ pick = [striker |-> Batters[1], other |-> Batters[2], bowler |-> Bowlers[1]]
    /\ ruling = "normal"
    /\ dialog = Closed
    /\ paused = FALSE
    /\ history = [f \in Counted |-> 0]
    /\ reset = FALSE

\* firstInningsOversReached
OversReached ==
    \/ NextDeliveryPosition(data).over >= Overs
    \/ OversLabel(data).over * BallsPerOver + OversLabel(data).balls >= Overs * BallsPerOver
    \/ Cardinality({i \in DOMAIN data : IsLegal(data[i])}) >= Overs * BallsPerOver

OutBatters ==
    {data[i].striker : i \in {j \in DOMAIN data : data[j].kind = "out"}}

\* availableNewBatters, for the striker's dismissal.
NewBatters == (BatterSet \ OutBatters) \ {pick.striker, pick.other}

OverrideFor(kind) ==
    LET legal == kind \in {"dot", "single", "out"}
    IN  CASE legal /\ ruling = "end"      -> "end"
          [] legal /\ ruling = "continue" -> "go"
          [] OTHER                        -> "none"

\* The body submitBall builds from what the screen shows.
BodyFor(kind, next) ==
    [id |-> history.balls + 1, kind |-> kind, override |-> OverrideFor(kind),
     over |-> NextDeliveryPosition(data).over, ball |-> NextDeliveryPosition(data).ball,
     striker |-> pick.striker, other |-> pick.other, next |-> next,
     bowler |-> pick.bowler, note |-> FALSE, updated |-> 0]

\* Mutant: the over ends by the umpire's call only.
AsksOnCallOnly(e) == IsLegal(e) /\ e.override = "end"

\* The end of an over as applyAcceptedBallUi asks for it.
AsksForBowler(e) ==
    IsLegal(e) /\ (e.override = "end" \/ (e.override = "none" /\ e.ball = BallsPerOver))

\* applyPostBallState: the bowler stays.
ApplyPostBallState(body) == [SelectionAfter(body) EXCEPT !.bowler = pick.bowler]

\* applyAcceptedBallUi
ApplyAcceptedBallUi(body) ==
    /\ key' = KeyOf(body)
    /\ pick' = ApplyPostBallState(body)
    /\ ruling' = IF IsLegal(body) THEN IF body.override = "go" THEN "end" ELSE "normal"
                 ELSE ruling
    /\ dialog' = IF AsksForBowler(body)
                 THEN [open |-> TRUE, over |-> body.over + 1, previous |-> body.bowler,
                       note |-> FALSE]
                 ELSE dialog

\* queueBallForDelivery: without a live state only the outbox changes.
QueueBallForDelivery(body) ==
    /\ queue' = Append(queue, body)
    /\ IF loaded
       THEN data' = Append(data, body) /\ ApplyAcceptedBallUi(body)
       ELSE UNCHANGED <<data, key, pick, ruling, dialog>>

\* submitBall and submitWicket
RecordBall(kind, next) ==
    /\ May("balls")
    /\ ~loaded => May("blind")
    /\ ~paused
    /\ ~dialog.open
    /\ ~OversReached
    /\ pick.striker # pick.other
    /\ IF kind = "out" THEN next \in NewBatters ELSE next = NoPlayer
    /\ QueueBallForDelivery(BodyFor(kind, next))
    /\ history' = [history EXCEPT !.balls = @ + 1, !.blind = IF loaded THEN @ ELSE @ + 1]
    /\ UNCHANGED <<ledger, loaded, paused, reset>>

\* One delivery of a flush, handled and answered.  The answer replaces the
\* shown delivery; a refusal pauses scoring.
SyncBall ==
    LET body  == Head(queue)
        after == RenumberLiveEvents(Append(ledger, [body EXCEPT !.updated = 1]))
        saved == Last(after)
    IN  /\ queue # <<>>
        /\ ~paused
        /\ \/ /\ BowlerAllowed(ledger, body)
              /\ ledger' = after
              /\ queue' = Tail(queue)
              /\ key' = IF data # <<>> /\ Last(data).id = body.id THEN KeyOf(saved) ELSE key
              /\ data' = [i \in DOMAIN data |-> IF data[i].id = body.id THEN saved ELSE data[i]]
              /\ UNCHANGED paused
           \/ /\ ~BowlerAllowed(ledger, body)
              /\ paused' = TRUE
              /\ UNCHANGED <<ledger, queue, key, data>>
        /\ UNCHANGED <<loaded, pick, ruling, dialog, history, reset>>

\* The query is fetched again: at the end of every flush, on focus, by a poll.
Refetch ==
    /\ loaded' = TRUE
    /\ Show(ledger, queue, key)
    /\ reset' = (reset \/ pick' # pick)
    /\ UNCHANGED <<ledger, queue, ruling, dialog, paused, history>>

-----------------------------------------------------------------------------
(* The bowler of the new over, and the players by hand *)

\* The over note typed in the dialog.
TypeNote ==
    /\ dialog.open
    /\ dialog' = [dialog EXCEPT !.note = TRUE]
    /\ UNCHANGED <<ledger, queue, loaded, data, key, pick, ruling, paused, history, reset>>

\* Changes of deliveries need an empty outbox (scoringWriteHeaders).
CanCorrect ==
    /\ queue = <<>>
    /\ loaded
    /\ data = ledger

\* admin_update_live_ball of one delivery.
Updated(i, e) ==
    RenumberLiveEvents([ledger EXCEPT ![i] = IF e = @ THEN @ ELSE [e EXCEPT !.updated = @ + 1]])

\* The delivery confirmNewOverBowler saves the note with: the last one of the
\* over whose number the summary shows, which counts overs from one.
NotedEvents(events) == {i \in DOMAIN events : events[i].over = dialog.over}

\* confirmNewOverBowler.  A note that cannot be saved leaves the dialog open.
ConfirmNewOverBowler(b) ==
    LET found == NotedEvents(data)
        write == found # {} /\ dialog.note
        e     == ledger[Max(found)]
        after == Updated(Max(found), [e EXCEPT !.note = TRUE])
    IN  /\ dialog.open
        /\ b # dialog.previous
        /\ write => CanCorrect /\ BowlerAllowed(ledger, e)
        /\ dialog' = Closed
        /\ IF write
           THEN /\ ledger' = after
                /\ data' = after
                /\ key' = KeyOf(Last(after))
                /\ pick' = [SelectionAfter(Last(after)) EXCEPT !.bowler = b]
           ELSE /\ pick' = [pick EXCEPT !.bowler = b]
                /\ UNCHANGED <<ledger, data, key>>
        /\ UNCHANGED <<queue, loaded, ruling, paused, history, reset>>

\* "Batters / strike and bowler controls"
ChoosePlayers(s, o, b) ==
    /\ May("choices")
    /\ s # o
    /\ pick' = [striker |-> s, other |-> o, bowler |-> b]
    /\ pick' # pick
    /\ Count("choices")
    /\ UNCHANGED <<ledger, queue, loaded, data, key, ruling, dialog, paused>>

\* The radio buttons "Umpire over count".
ChooseRuling(r) ==
    /\ May("choices")
    /\ ruling # r
    /\ ruling' = r
    /\ Count("choices")
    /\ UNCHANGED <<ledger, queue, loaded, data, key, pick, dialog, paused>>

-----------------------------------------------------------------------------
(* Corrections *)

\* endOverNowMutation: the last delivery of the current over ends it.
EndOverNow ==
    \E i \in DOMAIN ledger :
        LET e     == ledger[i]
            after == Updated(i, [e EXCEPT !.override = "end"])
        IN  /\ May("calls")
            /\ CanCorrect
            /\ e.over = NextDeliveryPosition(data).over
            /\ ~IsDead(e)
            /\ \A j \in DOMAIN ledger : j > i /\ ledger[j].over = e.over => IsDead(ledger[j])
            /\ BowlerAllowed(ledger, e)
            /\ ledger' = after
            /\ data' = after
            /\ key' = KeyOf(Last(after))
            /\ pick' = SelectionAfter(Last(after))
            /\ ruling' = "normal"
            /\ dialog' = [open |-> TRUE, over |-> after[i].over + 1,
                          previous |-> e.bowler, note |-> dialog.note]
            /\ Count("calls")
            /\ UNCHANGED <<queue, loaded, paused>>

\* continueOverMutation: the last legal delivery does not end the over.
ContinueOver ==
    \E i \in DOMAIN ledger :
        LET e     == ledger[i]
            after == Updated(i, [e EXCEPT !.override = "go"])
        IN  /\ May("calls")
            /\ CanCorrect
            /\ dialog.open \/ OversReached
            /\ IsLegal(e)
            /\ \A j \in DOMAIN ledger : j > i => ~IsLegal(ledger[j])
            /\ BowlerAllowed(ledger, e)
            /\ ledger' = after
            /\ data' = after
            /\ key' = KeyOf(Last(after))
            /\ pick' = SelectionAfter(Last(after))
            /\ ruling' = "end"
            /\ dialog' = [Closed EXCEPT !.note = dialog.note]
            /\ Count("calls")
            /\ UNCHANGED <<queue, loaded, paused>>

\* undoMutation and admin_delete_last_live_ball.
UndoLastBall ==
    LET rest == RenumberLiveEvents(Front(ledger))
    IN  /\ May("undos")
        /\ CanCorrect
        /\ ledger # <<>>
        /\ ledger' = rest
        /\ data' = rest
        /\ key' = IF rest = <<>> THEN NoKey ELSE KeyOf(Last(rest))
        /\ pick' = SelectionBefore(Last(ledger))
        /\ dialog' = [Closed EXCEPT !.note = Last(ledger).note]
        /\ Count("undos")
        /\ UNCHANGED <<queue, loaded, ruling, paused>>

\* editBallMutation: a delivery becomes one of another kind, the call stays.
EditBall(i, kind) ==
    LET e     == ledger[i]
        after == Updated(i, [e EXCEPT !.kind = kind])
    IN  /\ May("corrections")
        /\ CanCorrect
        /\ {e.kind, kind} \subseteq {"dot", "single", "wide"} /\ e.kind # kind
        /\ BowlerAllowed(ledger, [e EXCEPT !.kind = kind])
        /\ ledger' = after
        /\ Show(after, <<>>, NoKey)
        /\ Count("corrections")
        /\ UNCHANGED <<queue, loaded, ruling, dialog, paused>>

\* deleteBallMutation
DeleteBall(i) ==
    LET after == RenumberLiveEvents(RemoveAt(ledger, i))
    IN  /\ May("corrections")
        /\ CanCorrect
        /\ ledger' = after
        /\ Show(after, <<>>, NoKey)
        /\ Count("corrections")
        /\ UNCHANGED <<queue, loaded, ruling, dialog, paused>>

\* replaceQueuedScoringBall, of another bowler: the queued deliveries that
\* follow in the over and had the same bowler get the new one, too.
ReplaceQueuedScoringBall(i, b) ==
    [j \in DOMAIN queue |->
        IF j = i \/ (j > i /\ queue[j].over = queue[i].over
                            /\ queue[j].bowler = queue[i].bowler)
        THEN [queue[j] EXCEPT !.bowler = b]
        ELSE queue[j]]

\* saveEditingBall of a delivery the server has not got, opened from the list
\* of events at any time or by "Fix queued ball": another bowler, whom the
\* screen checks against the over before; the flush goes on.
CorrectQueuedBowler(i, b) ==
    LET entries == ReplaceQueuedScoringBall(i, b)
    IN  /\ May("choices")
        /\ queue[i].id \in Ids(data)
        /\ queue[i].bowler # b
        /\ queue[i].over > 0 => b \notin BowlersOf(ledger, queue[i].over - 1)
        /\ queue' = entries
        /\ Show(ledger, entries, key)
        /\ paused' = FALSE
        /\ Count("choices")
        /\ UNCHANGED <<ledger, loaded, ruling, dialog>>

\* The tab is reloaded: the outbox is read back, the players are the first of
\* each side until the live state arrives.
Reload ==
    /\ May("reloads")
    /\ loaded' = FALSE
    /\ data' = <<>>
    /\ key' = NoKey
    /\ pick' = [striker |-> Batters[1], other |-> Batters[2], bowler |-> Bowlers[1]]
    /\ ruling' = "normal"
    /\ dialog' = Closed
    /\ paused' = FALSE
    /\ Count("reloads")
    /\ UNCHANGED <<ledger, queue>>

Next ==
    \/ \E kind \in Keypad, next \in BatterSet \cup {NoPlayer} : RecordBall(kind, next)
    \/ SyncBall
    \/ Refetch
    \/ TypeNote
    \/ \E b \in BowlerSet : ConfirmNewOverBowler(b)
    \/ \E s, o \in BatterSet, b \in BowlerSet : ChoosePlayers(s, o, b)
    \/ \E r \in {"normal", "end", "continue"} : ChooseRuling(r)
    \/ EndOverNow
    \/ ContinueOver
    \/ UndoLastBall
    \/ \E i \in DOMAIN ledger, kind \in Kind : EditBall(i, kind)
    \/ \E i \in DOMAIN ledger : DeleteBall(i)
    \/ \E i \in DOMAIN queue, b \in BowlerSet : CorrectQueuedBowler(i, b)
    \/ Reload

Spec == Init /\ [][Next]_vars

-----------------------------------------------------------------------------
(* Properties *)

\* An over that a delivery which is not legal ended ("end current over now"
\* after a wide).
EndedByIllegal(events) == \E i \in DOMAIN events : ~IsLegal(events[i]) /\ events[i].override = "end"

\* Whatever is recorded, synced, undone and corrected: a delivery is labelled
\* with the place that the deliveries before it give, both while it waits in
\* the outbox (nextDeliveryPosition) and once stored (_renumber_live_events).
PositionsAgree ==
    loaded /\ history.blind = 0 /\ ~EndedByIllegal(data) =>
        \A i \in DOMAIN data :
            [over |-> data[i].over, ball |-> data[i].ball]
                = NextDeliveryPosition(SubSeq(data, 1, i - 1))

\* The same for every delivery: "invalid_delivery_call" of
\* test_live_scoring_schemas.py:667-677 says such a delivery ends the over.
LabelsFollowTheOvers ==
    \A i \in DOMAIN ledger :
        ledger[i].over = OversLabel(SubSeq(ledger, 1, i - 1)).over

\* The bowlers of an over and of the next one are different, for a ledger that
\* was recorded and undone, never corrected: what the check of the server and
\* the numbering, each with its own reading of the ledger, achieve together.
NoConsecutiveOvers ==
    history.calls = 0 /\ history.corrections = 0 /\ history.blind = 0 =>
        \A o \in 0 .. Overs : BowlersOf(ledger, o) \cap BowlersOf(ledger, o + 1) = {}

\* Scoring pauses for the bowler only when somebody chose, called, corrected or
\* reloaded, or a fetch replaced the selection: recording alone never does it.
PausedForAReason ==
    paused => \/ reset
              \/ \E f \in {"calls", "corrections", "choices", "reloads"} : history[f] > 0

\* Who faces after these deliveries: the ends change for an odd number of runs
\* and at the end of an over.
Face(acc, e) ==
    LET place  == After(acc.place, e)
        facing == IF e.kind = "out" THEN e.next ELSE acc.striker
        swap   == (e.kind = "single") # (place.over # acc.place.over)
    IN  [striker |-> IF swap THEN acc.other ELSE facing,
         other   |-> IF swap THEN facing ELSE acc.other,
         place   |-> place]

Faces(events) ==
    LET at[n \in 0 .. Len(events)] ==
            IF n = 0 THEN [striker |-> Batters[1], other |-> Batters[2], place |-> Start]
            ELSE Face(at[n - 1], events[n])
    IN  at

Facing(events) == Faces(events)[Len(events)]

EndsAgree ==
    LET at == Facing(data)
    IN  pick.striker = at.striker /\ pick.other = at.other

\* The screen selects the batters by the last delivery and its label only; that
\* is the strike of the whole innings through recording, syncing, fetching,
\* undoing and the end of an over ("Normal strike changes update automatically
\* after every ball").
StrikeFollowsTheInnings ==
    loaded /\ (\A f \in {"calls", "corrections", "choices", "reloads"} : history[f] = 0)
        => EndsAgree

\* ... and when the umpire ends the over after a dead ball.
StrikeFollowsTheCall ==
    loaded /\ (\A f \in {"corrections", "choices", "reloads"} : history[f] = 0)
        => EndsAgree

\* "Saved with the final legal ball of the over when you start the new over."
\* ($matchId.tsx:7107)
OverNoteSaved ==
    [][dialog.note /\ dialog.open /\ dialog' = Closed /\ ledger' # <<>> /\ UNCHANGED history
        => \E i \in DOMAIN ledger' : ledger'[i].note]_vars

\* "Choose the new bowler before recording the next ball": the bowler chosen
\* for the new over stays selected until the scorer does something else.
ChosenBowlerStays ==
    [][pick'.bowler # pick.bowler /\ data # <<>> /\ loaded => \/ dialog.open
                                               \/ history' # history]_vars
=============================================================================
