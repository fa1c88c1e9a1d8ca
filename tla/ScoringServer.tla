--------------------------- MODULE ScoringServer ---------------------------
(***************************************************************************)
(* What the server promises a scoring screen, without users, locks, time   *)
(* or scorecards: a ledger of deliveries that only the holder of the one   *)
(* open lease changes, one version at a time.  LiveScoring implements this *)
(* module (LiveScoring!Server) and ScoringOutbox puts screens and a        *)
(* network around it.                                                      *)
(***************************************************************************)
EXTENDS Naturals, Sequences, SequencesExt

CONSTANTS
    Devices,   \* scoring screens
    BallIds,   \* client_event_id values
    Players    \* players a delivery can credit

VARIABLES
    version,   \* matches.scoring_version
    ledger,    \* the deliveries, in order
    lease,     \* the token of the open lease, or NoToken
    leases     \* the screen each token was issued to; the index is the token

serverVars == <<version, ledger, lease, leases>>

NoToken == 0

Ball == [id : BallIds, player : Players]

\* The client_event_ids of a sequence of deliveries.
Ids(balls) == {balls[i].id : i \in DOMAIN balls}

ServerInit ==
    /\ version = 0
    /\ ledger = <<>>
    /\ lease = NoToken
    /\ leases = <<>>

\* A new token, never one that was issued before; any open lease is ended.
OpenLease(d) ==
    /\ leases' = Append(leases, d)
    /\ lease' = Len(leases')
    /\ UNCHANGED <<version, ledger>>

\* Released, or lapsed.
CloseLease ==
    /\ lease # NoToken
    /\ lease' = NoToken
    /\ UNCHANGED <<version, ledger, leases>>

AddBall(id, p) ==
    /\ id \notin Ids(ledger)
    /\ ledger' = Append(ledger, [id |-> id, player |-> p])

CorrectBall(i, p) == ledger' = [ledger EXCEPT ![i].player = p]

RemoveBall(i) == ledger' = RemoveAt(ledger, i)

\* A scoring write: one version, at most one delivery, or the whole ledger
\* of a test match; finalising also ends the lease.
Write ==
    /\ lease # NoToken
    /\ version' = version + 1
    /\ \/ ledger' = ledger
       \/ \E id \in BallIds, p \in Players : AddBall(id, p)
       \/ \E i \in DOMAIN ledger, p \in Players : CorrectBall(i, p)
       \/ \E i \in DOMAIN ledger : RemoveBall(i)
       \/ ledger' = <<>>
    /\ lease' \in {lease, NoToken}
    /\ UNCHANGED leases

ServerNext == (\E d \in Devices : OpenLease(d)) \/ CloseLease \/ Write

ServerSpec == ServerInit /\ [][ServerNext]_serverVars
=============================================================================
