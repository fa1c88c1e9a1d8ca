--------------------------- MODULE MCLiveScoring ---------------------------
(* LiveScoring on small sets.  Users of one role, screens, deliveries and   *)
(* players of one kind are interchangeable and these runs check no liveness *)
(* property, so permuting them is sound.                                    *)
EXTENDS LiveScoring, TLC

MCSymmetry ==
    Permutations(Players \ ConcussionSubs) \cup Permutations(BallIds)
        \cup Permutations(Scorers) \cup Permutations(Devices)
=============================================================================
