-------------------------- MODULE MCScoringOutbox --------------------------
(* ScoringOutbox on one or two screens.                                     *)
EXTENDS ScoringOutbox, TLC

CONSTANTS d1, d2   \* the screens of a run, d1 # d2

\* Every screen in a browser of its own, or all of them in one.
OwnBrowsers == [d \in Devices |-> d]
OneBrowser == [d \in Devices |-> d1]

MCSymmetry == Permutations(BallIds)
=============================================================================
