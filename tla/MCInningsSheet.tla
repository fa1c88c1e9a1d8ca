--------------------------- MODULE MCInningsSheet ---------------------------
(* InningsSheet with three players a side and overs of two deliveries.      *)
EXTENDS InningsSheet

Threes == << <<"a", "b", "c">>, <<"x", "y", "z">> >>

\* Deliveries of every kind the screen records; byes are those off no-balls.
Some ==
    {d \in Hits : d.bat = 4}
    \cup {d \in Extras : d.type = "penalty" \/ d.bat = 4}
    \cup {Off(c, 1, 1) : c \in {"wide", "leg_bye", "no_ball_bye"}}
    \cup {Off("none", 4, 5), [Off("none", 1, 1) EXCEPT !.wicket = "run_out"]}
    \cup {d \in Dismissals : \/ d.wicket \in {"retired_hurt", "non_striker_left_early"}
                             \/ d.wicket = "stumped" /\ d.type = "wide"}
=============================================================================
