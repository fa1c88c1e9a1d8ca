------------------------- MODULE InningsSheetProofs -------------------------
(***************************************************************************)
(* The figures of an innings, for every squad, keypad, length of an over   *)
(* and number of deliveries: what the server records, what the screen      *)
(* shows and what the website works out for itself are the same runs, the  *)
(* same wickets and the same charges.                                      *)
(***************************************************************************)
EXTENDS InningsSheet, NatLemmas, SequenceTheorems


-----------------------------------------------------------------------------
(* The deliveries of the screen *)

Players == Range(Sides[1]) \cup Range(Sides[2]) \cup {NoPlayer}
Types == {"none", "wide", "no_ball", "no_ball_bye", "no_ball_leg_bye", "bye", "leg_bye", "penalty"}
Wicket == {"none", "bowled", "caught", "caught_and_bowled", "lbw", "run_out", "non_striker_left_early",
           "stumped", "hit_wicket", "retired_hurt", "retired_out", "retired_not_out", "hit_ball_twice",
           "obstructing_field", "timed_out"}

Fields == {"bat", "extras", "type", "legal", "dead", "ran", "boundary", "forBatting", "forFielding",
           "wicket", "over", "ball", "call", "striker", "other", "bowler", "out", "next"}

\* A record with these fields, whatever they hold.
IsRow(x) == x = [field \in Fields |-> x[field]]

Made ==
    [bat : Nat, extras : Nat, type : Types, legal : BOOLEAN, dead : BOOLEAN, ran : Nat,
     boundary : {"none", "four", "six"}, forBatting : Nat, forFielding : Nat, wicket : Wicket,
     over : Nat, ball : Nat, call : {"none", "end", "go"}, striker : Players, other : Players,
     bowler : Players, out : Players, next : Players]

\* What the buttons and dialogs put together: dead balls score nothing but
\* penalties, every extra is of one kind, a no-ball costs one, and no four is
\* recorded without four runs off the bat, nor a six with them.
Body(e) ==
    /\ e.dead => ~e.legal /\ e.bat = 0 /\ e.extras = 0 /\ ~IsNoBall(e) /\ ~CreditsBowler(e)
    /\ IsNoBall(e) => ~e.legal
    /\ e.type \in {"wide", "none", "penalty"} \/ e.extras > 0
    /\ e.type = "wide" => ~e.legal
    /\ e.type \in {"none", "penalty"} => e.extras = 0
    /\ e.type = "no_ball" => e.extras = 1
    /\ e.type \in {"bye", "leg_bye", "no_ball_bye", "no_ball_leg_bye"} => e.bat = 0
    /\ e.type \in {"wide", "penalty"} => e.bat = 0
    /\ e.type = "penalty" => e.dead
    /\ e.forBatting # 0 => e.dead
    /\ e.boundary = "four" => e.bat = 4
    /\ e.bat = 4 => e.boundary \in {"four", "none"}

Event == {e \in Made : Body(e)}

\* A delivery before place, players and call are filled in.
Filled(x, bat, extras, type, legal, dead, ran, boundary, batting, fielding, wicket) ==
    /\ IsRow(x)
    /\ x.bat = bat /\ x.extras = extras /\ x.type = type /\ x.legal = legal /\ x.dead = dead
    /\ x.ran = ran /\ x.boundary = boundary /\ x.forBatting = batting /\ x.forFielding = fielding
    /\ x.wicket = wicket /\ x.over = 0 /\ x.ball = 0 /\ x.call = "none" /\ x.striker = NoPlayer
    /\ x.other = NoPlayer /\ x.bowler = NoPlayer /\ x.out = NoPlayer /\ x.next = NoPlayer

\* What Plain, Dead and Off fill in.
LEMMA PlainFilled == Filled(Plain, 0, 0, "none", TRUE, FALSE, 0, "none", 0, 0, "none")
BY DEF Plain, Filled, IsRow, Fields

\* Dead balls fill in nothing but that they are dead.
LEMMA DeadFilled == Filled(Dead, 0, 0, "none", FALSE, TRUE, 0, "none", 0, 0, "none")
BY PlainFilled DEF Dead, Filled, IsRow, Fields

\* The runs of a delivery go to the batter, to the extras, or to both.
BatOf(credit, n) == IF credit \in {"none", "no_ball"} THEN n ELSE 0
ExtrasOf(credit, n) ==
    CASE credit = "none"               -> 0
      [] credit = "no_ball"            -> 1
      [] credit \in {"bye", "leg_bye"} -> n
      [] OTHER                         -> n + 1

\* What Off fills in.
LEMMA OffFilled ==
    ASSUME NEW credit, NEW n, NEW ran
    PROVE  Filled(Off(credit, n, ran), BatOf(credit, n), ExtrasOf(credit, n), credit,
                  credit \in {"none", "bye", "leg_bye"}, FALSE, ran, "none", 0, 0, "none")
<1> DEFINE legal == credit \in {"none", "bye", "leg_bye"}
           bat == BatOf(credit, n)
           extras == ExtrasOf(credit, n)
<1>1. Off(credit, n, ran)
        = [Plain EXCEPT !.type = credit, !.ran = ran, !.legal = legal, !.bat = bat, !.extras = extras]
  BY DEF Off, BatOf, ExtrasOf
<1> HIDE DEF legal, bat, extras
<1>2. Filled([Plain EXCEPT !.type = credit, !.ran = ran, !.legal = legal, !.bat = bat, !.extras = extras],
             bat, extras, credit, legal, FALSE, ran, "none", 0, 0, "none")
  BY PlainFilled DEF Filled, IsRow, Fields
<1>3. QED
  BY <1>1, <1>2 DEF legal, bat, extras

\* The parts of a delivery that are changed afterwards.
LEMMA ChangedFilled ==
    ASSUME NEW x, NEW bat, NEW extras, NEW type, NEW legal, NEW dead, NEW ran, NEW boundary,
           NEW batting, NEW fielding, NEW wicket,
           Filled(x, bat, extras, type, legal, dead, ran, boundary, batting, fielding, wicket), NEW n
    PROVE  /\ Filled([x EXCEPT !.boundary = n], bat, extras, type, legal, dead, ran, n, batting, fielding, wicket)
           /\ Filled([x EXCEPT !.wicket = n], bat, extras, type, legal, dead, ran, boundary, batting, fielding, n)
           /\ Filled([x EXCEPT !.type = "penalty", !.forBatting = n],
                     bat, extras, "penalty", legal, dead, ran, boundary, n, fielding, wicket)
           /\ Filled([x EXCEPT !.type = "penalty", !.forFielding = n],
                     bat, extras, "penalty", legal, dead, ran, boundary, batting, n, wicket)
BY DEF Filled, IsRow, Fields

\* What is filled in with values of these kinds is a delivery.
LEMMA FilledTyped ==
    ASSUME NEW x, NEW bat \in Nat, NEW extras \in Nat, NEW type \in Types, NEW legal \in BOOLEAN,
           NEW dead \in BOOLEAN, NEW ran \in Nat, NEW boundary \in {"none", "four", "six"},
           NEW batting \in Nat, NEW fielding \in Nat, NEW wicket \in Wicket,
           Filled(x, bat, extras, type, legal, dead, ran, boundary, batting, fielding, wicket)
    PROVE  x \in Made
<1>1. NoPlayer \in Players
  BY DEF Players
<1>2. QED
  BY <1>1 DEF Filled, IsRow, Fields, Made

\* A live delivery off which runs are scored, with a wicket or a boundary.
LEMMA LiveBody ==
    ASSUME NEW credit \in Credits, NEW n \in Nat, credit \in ByeTypes => n > 0, NEW ran \in Nat,
           NEW boundary \in {"none", "four", "six"}, NEW wicket \in Wicket, NEW x,
           boundary # "none" => credit = "none" /\ (boundary = "four" <=> n = 4),
           Filled(x, BatOf(credit, n), ExtrasOf(credit, n), credit, credit \in {"none", "bye", "leg_bye"},
                  FALSE, ran, boundary, 0, 0, wicket)
    PROVE  x \in Event
<1>1. BatOf(credit, n) \in Nat /\ ExtrasOf(credit, n) \in Nat
  BY DEF BatOf, ExtrasOf
<1>2. credit \in Types /\ (credit \in {"none", "bye", "leg_bye"}) \in BOOLEAN
  BY DEF Types, Credits, ByeTypes
<1>3. x \in Made
  <2> DEFINE legal == credit \in {"none", "bye", "leg_bye"}
             bat == BatOf(credit, n)
             extras == ExtrasOf(credit, n)
             dead == FALSE
             penalty == 0
  <2>1. legal \in BOOLEAN /\ bat \in Nat /\ extras \in Nat /\ dead \in BOOLEAN /\ penalty \in Nat
    BY <1>1
  <2>2. Filled(x, bat, extras, credit, legal, dead, ran, boundary, penalty, penalty, wicket)
    OBVIOUS
  <2> HIDE DEF legal, bat, extras, dead, penalty
  <2>3. QED
    BY <1>2, <2>1, <2>2, FilledTyped
<1>4. /\ x.bat = BatOf(credit, n) /\ x.extras = ExtrasOf(credit, n) /\ x.type = credit /\ x.dead = FALSE
      /\ x.legal = (credit \in {"none", "bye", "leg_bye"}) /\ x.boundary = boundary /\ x.forBatting = 0
  BY DEF Filled
<1>5. Body(x)
  <2>1. credit = "none" => x.bat = n /\ x.extras = 0
    BY <1>4 DEF BatOf, ExtrasOf
  <2>2. credit = "no_ball" => x.bat = n /\ x.extras = 1
    BY <1>4 DEF BatOf, ExtrasOf
  <2>3. credit = "wide" => x.bat = 0 /\ x.extras = n + 1
    BY <1>4 DEF BatOf, ExtrasOf
  <2>4. credit \in {"bye", "leg_bye"} => x.bat = 0 /\ x.extras = n
    BY <1>4 DEF BatOf, ExtrasOf
  <2>5. credit \in {"no_ball_bye", "no_ball_leg_bye"} => x.bat = 0 /\ x.extras = n + 1
    BY <1>4 DEF BatOf, ExtrasOf
  <2>6. n + 1 > 0 /\ (credit \in ByeTypes => n > 0)
    OBVIOUS
  <2>7. credit \in {"none", "wide", "no_ball", "bye", "leg_bye", "no_ball_bye", "no_ball_leg_bye"}
    BY DEF Credits, ByeTypes
  <2>8. x.extras > 0 \/ x.type \in {"wide", "none", "penalty"}
    BY <1>4, <2>2, <2>4, <2>5, <2>6, <2>7 DEF ByeTypes
  <2>9. /\ x.boundary = "four" => x.bat = 4
        /\ x.bat = 4 => x.boundary \in {"four", "none"}
    <3>1. CASE boundary = "none"
      BY <1>4, <3>1
    <3>2. CASE boundary # "none"
      BY <1>4, <2>1, <3>2
    <3>3. QED
      BY <3>1, <3>2
  <2>10. x.legal <=> credit \in {"none", "bye", "leg_bye"}
    BY <1>4
  <2>11. ~x.dead /\ x.forBatting = 0 /\ x.type = credit
    BY <1>4
  <2>12. CASE credit \in {"none", "wide", "no_ball"}
    BY <2>1, <2>2, <2>3, <2>8, <2>9, <2>10, <2>11, <2>12 DEF Body, IsNoBall
  <2>13. CASE credit \in {"bye", "leg_bye", "no_ball_bye", "no_ball_leg_bye"}
    BY <2>4, <2>5, <2>8, <2>9, <2>10, <2>11, <2>13 DEF Body, IsNoBall
  <2>14. QED
    BY <2>7, <2>12, <2>13
<1>6. QED
  BY <1>3, <1>5 DEF Event

\* Deliveries off which runs are scored, and those with a wicket.
LEMMA OffBody ==
    ASSUME NEW credit \in Credits, NEW n \in Nat, credit \in ByeTypes => n > 0, NEW ran \in Nat,
           NEW wicket \in Wicket
    PROVE  Off(credit, n, ran) \in Event /\ [Off(credit, n, ran) EXCEPT !.wicket = wicket] \in Event
<1> DEFINE legal == credit \in {"none", "bye", "leg_bye"}
           bat == BatOf(credit, n)
           extras == ExtrasOf(credit, n)
           e == Off(credit, n, ran)
           f == [e EXCEPT !.wicket = wicket]
<1>1. Filled(e, bat, extras, credit, legal, FALSE, ran, "none", 0, 0, "none")
  BY OffFilled
<1>2. Filled(f, bat, extras, credit, legal, FALSE, ran, "none", 0, 0, wicket)
  <2> HIDE DEF legal, bat, extras, e
  <2>1. QED
    BY <1>1, ChangedFilled
<1>3. "none" \in Wicket
  BY DEF Wicket
<1> HIDE DEF e, f
<1>4. e \in Event
  BY <1>1, <1>3, LiveBody
<1>5. f \in Event
  BY <1>2, LiveBody
<1>6. QED
  BY <1>4, <1>5 DEF e, f

\* A delivery that is none: a dead ball, penalty runs, a retirement.
LEMMA DeadBody ==
    ASSUME NEW x, NEW type \in {"none", "penalty"}, NEW batting \in Nat, NEW fielding \in Nat,
           NEW wicket \in Wicket,
           wicket \notin {"bowled", "caught", "caught_and_bowled", "lbw", "stumped", "hit_wicket"},
           Filled(x, 0, 0, type, FALSE, TRUE, 0, "none", batting, fielding, wicket)
    PROVE  x \in Event
<1>1. x \in Made
  <2> DEFINE runs == 0
             legal == FALSE
             dead == TRUE
             boundary == "none"
  <2>1. runs \in Nat /\ legal \in BOOLEAN /\ dead \in BOOLEAN /\ boundary \in {"none", "four", "six"}
    OBVIOUS
  <2>2. Filled(x, runs, runs, type, legal, dead, runs, boundary, batting, fielding, wicket) /\ type \in Types
    BY DEF Types
  <2> HIDE DEF runs, legal, dead, boundary
  <2>3. QED
    BY <2>1, <2>2, FilledTyped
<1>2. Body(x)
  BY DEF Filled, Body, IsNoBall, CreditsBowler
<1>3. QED
  BY <1>1, <1>2 DEF Event

\* Every button and dialog makes such a delivery.
LEMMA Bodies == \A d \in Delivery : d \in Event
<1>1. ASSUME NEW d \in Hits PROVE d \in Event
  <2>1. PICK n \in 0 .. 7 :
           d = [Off("none", n, n) EXCEPT
                   !.boundary = CASE n = 4 -> "four" [] n = 6 -> "six" [] OTHER -> "none"]
    BY DEF Hits
  <2> DEFINE boundary == CASE n = 4 -> "four" [] n = 6 -> "six" [] OTHER -> "none"
             legal == "none" \in {"none", "bye", "leg_bye"}
             bat == BatOf("none", n)
             extras == ExtrasOf("none", n)
             e == Off("none", n, n)
  <2>2. boundary \in {"none", "four", "six"} /\ (boundary # "none" => (boundary = "four" <=> n = 4))
    OBVIOUS
  <2>3. d = [e EXCEPT !.boundary = boundary]
    BY <2>1
  <2>4. Filled(e, bat, extras, "none", legal, FALSE, n, "none", 0, 0, "none")
    BY OffFilled
  <2>5. "none" \in Credits /\ "none" \notin ByeTypes /\ "none" \in Wicket /\ n \in Nat
    BY DEF Credits, ByeTypes, Wicket
  <2> HIDE DEF boundary, legal, bat, extras, e
  <2>6. Filled(d, bat, extras, "none", legal, FALSE, n, boundary, 0, 0, "none")
    BY <2>3, <2>4, ChangedFilled
  <2>7. Filled(d, BatOf("none", n), ExtrasOf("none", n), "none", "none" \in {"none", "bye", "leg_bye"},
               FALSE, n, boundary, 0, 0, "none")
    BY <2>6 DEF legal, bat, extras
  <2>8. QED
    BY <2>2, <2>5, <2>7, LiveBody
<1>2. ASSUME NEW c, NEW most \in Int, NEW n \in RunsScored(c, most)
      PROVE  n \in Nat /\ (c \in ByeTypes => n > 0)
  BY DEF RunsScored
<1>3. "none" \in Wicket /\ "run_out" \in Wicket
  BY DEF Wicket
<1>4. "none" \in Credits /\ "wide" \in Credits /\ "no_ball" \in Credits /\ ByeTypes \subseteq Credits
      /\ "none" \notin ByeTypes /\ "wide" \notin ByeTypes /\ "no_ball" \notin ByeTypes
  BY DEF Credits, ByeTypes
<1>5. Filled(Dead, 0, 0, "none", FALSE, TRUE, 0, "none", 0, 0, "none")
  BY DeadFilled
<1>6. Dead \in Event
  BY <1>3, <1>5, DeadBody
<1>7. [Dead EXCEPT !.type = "penalty", !.forBatting = 5] \in Event
  <2> DEFINE x == [Dead EXCEPT !.type = "penalty", !.forBatting = 5]
  <2>1. Filled(x, 0, 0, "penalty", FALSE, TRUE, 0, "none", 5, 0, "none")
    BY <1>5, ChangedFilled
  <2> HIDE DEF x
  <2>2. x \in Event
    BY <1>3, <2>1, DeadBody
  <2>3. QED
    BY <2>2 DEF x
<1>8. [Dead EXCEPT !.type = "penalty", !.forFielding = 5] \in Event
  <2> DEFINE x == [Dead EXCEPT !.type = "penalty", !.forFielding = 5]
  <2>1. Filled(x, 0, 0, "penalty", FALSE, TRUE, 0, "none", 0, 5, "none")
    BY <1>5, ChangedFilled
  <2> HIDE DEF x
  <2>2. x \in Event
    BY <1>3, <2>1, DeadBody
  <2>3. QED
    BY <2>2 DEF x
<1>9. ASSUME NEW d \in Extras PROVE d \in Event
  <2>1. CASE d \in {Off("no_ball", n, n) : n \in {0, 1, 2, 3, 4, 6}}
    <3>1. PICK n \in {0, 1, 2, 3, 4, 6} : d = Off("no_ball", n, n)
      BY <2>1
    <3>2. n \in Nat
      OBVIOUS
    <3>3. QED
      BY <1>3, <1>4, <3>1, <3>2, OffBody
  <2>2. CASE d \in UNION {{Off(c, n, n) : n \in RunsScored(c, 4)} : c \in {"wide"} \cup ByeTypes}
    <3>1. PICK c \in {"wide"} \cup ByeTypes : d \in {Off(c, n, n) : n \in RunsScored(c, 4)}
      BY <2>2
    <3>2. PICK n \in RunsScored(c, 4) : d = Off(c, n, n)
      BY <3>1
    <3>3. c \in Credits /\ n \in Nat /\ (c \in ByeTypes => n > 0)
      BY <1>2, <1>4
    <3>4. QED
      BY <1>3, <3>2, <3>3, OffBody
  <2>3. CASE d \in {Dead, [Dead EXCEPT !.type = "penalty", !.forBatting = 5],
                   [Dead EXCEPT !.type = "penalty", !.forFielding = 5]}
    <3> DEFINE x == [Dead EXCEPT !.type = "penalty", !.forBatting = 5]
               y == [Dead EXCEPT !.type = "penalty", !.forFielding = 5]
    <3>1. d \in {Dead, x, y} /\ Dead \in Event /\ x \in Event /\ y \in Event
      BY <1>6, <1>7, <1>8, <2>3
    <3> HIDE DEF x, y
    <3>2. QED
      BY <3>1
  <2>4. QED
    <3> DEFINE A == {Off("no_ball", n, n) : n \in {0, 1, 2, 3, 4, 6}}
               B == UNION {{Off(c, n, n) : n \in RunsScored(c, 4)} : c \in {"wide"} \cup ByeTypes}
               C == {Dead, [Dead EXCEPT !.type = "penalty", !.forBatting = 5],
                     [Dead EXCEPT !.type = "penalty", !.forFielding = 5]}
    <3>1. d \in A \cup B \cup C
      BY DEF Extras
    <3>2. (d \in A => d \in Event) /\ (d \in B => d \in Event) /\ (d \in C => d \in Event)
      BY <2>1, <2>2, <2>3
    <3> HIDE DEF A, B, C
    <3>3. QED
      BY <3>1, <3>2
<1>10. ASSUME NEW d \in ShortRuns PROVE d \in Event
  <2>1. PICK c \in Credits, ran \in 1 .. 10 : d \in {Off(c, n, ran) : n \in RunsScored(c, ran - 1)}
    BY DEF ShortRuns
  <2>2. PICK n \in RunsScored(c, ran - 1) : d = Off(c, n, ran)
    BY <2>1
  <2>3. n \in Nat /\ (c \in ByeTypes => n > 0) /\ ran \in Nat
    BY <1>2
  <2>4. QED
    BY <1>3, <2>2, <2>3, OffBody
<1>11. ASSUME NEW d \in RunOuts PROVE d \in Event
  <2>1. PICK c \in Credits : d \in {[Off(c, n, n) EXCEPT !.wicket = "run_out"] : n \in RunsScored(c, 6)}
    BY DEF RunOuts
  <2>2. PICK n \in RunsScored(c, 6) : d = [Off(c, n, n) EXCEPT !.wicket = "run_out"]
    BY <2>1
  <2>3. n \in Nat /\ (c \in ByeTypes => n > 0)
    BY <1>2
  <2>4. QED
    BY <1>3, <2>2, <2>3, OffBody
<1>12. ASSUME NEW d \in Dismissals PROVE d \in Event
  <2>1. ASSUME NEW c \in {"none", "wide", "no_ball"}, NEW w \in Wicket,
               d = [Off(c, 0, 0) EXCEPT !.wicket = w]
        PROVE  d \in Event
    <3>1. c \in Credits /\ c \notin ByeTypes /\ 0 \in Nat
      BY <1>4
    <3>2. QED
      BY <2>1, <3>1, OffBody
  <2>2. ASSUME NEW w \in {"retired_hurt", "retired_out", "retired_not_out", "timed_out",
                          "non_striker_left_early"},
               d = [Dead EXCEPT !.wicket = w]
        PROVE  d \in Event
    <3>1. Filled([Dead EXCEPT !.wicket = w], 0, 0, "none", FALSE, TRUE, 0, "none", 0, 0, w)
      BY <1>5, ChangedFilled
    <3>2. Filled(d, 0, 0, "none", FALSE, TRUE, 0, "none", 0, 0, w) /\ w \in Wicket
      BY <2>2, <3>1 DEF Wicket
    <3>3. QED
      BY <3>2, DeadBody
  <2>3. \/ \E c \in {"none", "wide", "no_ball"} : \E w \in Wicket : d = [Off(c, 0, 0) EXCEPT !.wicket = w]
        \/ \E w \in {"retired_hurt", "retired_out", "retired_not_out", "timed_out", "non_striker_left_early"} :
              d = [Dead EXCEPT !.wicket = w]
    BY DEF Dismissals, Wicket
  <2>4. QED
    BY <2>1, <2>2, <2>3
<1>13. QED
  BY <1>1, <1>9, <1>10, <1>11, <1>12 DEF Delivery

-----------------------------------------------------------------------------
(* The places of an innings *)

PlaceRow == [over : Nat, balls : Nat]

\* Every delivery leaves a place.
LEMMA AfterTyped == \A p \in PlaceRow, e \in Event : After(p, e) \in PlaceRow
<1> SUFFICES ASSUME NEW p \in PlaceRow, NEW e \in Event PROVE After(p, e) \in PlaceRow
  OBVIOUS
<1> DEFINE balls == IF e.legal THEN p.balls + 1 ELSE p.balls
<1>1. balls \in Nat /\ p.over + 1 \in Nat
  BY DEF PlaceRow
<1>2. After(p, e) = IF ClosesOver(e, balls) THEN [over |-> p.over + 1, balls |-> 0]
                    ELSE [p EXCEPT !.balls = balls]
  BY DEF After
<1> HIDE DEF balls
<1>3. QED
  BY <1>1, <1>2 DEF PlaceRow

\* The places of an innings follow each other.
LEMMA PlacesFacts ==
    ASSUME NEW s \in Seq(Event)
    PROVE  /\ Places(s) \in [0 .. Len(s) -> PlaceRow]
           /\ Places(s)[0] = [over |-> 0, balls |-> 0]
           /\ \A n \in 1 .. Len(s) : Places(s)[n] = After(Places(s)[n - 1], s[n])
<1> DEFINE N == Len(s)
           first == [over |-> 0, balls |-> 0]
           Is(g) == g = [n \in 0 .. N |-> IF n = 0 THEN first ELSE After(g[n - 1], s[n])]
           F == CHOOSE g : Is(g)
<1>1. N \in Nat /\ \A n \in 1 .. N : s[n] \in Event
  OBVIOUS
<1>2. Places(s) = F
  BY DEF Places
<1>3. first \in PlaceRow
  BY DEF PlaceRow
<1> HIDE DEF first
<1>4. \E g : Is(g)
  <2> DEFINE step == [p \in (1 .. N) \X PlaceRow |-> After(p[2], s[p[1]])]
  <2>1. step \in [(1 .. N) \X PlaceRow -> PlaceRow]
    BY <1>1, AfterTyped
  <2>2. \A i \in 1 .. N : \A p \in PlaceRow : step[<<i, p>>] = After(p, s[i])
    OBVIOUS
  <2> HIDE DEF step, N
  <2>3. PICK f \in Recursive(N, PlaceRow, first, step) : TRUE
    BY <1>1, <1>3, <2>1, Recursion
  <2>4. f \in [0 .. N -> PlaceRow] /\ f[0] = first /\ \A i \in 1 .. N : f[i] = step[<<i, f[i - 1]>>]
    BY DEF Recursive
  <2>5. \A i \in 1 .. N : i - 1 \in 0 .. N
    BY <1>1
  <2>6. \A i \in 1 .. N : f[i - 1] \in PlaceRow /\ f[i] = step[<<i, f[i - 1]>>]
    BY <2>5, <2>4
  <2>7. \A i \in 1 .. N : f[i] = After(f[i - 1], s[i])
    BY <2>2, <2>6
  <2>8. \A i \in 0 .. N : f[i] = IF i = 0 THEN first ELSE After(f[i - 1], s[i])
    BY <1>1, <2>4, <2>7
  <2>9. f = [i \in 0 .. N |-> f[i]]
    BY <2>4
  <2>10. Is(f)
    BY <2>8, <2>9
  <2>11. QED
    BY <2>10
<1> HIDE DEF Is
<1>5. Is(F)
  BY <1>4
<1> HIDE DEF F
<1>6. F = [n \in 0 .. N |-> IF n = 0 THEN first ELSE After(F[n - 1], s[n])]
  BY <1>5 DEF Is
<1> HIDE DEF N
<1>7. F[0] = first /\ \A n \in 1 .. N : F[n] = After(F[n - 1], s[n])
  BY <1>1, <1>6
<1>8. \A n \in 0 .. N : F[n] \in PlaceRow
  <2> DEFINE T == {n \in 0 .. N : F[n] \in PlaceRow}
  <2>1. 0 \in T
    BY <1>1, <1>3, <1>7
  <2>2. ASSUME NEW n \in 1 .. N, n - 1 \in T
        PROVE  n \in T
    <3>1. F[n] = After(F[n - 1], s[n]) /\ F[n - 1] \in PlaceRow /\ s[n] \in Event /\ n \in 0 .. N
      BY <1>1, <1>7, <2>2
    <3>2. F[n] \in PlaceRow
      BY <3>1, AfterTyped
    <3>3. QED
      BY <3>1, <3>2
  <2> HIDE DEF T
  <2>3. \A n \in 0 .. N : n \in T
    BY <1>1, <2>1, <2>2, UpTo
  <2>4. QED
    BY <2>3 DEF T
<1>9. F \in [0 .. N -> PlaceRow]
  BY <1>6, <1>8
<1>10. QED
  BY <1>2, <1>7, <1>9 DEF N, first

\* The place of the next delivery is one.
LEMMA PositionTyped == ASSUME NEW s \in Seq(Event) PROVE Position(s) \in PlaceRow
<1>1. Len(s) \in 0 .. Len(s)
  OBVIOUS
<1>2. QED
  BY <1>1, PlacesFacts DEF Position

-----------------------------------------------------------------------------
(* Types *)

\* The two squads.
LEMMA Squads ==
    ASSUME NEW i \in 1 .. 2
    PROVE  /\ Range(Sides[i]) \subseteq Players \ {NoPlayer}
           /\ Sides[i][1] \in Range(Sides[i]) /\ Sides[i][2] \in Range(Sides[i])
           /\ Sides[i][1] # Sides[i][2]
<1> DEFINE s == Sides[i]
           R == Range(s) \ {NoPlayer}
<1>1. s \in Seq(R) /\ Len(s) >= 2 /\ IsInjective(s)
  BY SidesAssumption
<1>2. DOMAIN s = 1 .. Len(s) /\ Len(s) \in Nat /\ \A k \in 1 .. Len(s) : s[k] \in R
  <2> HIDE DEF R, s
  <2>1. QED
    BY <1>1
<1>3. 1 \in DOMAIN s /\ 2 \in DOMAIN s
  BY <1>1, <1>2
<1>4. s[1] # s[2]
  BY <1>1, <1>3 DEF IsInjective
<1>5. s[1] \in Range(s) /\ s[2] \in Range(s)
  BY <1>3 DEF Range
<1>6. Range(s) \subseteq R
  BY <1>2 DEF Range
<1>7. Range(s) \subseteq Players
  <2>1. i = 1 \/ i = 2
    OBVIOUS
  <2>2. QED
    BY <2>1 DEF Players
<1>8. QED
  BY <1>4, <1>5, <1>6, <1>7

SheetTypes ==
    /\ events \in [1 .. 2 -> Seq(Event)]
    /\ innings \in {1, 2}
    /\ pick.striker # pick.other
    /\ {pick.striker, pick.other} \subseteq Range(Batting)
    /\ pick.bowler \in Range(Bowling)
    /\ revised \in Targets \cup {0}
    /\ Len(events[1]) + Len(events[2]) <= MaxBalls

\* The batters a delivery leaves at the crease and a bowler of the other side.
Chosen(e) ==
    /\ pick'.striker = SelectionAfter(e).striker /\ pick'.other = SelectionAfter(e).other
    /\ pick'.bowler \in Range(Bowling)

\* What Record does, told from the delivery it appends.
Recorded(e) ==
    /\ Len(events[1]) + Len(events[2]) < MaxBalls
    /\ e \in Event
    /\ e.over = Place.over /\ e.ball = Place.balls + 1
    /\ e.striker = pick.striker /\ e.other = pick.other /\ e.bowler = pick.bowler
    /\ e.wicket = "none" => e.out = NoPlayer
    /\ IF e.wicket # "none" /\ NewBatters(e.out) # {} /\ ~AllOut(e)
       THEN e.next \in NewBatters(e.out) ELSE e.next = NoPlayer
    /\ events' = [events EXCEPT ![innings] = Append(@, e)]
    /\ \/ Chosen(e) /\ innings' = innings
       \/ AllOut(e) /\ innings = 1 /\ innings' = 2 /\ pick' = Openers(2)
       \/ AllOut(e) /\ innings = 2 /\ innings' = innings /\ pick' = pick
    /\ UNCHANGED revised

\* What a recorded delivery does to the state, whichever button made it.
LEMMA RecordedStep ==
    ASSUME SheetTypes, NEW d \in Keypad, NEW call \in Rulings \cup {"none"}, Record(d, call)
    PROVE  \E e : Recorded(e)
<1>1. d \in Event /\ call \in {"none", "end", "go"}
  BY Bodies, KeypadAssumption
<1> DEFINE row(out, next) == [d EXCEPT !.over = Place.over, !.ball = Place.balls + 1,
                                      !.striker = pick.striker, !.other = pick.other, !.bowler = pick.bowler,
                                      !.call = call, !.out = out, !.next = next]
<1>2. PICK out \in Outs(d) : \E next \in Replacements(d, out) :
          /\ events' = [events EXCEPT ![innings] = Append(@, row(out, next))]
          /\ \/ ~(AllOut(d) /\ innings = 1) /\ Select(row(out, next)) /\ UNCHANGED innings
             \/ AllOut(d) /\ innings = 1 /\ innings' = 2 /\ pick' = Openers(2)
             \/ AllOut(d) /\ innings = 2 /\ UNCHANGED <<innings, pick>>
  BY DEF Record
<1>3. PICK next \in Replacements(d, out) :
          /\ events' = [events EXCEPT ![innings] = Append(@, row(out, next))]
          /\ \/ ~(AllOut(d) /\ innings = 1) /\ Select(row(out, next)) /\ UNCHANGED innings
             \/ AllOut(d) /\ innings = 1 /\ innings' = 2 /\ pick' = Openers(2)
             \/ AllOut(d) /\ innings = 2 /\ UNCHANGED <<innings, pick>>
  BY <1>2
<1> DEFINE e == row(out, next)
<1>4. innings \in 1 .. 2 /\ 3 - innings \in 1 .. 2
  BY DEF SheetTypes
<1>5. pick.striker \in Players /\ pick.other \in Players /\ pick.bowler \in Players
  BY <1>4, Squads DEF SheetTypes, Batting, Bowling
<1>6. Place \in PlaceRow
  <2>1. Ours \in Seq(Event)
    BY <1>4 DEF Ours, InningsEvents, SheetTypes
  <2>2. QED
    BY <2>1, PositionTyped DEF Place
<1>7. Range(Batting) \subseteq Players /\ NoPlayer \in Players /\ NewBatters(out) \subseteq Players
  BY <1>4, Squads DEF NewBatters, Batting, Players
<1>8. out \in Players /\ (d.wicket = "none" => out = NoPlayer)
  <2>1. CASE d.wicket = "none"
    BY <1>7, <2>1 DEF Outs
  <2>2. CASE d.wicket = "non_striker_left_early"
    BY <1>5, <2>2 DEF Outs
  <2>3. CASE d.wicket # "none" /\ d.wicket # "non_striker_left_early"
    BY <1>7, <2>3 DEF Outs
  <2>4. QED
    BY <2>1, <2>2, <2>3
<1>9. IF d.wicket # "none" /\ NewBatters(out) # {} /\ ~AllOut(d)
      THEN next \in NewBatters(out) ELSE next = NoPlayer
  BY DEF Replacements
<1>10. next \in Players
  BY <1>7, <1>9
<1>11. Place.over \in Nat /\ Place.balls + 1 \in Nat
  BY <1>6 DEF PlaceRow
<1>12. Len(events[1]) + Len(events[2]) < MaxBalls /\ UNCHANGED revised
  BY DEF Record
<1>13. e \in Made
  BY <1>1, <1>5, <1>8, <1>10, <1>11 DEF Event, Made
<1>14. /\ e.over = Place.over /\ e.ball = Place.balls + 1
       /\ e.striker = pick.striker /\ e.other = pick.other /\ e.bowler = pick.bowler
       /\ e.out = out /\ e.next = next /\ e.wicket = d.wicket
  BY <1>1 DEF Event, Made
<1>15. Body(e)
  <2>1. /\ e.bat = d.bat /\ e.extras = d.extras /\ e.type = d.type /\ e.legal = d.legal
        /\ e.dead = d.dead /\ e.boundary = d.boundary /\ e.forBatting = d.forBatting
        /\ e.wicket = d.wicket
    BY <1>1 DEF Event, Made
  <2> HIDE DEF e
  <2>2. Body(d)
    BY <1>1 DEF Event
  <2>3. QED
    BY <2>1, <2>2 DEF Body, IsNoBall, CreditsBowler
<1>16. events' = [events EXCEPT ![innings] = Append(@, e)]
  BY <1>3
<1>17. \/ Select(e) /\ innings' = innings
       \/ AllOut(d) /\ innings = 1 /\ innings' = 2 /\ pick' = Openers(2)
       \/ AllOut(d) /\ innings = 2 /\ innings' = innings /\ pick' = pick
  BY <1>3
<1> HIDE DEF e, row
<1>18. AllOut(e) <=> AllOut(d)
  BY <1>14 DEF AllOut, CountsAsWicket
<1>19. Select(e) => Chosen(e)
  <2> SUFFICES ASSUME Select(e) PROVE Chosen(e)
    OBVIOUS
  <2>1. PICK b \in IF After(Place, e).over # Place.over THEN Range(Bowling) \ {pick.bowler} ELSE {pick.bowler} :
             pick' = [striker |-> SelectionAfter(e).striker, other |-> SelectionAfter(e).other, bowler |-> b]
    BY DEF Select
  <2>2. b \in Range(Bowling)
    BY DEF SheetTypes
  <2>3. QED
    BY <2>1, <2>2 DEF Chosen
<1>20. e \in Event
  BY <1>13, <1>15 DEF Event
<1>21. IF e.wicket # "none" /\ NewBatters(e.out) # {} /\ ~AllOut(e)
       THEN e.next \in NewBatters(e.out) ELSE e.next = NoPlayer
  BY <1>9, <1>14, <1>18
<1>22. e.wicket = "none" => e.out = NoPlayer
  BY <1>8, <1>14
<1>23. Recorded(e)
  BY <1>12, <1>14, <1>16, <1>17, <1>18, <1>19, <1>20, <1>21, <1>22 DEF Recorded
<1>24. QED
  BY <1>23

\* Two different batters of the side are at the crease after every delivery, and a
\* bowler of the other side is selected.
LEMMA CreaseKept ==
    ASSUME SheetTypes, NEW e, Recorded(e)
    PROVE  /\ pick'.striker # pick'.other
           /\ {pick'.striker, pick'.other} \subseteq Range(Batting')
           /\ pick'.bowler \in Range(Bowling')
           /\ innings' \in {1, 2}
<1> DEFINE a == IF e.out = e.striker /\ e.next # NoPlayer THEN e.next ELSE e.striker
           b == IF e.out = e.other /\ e.next # NoPlayer THEN e.next ELSE e.other
<1>1. CASE Chosen(e) /\ innings' = innings
  <2>1. {pick'.striker, pick'.other} = {a, b} /\ (a # b => pick'.striker # pick'.other)
    BY <1>1 DEF Chosen, SelectionAfter
  <2>2. e.next # NoPlayer => e.next \in Range(Batting) \ {pick.striker, pick.other}
    BY DEF Recorded, NewBatters
  <2>3. e.striker = pick.striker /\ e.other = pick.other
    BY DEF Recorded
  <2>4. a # b /\ {a, b} \subseteq Range(Batting)
    BY <2>2, <2>3 DEF SheetTypes
  <2>5. Batting' = Batting /\ Bowling' = Bowling
    BY <1>1 DEF Batting, Bowling
  <2>6. pick'.bowler \in Range(Bowling)
    BY <1>1 DEF Chosen
  <2> HIDE DEF a, b
  <2>7. QED
    BY <1>1, <2>1, <2>4, <2>5, <2>6 DEF SheetTypes
<1>2. CASE innings' = 2 /\ pick' = Openers(2)
  <2>1. Batting' = Sides[2] /\ Bowling' = Sides[1]
    BY <1>2 DEF Batting, Bowling
  <2>2. /\ Sides[2][1] \in Range(Sides[2]) /\ Sides[2][2] \in Range(Sides[2]) /\ Sides[2][1] # Sides[2][2]
        /\ Sides[1][1] \in Range(Sides[1])
    BY Squads
  <2>3. pick'.striker = Sides[2][1] /\ pick'.other = Sides[2][2] /\ pick'.bowler = Sides[1][1]
    BY <1>2 DEF Openers
  <2>4. QED
    BY <1>2, <2>1, <2>2, <2>3
<1>3. CASE innings' = innings /\ pick' = pick
  <2>1. Batting' = Batting /\ Bowling' = Bowling
    BY <1>3 DEF Batting, Bowling
  <2>2. QED
    BY <1>3, <2>1 DEF SheetTypes
<1>4. QED
  BY <1>1, <1>2, <1>3 DEF Recorded

\* No step leaves the types.
LEMMA TypesStep == ASSUME SheetTypes, [Next]_vars PROVE SheetTypes'
<1>1. ASSUME NEW d \in Keypad, NEW call \in Rulings \cup {"none"}, Record(d, call)
      PROVE  SheetTypes'
  <2>1. PICK e : Recorded(e)
    BY <1>1, RecordedStep
  <2>3. events' \in [1 .. 2 -> Seq(Event)] /\ Len(events'[1]) + Len(events'[2]) = Len(events[1]) + Len(events[2]) + 1
    <3>1. e \in Event /\ events' = [events EXCEPT ![innings] = Append(events[innings], e)]
      BY <2>1 DEF Recorded
    <3>2. innings = 1 \/ innings = 2
      BY DEF SheetTypes
    <3>3. events[1] \in Seq(Event) /\ events[2] \in Seq(Event)
      BY DEF SheetTypes
    <3>4. \A i \in 1 .. 2 : /\ Append(events[i], e) \in Seq(Event)
                           /\ Len(Append(events[i], e)) = Len(events[i]) + 1
                           /\ Len(events[i]) \in Nat
      BY <3>1 DEF SheetTypes
    <3>5. CASE innings = 1
      <4>1. events'[1] = Append(events[1], e) /\ events'[2] = events[2]
        BY <3>1, <3>5 DEF SheetTypes
      <4>2. QED
        BY <3>1, <3>4, <3>5, <4>1 DEF SheetTypes
    <3>6. CASE innings = 2
      <4>1. events'[2] = Append(events[2], e) /\ events'[1] = events[1]
        BY <3>1, <3>6 DEF SheetTypes
      <4>2. QED
        BY <3>1, <3>4, <3>6, <4>1 DEF SheetTypes
    <3>7. QED
      BY <3>2, <3>5, <3>6
  <2>4. Len(events'[1]) + Len(events'[2]) <= MaxBalls
    <3>1. Len(events[1]) + Len(events[2]) < MaxBalls
      BY <2>1 DEF Recorded
    <3>2. Len(events[1]) \in Nat /\ Len(events[2]) \in Nat /\ MaxBalls \in Nat
      BY KeypadAssumption DEF SheetTypes
    <3>3. Len(events'[1]) + Len(events'[2]) = Len(events[1]) + Len(events[2]) + 1
      BY <2>3
    <3> DEFINE p == Len(events[1])
               q == Len(events[2])
               total == Len(events'[1]) + Len(events'[2])
    <3>4. p \in Nat /\ q \in Nat /\ p + q < MaxBalls /\ MaxBalls \in Nat /\ total = p + q + 1
      BY <3>1, <3>2, <3>3
    <3>5. ASSUME NEW x \in Nat, NEW y \in Nat, x + y < MaxBalls, MaxBalls \in Nat
          PROVE  x + y + 1 <= MaxBalls
      BY <3>5
    <3> HIDE DEF p, q, total
    <3>6. total <= MaxBalls
      BY <3>4, <3>5
    <3>7. QED
      BY <3>6 DEF total
  <2>5. /\ pick'.striker # pick'.other /\ {pick'.striker, pick'.other} \subseteq Range(Batting')
        /\ pick'.bowler \in Range(Bowling') /\ innings' \in {1, 2}
    BY <2>1, CreaseKept
  <2>6. QED
    BY <2>1, <2>3, <2>4, <2>5 DEF Recorded, SheetTypes
<1>2. CASE MoveToSecondInnings
  <2>1. innings = 1 /\ innings' = 2 /\ events' = events /\ revised' = revised
        /\ pick'.striker = Sides[2][1] /\ pick'.other = Sides[2][2] /\ pick'.bowler = Sides[1][1]
    BY <1>2 DEF MoveToSecondInnings, Openers
  <2>2. Batting' = Sides[2] /\ Bowling' = Sides[1]
    BY <2>1 DEF Batting, Bowling
  <2>3. /\ Sides[2][1] \in Range(Sides[2]) /\ Sides[2][2] \in Range(Sides[2]) /\ Sides[2][1] # Sides[2][2]
        /\ Sides[1][1] \in Range(Sides[1])
    BY Squads
  <2>4. QED
    BY <2>1, <2>2, <2>3 DEF SheetTypes
<1>3. ASSUME NEW target \in Targets, Revise(target)
      PROVE  SheetTypes'
  BY <1>3 DEF Revise, SheetTypes, Batting, Bowling
<1>4. CASE UNCHANGED vars
  BY <1>4 DEF vars, SheetTypes, Batting, Bowling
<1>5. QED
  BY <1>1, <1>2, <1>3, <1>4 DEF Next

\* The first innings starts with nothing recorded and the openers selected.
LEMMA InitTypes == Init => SheetTypes
<1> SUFFICES ASSUME Init PROVE SheetTypes
  OBVIOUS
<1>1. /\ events = << <<>>, <<>> >> /\ innings = 1 /\ revised = 0
      /\ pick.striker = Sides[1][1] /\ pick.other = Sides[1][2] /\ pick.bowler = Sides[2][1]
  BY DEF Init, Openers
<1>2. events \in [1 .. 2 -> Seq(Event)] /\ Len(events[1]) = 0 /\ Len(events[2]) = 0
  <2>1. events[1] = <<>> /\ events[2] = <<>>
    BY <1>1
  <2>2. DOMAIN events = 1 .. 2 /\ events = [i \in DOMAIN events |-> events[i]]
    BY <1>1
  <2>3. <<>> \in Seq(Event) /\ Len(<<>>) = 0
    OBVIOUS
  <2>4. events \in [1 .. 2 -> Seq(Event)]
    <3> DEFINE S == Seq(Event)
    <3>1. \A i \in 1 .. 2 : i = 1 \/ i = 2
      OBVIOUS
    <3>2. <<>> \in S
      BY <2>3
    <3> HIDE DEF S
    <3>3. \A i \in 1 .. 2 : events[i] \in S
      BY <2>1, <3>1, <3>2
    <3>4. events \in [1 .. 2 -> S]
      BY <2>2, <3>3
    <3>5. QED
      BY <3>4 DEF S
  <2>5. QED
    BY <2>1, <2>3, <2>4
<1>3. Batting = Sides[1] /\ Bowling = Sides[2]
  BY <1>1 DEF Batting, Bowling
<1>4. /\ Sides[1][1] \in Range(Sides[1]) /\ Sides[1][2] \in Range(Sides[1]) /\ Sides[1][1] # Sides[1][2]
      /\ Sides[2][1] \in Range(Sides[2])
  BY Squads
<1>5. 0 <= MaxBalls
  BY KeypadAssumption
<1>6. QED
  BY <1>1, <1>2, <1>3, <1>4, <1>5 DEF SheetTypes

\* Two different batters of the side that bats and a bowler of the other are
\* selected, whatever was recorded (selectionAfterEvent, availableNewBatters).
THEOREM TypeCorrect == Spec => []TypeOK
<1>1. SheetTypes => TypeOK
  BY DEF SheetTypes, TypeOK
<1>2. QED
  BY <1>1, InitTypes, TypesStep, PTL DEF Spec

-----------------------------------------------------------------------------
(* What the programs read in one delivery *)

\* What a delivery is made of.
LEMMA EventFacts ==
    ASSUME NEW e \in Event
    PROVE  /\ Body(e)
           /\ e.bat \in Nat /\ e.extras \in Nat /\ e.forBatting \in Nat /\ e.forFielding \in Nat
           /\ e.ran \in Nat /\ e.over \in Nat /\ e.ball \in Nat
           /\ e.legal \in BOOLEAN /\ e.dead \in BOOLEAN /\ e.type \in Types /\ e.wicket \in Wicket
BY DEF Event, Made

\* The charges of a delivery in numbers: every extra is of one kind, the three
\* programs charge the bowler the same, and what is not charged is byes.
Charges(e, server, screen, site, table, wides, noBalls, byes, legByes, rest) ==
    /\ ServerConceded(e) = server /\ ScreenConceded(e) = screen /\ SiteConceded(e) = site
    /\ TableConceded(e) = table /\ Wides(e) = wides /\ OfficialNoBalls(e) = noBalls
    /\ Byes(e) = byes /\ LegByes(e) = legByes /\ RunOffNoBall(e) = rest

\* The charges of a delivery of each type.
LEMMA Charged ==
    ASSUME NEW e \in Event
    PROVE  /\ e.type \in {"none", "penalty"} => Charges(e, e.bat, e.bat, e.bat, e.bat, 0, 0, 0, 0, 0)
           /\ e.type = "wide" => Charges(e, e.extras, e.extras, e.extras, e.extras, e.extras, 0, 0, 0, 0)
           /\ e.type = "no_ball" => Charges(e, e.bat + 1, e.bat + 1, e.bat + 1, e.bat + 1, 0, 1, 0, 0, 0)
           /\ e.type = "no_ball_bye" =>
                 Charges(e, 1, 1, 1, e.extras, 0, 1, e.extras - 1, 0, e.extras - 1)
           /\ e.type = "no_ball_leg_bye" =>
                 Charges(e, 1, 1, 1, e.extras, 0, 1, 0, e.extras - 1, e.extras - 1)
           /\ e.type = "bye" => Charges(e, 0, 0, 0, 0, 0, 0, e.extras, 0, 0)
           /\ e.type = "leg_bye" => Charges(e, 0, 0, 0, 0, 0, 0, 0, e.extras, 0)
<1>1. /\ e.bat \in Nat /\ e.extras \in Nat /\ Body(e)
  BY EventFacts
<1>2. ASSUME e.type = "none"
      PROVE  Charges(e, e.bat, e.bat, e.bat, e.bat, 0, 0, 0, 0, 0)
  <2>1. {e.dead} \subseteq BOOLEAN /\ IsNoBall(e) = FALSE
    BY <1>2, EventFacts DEF IsNoBall
  <2>2. e.extras = 0 /\ (e.dead => e.bat = 0)
    BY <1>1, <1>2, <2>1 DEF Body
  <2>3. ServerConceded(e) = e.bat /\ ScreenConceded(e) = e.bat
    BY <1>1, <1>2, <2>2 DEF ServerConceded, ScreenConceded
  <2>4. SiteConceded(e) = e.bat /\ TableConceded(e) = e.bat
    BY <1>1, <1>2, <2>2 DEF SiteConceded, TableConceded
  <2>5. /\ Wides(e) = 0 /\ OfficialNoBalls(e) = 0
        /\ Byes(e) = 0 /\ LegByes(e) = 0
    BY <1>1, <1>2, <2>1, <2>2 DEF Wides, OfficialNoBalls, Byes, LegByes, NoBallRest
  <2>6. RunOffNoBall(e) = 0
    BY <1>1, <2>1, <2>2, <2>5 DEF RunOffNoBall
  <2>7. QED
    BY <2>3, <2>4, <2>5, <2>6 DEF Charges
<1>3. ASSUME e.type = "penalty"
      PROVE  Charges(e, e.bat, e.bat, e.bat, e.bat, 0, 0, 0, 0, 0)
  <2>1. {e.dead} \subseteq BOOLEAN /\ IsNoBall(e) = FALSE
    BY <1>3, EventFacts DEF IsNoBall
  <2>2. e.extras = 0 /\ e.bat = 0
    BY <1>1, <1>3, <2>1 DEF Body
  <2>3. ServerConceded(e) = e.bat /\ ScreenConceded(e) = e.bat
    BY <1>1, <1>3, <2>2 DEF ServerConceded, ScreenConceded
  <2>4. SiteConceded(e) = e.bat /\ TableConceded(e) = e.bat
    BY <1>1, <1>3, <2>2 DEF SiteConceded, TableConceded
  <2>5. /\ Wides(e) = 0 /\ OfficialNoBalls(e) = 0
        /\ Byes(e) = 0 /\ LegByes(e) = 0
    BY <1>1, <1>3, <2>1, <2>2 DEF Wides, OfficialNoBalls, Byes, LegByes, NoBallRest
  <2>6. RunOffNoBall(e) = 0
    BY <1>1, <2>1, <2>2, <2>5 DEF RunOffNoBall
  <2>7. QED
    BY <2>3, <2>4, <2>5, <2>6 DEF Charges
<1>4. ASSUME e.type = "wide"
      PROVE  Charges(e, e.extras, e.extras, e.extras, e.extras, e.extras, 0, 0, 0, 0)
  <2>1. {e.dead} \subseteq BOOLEAN /\ IsNoBall(e) = FALSE
    BY <1>4, EventFacts DEF IsNoBall
  <2>2. e.bat = 0 /\ (e.dead => e.extras = 0)
    BY <1>1, <1>4, <2>1 DEF Body
  <2>3. ServerConceded(e) = e.extras /\ ScreenConceded(e) = e.extras
    BY <1>1, <1>4, <2>2 DEF ServerConceded, ScreenConceded
  <2>4. SiteConceded(e) = e.extras /\ TableConceded(e) = e.extras
    BY <1>1, <1>4, <2>2 DEF SiteConceded, TableConceded
  <2>5. /\ Wides(e) = e.extras /\ OfficialNoBalls(e) = 0
        /\ Byes(e) = 0 /\ LegByes(e) = 0
    BY <1>1, <1>4, <2>1, <2>2 DEF Wides, OfficialNoBalls, Byes, LegByes, NoBallRest
  <2>6. RunOffNoBall(e) = 0
    BY <1>1, <2>1, <2>2, <2>5 DEF RunOffNoBall
  <2>7. QED
    BY <2>3, <2>4, <2>5, <2>6 DEF Charges
<1>5. ASSUME e.type = "no_ball"
      PROVE  Charges(e, e.bat + 1, e.bat + 1, e.bat + 1, e.bat + 1, 0, 1, 0, 0, 0)
  <2>1. {e.dead} \subseteq BOOLEAN /\ IsNoBall(e) = TRUE
    BY <1>5, EventFacts DEF IsNoBall
  <2>2. e.extras = 1 /\ ~e.dead
    BY <1>1, <1>5, <2>1 DEF Body
  <2>3. ServerConceded(e) = e.bat + 1 /\ ScreenConceded(e) = e.bat + 1
    BY <1>1, <1>5, <2>2 DEF ServerConceded, ScreenConceded
  <2>4. SiteConceded(e) = e.bat + 1 /\ TableConceded(e) = e.bat + 1
    BY <1>1, <1>5, <2>2 DEF SiteConceded, TableConceded
  <2>5. /\ Wides(e) = 0 /\ OfficialNoBalls(e) = 1
        /\ Byes(e) = 0 /\ LegByes(e) = 0
    BY <1>1, <1>5, <2>1, <2>2 DEF Wides, OfficialNoBalls, Byes, LegByes, NoBallRest
  <2>6. RunOffNoBall(e) = 0
    BY <1>1, <2>1, <2>2, <2>5 DEF RunOffNoBall
  <2>7. QED
    BY <2>3, <2>4, <2>5, <2>6 DEF Charges
<1>6. ASSUME e.type = "no_ball_bye"
      PROVE  Charges(e, 1, 1, 1, e.extras, 0, 1, e.extras - 1, 0, e.extras - 1)
  <2>1. {e.dead} \subseteq BOOLEAN /\ IsNoBall(e) = TRUE
    BY <1>6, EventFacts DEF IsNoBall
  <2>2. e.bat = 0 /\ ~e.dead /\ e.extras > 0
    BY <1>1, <1>6, <2>1 DEF Body
  <2>3. ServerConceded(e) = 1 /\ ScreenConceded(e) = 1
    BY <1>1, <1>6, <2>2 DEF ServerConceded, ScreenConceded
  <2>4. SiteConceded(e) = 1 /\ TableConceded(e) = e.extras
    BY <1>1, <1>6, <2>2 DEF SiteConceded, TableConceded
  <2>5. /\ Wides(e) = 0 /\ OfficialNoBalls(e) = 1
        /\ Byes(e) = e.extras - 1 /\ LegByes(e) = 0
    BY <1>1, <1>6, <2>1, <2>2 DEF Wides, OfficialNoBalls, Byes, LegByes, NoBallRest
  <2>6. RunOffNoBall(e) = e.extras - 1
    BY <1>1, <2>1, <2>2, <2>5 DEF RunOffNoBall
  <2>7. QED
    BY <2>3, <2>4, <2>5, <2>6 DEF Charges
<1>7. ASSUME e.type = "no_ball_leg_bye"
      PROVE  Charges(e, 1, 1, 1, e.extras, 0, 1, 0, e.extras - 1, e.extras - 1)
  <2>1. {e.dead} \subseteq BOOLEAN /\ IsNoBall(e) = TRUE
    BY <1>7, EventFacts DEF IsNoBall
  <2>2. e.bat = 0 /\ ~e.dead /\ e.extras > 0
    BY <1>1, <1>7, <2>1 DEF Body
  <2>3. ServerConceded(e) = 1 /\ ScreenConceded(e) = 1
    BY <1>1, <1>7, <2>2 DEF ServerConceded, ScreenConceded
  <2>4. SiteConceded(e) = 1 /\ TableConceded(e) = e.extras
    BY <1>1, <1>7, <2>2 DEF SiteConceded, TableConceded
  <2>5. /\ Wides(e) = 0 /\ OfficialNoBalls(e) = 1
        /\ Byes(e) = 0 /\ LegByes(e) = e.extras - 1
    BY <1>1, <1>7, <2>1, <2>2 DEF Wides, OfficialNoBalls, Byes, LegByes, NoBallRest
  <2>6. RunOffNoBall(e) = e.extras - 1
    BY <1>1, <2>1, <2>2, <2>5 DEF RunOffNoBall
  <2>7. QED
    BY <2>3, <2>4, <2>5, <2>6 DEF Charges
<1>8. ASSUME e.type = "bye"
      PROVE  Charges(e, 0, 0, 0, 0, 0, 0, e.extras, 0, 0)
  <2>1. {e.dead} \subseteq BOOLEAN /\ IsNoBall(e) = FALSE
    BY <1>8, EventFacts DEF IsNoBall
  <2>2. e.bat = 0
    BY <1>1, <1>8, <2>1 DEF Body
  <2>3. ServerConceded(e) = 0 /\ ScreenConceded(e) = 0
    BY <1>1, <1>8, <2>2 DEF ServerConceded, ScreenConceded
  <2>4. SiteConceded(e) = 0 /\ TableConceded(e) = 0
    BY <1>1, <1>8, <2>2 DEF SiteConceded, TableConceded
  <2>5. /\ Wides(e) = 0 /\ OfficialNoBalls(e) = 0
        /\ Byes(e) = e.extras /\ LegByes(e) = 0
    BY <1>1, <1>8, <2>1, <2>2 DEF Wides, OfficialNoBalls, Byes, LegByes, NoBallRest
  <2>6. RunOffNoBall(e) = 0
    BY <1>1, <2>1, <2>2, <2>5 DEF RunOffNoBall
  <2>7. QED
    BY <2>3, <2>4, <2>5, <2>6 DEF Charges
<1>9. ASSUME e.type = "leg_bye"
      PROVE  Charges(e, 0, 0, 0, 0, 0, 0, 0, e.extras, 0)
  <2>1. {e.dead} \subseteq BOOLEAN /\ IsNoBall(e) = FALSE
    BY <1>9, EventFacts DEF IsNoBall
  <2>2. e.bat = 0
    BY <1>1, <1>9, <2>1 DEF Body
  <2>3. ServerConceded(e) = 0 /\ ScreenConceded(e) = 0
    BY <1>1, <1>9, <2>2 DEF ServerConceded, ScreenConceded
  <2>4. SiteConceded(e) = 0 /\ TableConceded(e) = 0
    BY <1>1, <1>9, <2>2 DEF SiteConceded, TableConceded
  <2>5. /\ Wides(e) = 0 /\ OfficialNoBalls(e) = 0
        /\ Byes(e) = 0 /\ LegByes(e) = e.extras
    BY <1>1, <1>9, <2>1, <2>2 DEF Wides, OfficialNoBalls, Byes, LegByes, NoBallRest
  <2>6. RunOffNoBall(e) = 0
    BY <1>1, <2>1, <2>2, <2>5 DEF RunOffNoBall
  <2>7. QED
    BY <2>3, <2>4, <2>5, <2>6 DEF Charges
<1>10. QED
  BY <1>2, <1>3, <1>4, <1>5, <1>6, <1>7, <1>8, <1>9

\* The runs of a delivery are what the bowler is charged, the byes and the
\* penalty runs, and the over table charges the runs run off a no-ball as well.
LEMMA Readings ==
    ASSUME NEW e \in Event
    PROVE  /\ EventRuns(e) = e.bat + e.extras + e.forBatting /\ EventRuns(e) \in Nat
           /\ e.extras = Wides(e) + OfficialNoBalls(e) + Byes(e) + LegByes(e)
           /\ {Wides(e), OfficialNoBalls(e), Byes(e), LegByes(e), RunOffNoBall(e)} \subseteq Nat
           /\ OfficialNoBalls(e) = IF IsNoBall(e) THEN 1 ELSE 0
           /\ ServerConceded(e) \in Nat
           /\ ScreenConceded(e) = ServerConceded(e) /\ SiteConceded(e) = ServerConceded(e)
           /\ TableConceded(e) = ServerConceded(e) + RunOffNoBall(e)
           /\ EventRuns(e) = ServerConceded(e) + Byes(e) + LegByes(e) + e.forBatting
           /\ e.dead => ServerConceded(e) = 0
<1>1. /\ e.bat \in Nat /\ e.extras \in Nat /\ e.forBatting \in Nat /\ Body(e) /\ e.type \in Types
      /\ e.dead \in BOOLEAN
  BY EventFacts
<1>2. EventRuns(e) = e.bat + e.extras + e.forBatting
  BY DEF EventRuns
<1>3. CASE e.type = "none"
  <2>1. IsNoBall(e) = FALSE
    BY <1>3 DEF IsNoBall
  <2>2. e.extras = 0 /\ (e.dead => e.bat = 0)
    BY <1>1, <1>3, <2>1 DEF Body
  <2>3. Charges(e, e.bat, e.bat, e.bat, e.bat, 0, 0, 0, 0, 0)
    BY <1>3, Charged
  <2>4. QED
    BY <1>1, <1>2, <2>1, <2>2, <2>3 DEF Charges
<1>4. CASE e.type = "penalty"
  <2>1. IsNoBall(e) = FALSE
    BY <1>4 DEF IsNoBall
  <2>2. e.extras = 0 /\ e.bat = 0
    BY <1>1, <1>4, <2>1 DEF Body
  <2>3. Charges(e, e.bat, e.bat, e.bat, e.bat, 0, 0, 0, 0, 0)
    BY <1>4, Charged
  <2>4. QED
    BY <1>1, <1>2, <2>1, <2>2, <2>3 DEF Charges
<1>5. CASE e.type = "wide"
  <2>1. IsNoBall(e) = FALSE
    BY <1>5 DEF IsNoBall
  <2>2. e.bat = 0 /\ (e.dead => e.extras = 0)
    BY <1>1, <1>5, <2>1 DEF Body
  <2>3. Charges(e, e.extras, e.extras, e.extras, e.extras, e.extras, 0, 0, 0, 0)
    BY <1>5, Charged
  <2>4. QED
    BY <1>1, <1>2, <2>1, <2>2, <2>3 DEF Charges
<1>6. CASE e.type = "no_ball"
  <2>1. IsNoBall(e) = TRUE
    BY <1>6 DEF IsNoBall
  <2>2. e.extras = 1 /\ ~e.dead
    BY <1>1, <1>6, <2>1 DEF Body
  <2>3. Charges(e, e.bat + 1, e.bat + 1, e.bat + 1, e.bat + 1, 0, 1, 0, 0, 0)
    BY <1>6, Charged
  <2>4. QED
    BY <1>1, <1>2, <2>1, <2>2, <2>3 DEF Charges
<1>7. CASE e.type = "no_ball_bye"
  <2>1. IsNoBall(e) = TRUE
    BY <1>7 DEF IsNoBall
  <2>2. e.bat = 0 /\ ~e.dead /\ e.extras > 0
    BY <1>1, <1>7, <2>1 DEF Body
  <2>3. Charges(e, 1, 1, 1, e.extras, 0, 1, e.extras - 1, 0, e.extras - 1)
    BY <1>7, Charged
  <2>4. QED
    BY <1>1, <1>2, <2>1, <2>2, <2>3 DEF Charges
<1>8. CASE e.type = "no_ball_leg_bye"
  <2>1. IsNoBall(e) = TRUE
    BY <1>8 DEF IsNoBall
  <2>2. e.bat = 0 /\ ~e.dead /\ e.extras > 0
    BY <1>1, <1>8, <2>1 DEF Body
  <2>3. Charges(e, 1, 1, 1, e.extras, 0, 1, 0, e.extras - 1, e.extras - 1)
    BY <1>8, Charged
  <2>4. QED
    BY <1>1, <1>2, <2>1, <2>2, <2>3 DEF Charges
<1>9. CASE e.type = "bye"
  <2>1. IsNoBall(e) = FALSE
    BY <1>9 DEF IsNoBall
  <2>2. e.bat = 0
    BY <1>1, <1>9, <2>1 DEF Body
  <2>3. Charges(e, 0, 0, 0, 0, 0, 0, e.extras, 0, 0)
    BY <1>9, Charged
  <2>4. QED
    BY <1>1, <1>2, <2>1, <2>2, <2>3 DEF Charges
<1>10. CASE e.type = "leg_bye"
  <2>1. IsNoBall(e) = FALSE
    BY <1>10 DEF IsNoBall
  <2>2. e.bat = 0
    BY <1>1, <1>10, <2>1 DEF Body
  <2>3. Charges(e, 0, 0, 0, 0, 0, 0, 0, e.extras, 0)
    BY <1>10, Charged
  <2>4. QED
    BY <1>1, <1>2, <2>1, <2>2, <2>3 DEF Charges
<1>11. QED
  BY <1>1, <1>3, <1>4, <1>5, <1>6, <1>7, <1>8, <1>9, <1>10 DEF Types

\* A wicket counts for all or for none, and so does a legal delivery.
LEMMA Counted ==
    ASSUME NEW e \in Event
    PROVE  /\ SiteWicketCounts(e) = CountsAsWicket(e)
           /\ Counts(e) = e.legal /\ e.legal \in BOOLEAN
           /\ e.dead \in BOOLEAN /\ (e.dead => e.bat = 0 /\ ~IsNoBall(e) /\ ~CreditsBowler(e) /\ ~e.legal)
           /\ (IsNoBall(e) => ~e.legal)
<1>1. e.legal \in BOOLEAN /\ e.dead \in BOOLEAN /\ Body(e) /\ e.wicket \in Wicket
  BY EventFacts
<1>2. SiteWicketCounts(e) = CountsAsWicket(e)
  BY <1>1 DEF SiteWicketCounts, CountsAsWicket, Wicket
<1>3. QED
  BY <1>1, <1>2 DEF Body, Counts

-----------------------------------------------------------------------------
(* Sums over the deliveries of an innings *)

\* The deliveries of an innings are finitely many.
LEMMA RowsFacts ==
    ASSUME NEW rows \in Seq(Event)
    PROVE  /\ IsFiniteSet(DOMAIN rows) /\ DOMAIN rows = 1 .. Len(rows) /\ Len(rows) \in Nat
           /\ \A i \in DOMAIN rows : rows[i] \in Event
           /\ \A at \in SUBSET DOMAIN rows : IsFiniteSet(at)
<1>1. DOMAIN rows = 1 .. Len(rows) /\ Len(rows) \in Nat /\ \A i \in DOMAIN rows : rows[i] \in Event
  OBVIOUS
<1>2. IsFiniteSet(1 .. Len(rows))
  BY <1>1, FS_Interval
<1>3. IsFiniteSet(DOMAIN rows)
  BY <1>1, <1>2
<1>4. QED
  BY <1>1, <1>3, FS_Subset

\* Two kinds of deliveries that are never the same are counted one by one.
LEMMA CountedApart ==
    ASSUME NEW s, IsFiniteSet(s), NEW t \in SUBSET s, NEW u \in SUBSET s, t \cap u = {}, s = t \cup u
    PROVE  Cardinality(s) = Cardinality(t) + Cardinality(u) /\ Cardinality(t) \in Nat /\ Cardinality(u) \in Nat
<1>1. IsFiniteSet(t) /\ IsFiniteSet(u)
  BY FS_Subset
<1>2. Cardinality(t \cup u) = Cardinality(t) + Cardinality(u) - Cardinality(t \cap u)
  BY <1>1, FS_Union
<1>3. Cardinality(t \cap u) = 0 /\ Cardinality(t) \in Nat /\ Cardinality(u) \in Nat
  BY <1>1, FS_EmptySet, FS_CardinalityType
<1>4. QED
  BY <1>2, <1>3

\* What is nothing on a dead ball has the same sum without the dead balls.
LEMMA SumOfLive ==
    ASSUME NEW rows \in Seq(Event), NEW own \in SUBSET DOMAIN rows,
           NEW v, \A i \in own : v[i] \in Int /\ (rows[i].dead => v[i] = 0)
    PROVE  SumFunctionOnSet(v, {i \in own : ~rows[i].dead}) = SumFunctionOnSet(v, own)
<1> DEFINE live == {i \in own : ~rows[i].dead}
           dead == {i \in own : rows[i].dead}
<1>1. IsFiniteSet(own)
  BY RowsFacts
<1>2. IsFiniteSet(live) /\ IsFiniteSet(dead) /\ live \cap dead = {} /\ own = live \cup dead
  BY <1>1, FS_Subset
<1>3. \A i \in dead : v[i] = 0
  OBVIOUS
<1>4. \A i \in live \cup dead : v[i] \in Int
  OBVIOUS
<1> HIDE DEF live, dead
<1>5. SumFunctionOnSet(v, live \cup dead) = SumFunctionOnSet(v, live) + SumFunctionOnSet(v, dead)
  BY <1>2, <1>4, SumUnion
<1>6. SumFunctionOnSet(v, dead) = 0
  BY <1>2, <1>3, SumZero
<1>7. SumFunctionOnSet(v, live) \in Int
  BY <1>2, <1>4, SumInt
<1>8. SumFunctionOnSet(v, live) = SumFunctionOnSet(v, own)
  BY <1>2, <1>5, <1>6, <1>7
<1>9. QED
  BY <1>8 DEF live

\* The four readings of one batter.
LEMMA BatterRead ==
    ASSUME NEW rows \in Seq(Event), NEW p
    PROVE  LET own == Facing(rows, p)
               off == OfficialBatter(rows, p)
           IN  /\ off.runs = SumFunctionOnSet([i \in DOMAIN rows |-> rows[i].bat], own)
               /\ TableBatter(rows, p).runs = off.runs /\ SiteBatter(rows, p).runs = off.runs
               /\ TableBatter(rows, p).balls = off.balls
               /\ SiteBatter(rows, p).balls = off.balls - Number(rows, own, IsNoBall)
               /\ TableBatter(rows, p).fours = SiteBatter(rows, p).fours
               /\ TableBatter(rows, p).fours
                    = off.fours + Number(rows, own, LAMBDA e : e.bat = 4 /\ e.boundary = "none")
<1> DEFINE own == Facing(rows, p)
           live == {i \in own : ~rows[i].dead}
           v == [i \in DOMAIN rows |-> rows[i].bat]
<1>1. own \in SUBSET DOMAIN rows
  BY DEF Facing
<1>2. \A i \in own : rows[i] \in Event /\ v[i] = rows[i].bat
  BY <1>1, RowsFacts
<1>3. \A i \in own : v[i] \in Int /\ (rows[i].dead => v[i] = 0)
  <2>1. ASSUME NEW i \in own
        PROVE  v[i] \in Int /\ (rows[i].dead => v[i] = 0)
    <3>1. rows[i] \in Event /\ v[i] = rows[i].bat
      BY <1>2
    <3>2. rows[i].bat \in Nat /\ (rows[i].dead => rows[i].bat = 0)
      BY <3>1, EventFacts, Counted
    <3>3. QED
      BY <3>1, <3>2
  <2>2. QED
    BY <2>1
<1>4. /\ OfficialBatter(rows, p).runs = SumFunctionOnSet(v, live)
      /\ TableBatter(rows, p).runs = SumFunctionOnSet(v, own)
      /\ SiteBatter(rows, p).runs = SumFunctionOnSet(v, own)
  BY DEF OfficialBatter, TableBatter, SiteBatter, Total
<1>5. /\ OfficialBatter(rows, p).balls = Cardinality({i \in live : BallFaced(rows[i])})
      /\ TableBatter(rows, p).balls = Cardinality({i \in own : BallFaced(rows[i])})
      /\ SiteBatter(rows, p).balls = Cardinality({i \in own : SiteBallFaced(rows[i])})
      /\ Number(rows, own, IsNoBall) = Cardinality({i \in own : IsNoBall(rows[i])})
  BY DEF OfficialBatter, TableBatter, SiteBatter, Number
<1>6. /\ OfficialBatter(rows, p).fours = Cardinality({i \in live : rows[i].boundary = "four" /\ rows[i].bat = 4})
      /\ TableBatter(rows, p).fours = Cardinality({i \in own : rows[i].boundary = "four" \/ rows[i].bat = 4})
      /\ SiteBatter(rows, p).fours = Cardinality({i \in own : rows[i].bat = 4})
      /\ Number(rows, own, LAMBDA e : e.bat = 4 /\ e.boundary = "none")
           = Cardinality({i \in own : rows[i].bat = 4 /\ rows[i].boundary = "none"})
  BY DEF OfficialBatter, TableBatter, SiteBatter, Number
<1>7. IsFiniteSet(own)
  BY <1>1, RowsFacts
<1> HIDE DEF v
<1>8. SumFunctionOnSet(v, live) = SumFunctionOnSet(v, own)
  <2> HIDE DEF own
  <2>1. QED
    BY <1>1, <1>3, SumOfLive
<1> DEFINE faced == {i \in own : BallFaced(rows[i])}
           legal == {i \in own : SiteBallFaced(rows[i])}
           noBalls == {i \in own : IsNoBall(rows[i])}
<1>9. {i \in live : BallFaced(rows[i])} = faced
  BY DEF BallFaced
<1>10. Cardinality(faced) = Cardinality(legal) + Cardinality(noBalls) /\ Cardinality(noBalls) \in Nat
       /\ Cardinality(legal) \in Nat
  <2>1. \A i \in own : /\ (SiteBallFaced(rows[i]) => BallFaced(rows[i]) /\ ~IsNoBall(rows[i]))
                      /\ (IsNoBall(rows[i]) => BallFaced(rows[i]))
                      /\ (BallFaced(rows[i]) => SiteBallFaced(rows[i]) \/ IsNoBall(rows[i]))
    BY <1>2, Counted DEF SiteBallFaced, BallFaced
  <2>2. faced = legal \cup noBalls /\ legal \cap noBalls = {} /\ legal \subseteq faced /\ noBalls \subseteq faced
    BY <2>1
  <2>3. IsFiniteSet(faced)
    BY <1>7, FS_Subset
  <2> HIDE DEF faced, legal, noBalls
  <2>4. QED
    BY <2>2, <2>3, CountedApart
<1> DEFINE fours == {i \in own : rows[i].bat = 4}
           marked == {i \in own : rows[i].boundary = "four" /\ rows[i].bat = 4}
           unmarked == {i \in own : rows[i].bat = 4 /\ rows[i].boundary = "none"}
<1>11. \A i \in own : /\ (rows[i].boundary = "four" => rows[i].bat = 4 /\ ~rows[i].dead)
                     /\ (rows[i].bat = 4 => rows[i].boundary \in {"four", "none"})
  BY <1>2, EventFacts DEF Body
<1>12. /\ {i \in own : rows[i].boundary = "four" \/ rows[i].bat = 4} = fours
       /\ {i \in live : rows[i].boundary = "four" /\ rows[i].bat = 4} = marked
       /\ fours = marked \cup unmarked /\ marked \cap unmarked = {}
       /\ marked \subseteq fours /\ unmarked \subseteq fours
  BY <1>11
<1>13. Cardinality(fours) = Cardinality(marked) + Cardinality(unmarked)
  <2>1. IsFiniteSet(fours)
    BY <1>7, FS_Subset
  <2>2. fours = marked \cup unmarked /\ marked \cap unmarked = {}
    BY <1>12
  <2> HIDE DEF fours, marked, unmarked
  <2>3. marked \in SUBSET fours /\ unmarked \in SUBSET fours
    BY <2>2
  <2>4. /\ Cardinality(fours) = Cardinality(marked) + Cardinality(unmarked)
        /\ Cardinality(marked) \in Nat /\ Cardinality(unmarked) \in Nat
    BY <2>1, <2>2, <2>3, CountedApart
  <2>5. QED
    BY <2>4 DEF fours, marked, unmarked
<1>14. SiteBatter(rows, p).balls = OfficialBatter(rows, p).balls - Number(rows, own, IsNoBall)
  <2>1. /\ SiteBatter(rows, p).balls = Cardinality(legal) /\ Number(rows, own, IsNoBall) = Cardinality(noBalls)
        /\ OfficialBatter(rows, p).balls = Cardinality(faced)
    BY <1>5, <1>9
  <2>2. Cardinality(faced) = Cardinality(legal) + Cardinality(noBalls) /\ Cardinality(noBalls) \in Nat
        /\ Cardinality(legal) \in Nat
    BY <1>10
  <2> DEFINE few == Number(rows, own, IsNoBall)
  <2>3. few = Cardinality(noBalls)
    BY <2>1
  <2> HIDE DEF faced, legal, noBalls, few
  <2>4. SiteBatter(rows, p).balls = OfficialBatter(rows, p).balls - few
    BY <2>1, <2>2, <2>3
  <2>5. QED
    BY <2>4 DEF few
<1>15. TableBatter(rows, p).balls = OfficialBatter(rows, p).balls
  BY <1>5, <1>9
<1>16. /\ TableBatter(rows, p).fours = SiteBatter(rows, p).fours
       /\ TableBatter(rows, p).fours
            = OfficialBatter(rows, p).fours + Number(rows, own, LAMBDA e : e.bat = 4 /\ e.boundary = "none")
  BY <1>6, <1>12, <1>13
<1>17. QED
  BY <1>4, <1>8, <1>14, <1>15, <1>16 DEF v

-----------------------------------------------------------------------------
(* Runs *)

BatRuns(rows) == Total(rows, DOMAIN rows, LAMBDA e : e.bat)
ExtraRuns(rows) == Total(rows, DOMAIN rows, LAMBDA e : e.extras)
Awarded(rows) == Total(rows, DOMAIN rows, LAMBDA e : e.forBatting)

\* The score is what the bat made, the extras and the penalty runs.
LEMMA ScoreSum ==
    ASSUME NEW rows \in Seq(Event)
    PROVE  /\ Total(rows, DOMAIN rows, EventRuns) = BatRuns(rows) + ExtraRuns(rows) + Awarded(rows)
           /\ BatRuns(rows) \in Nat /\ ExtraRuns(rows) \in Nat /\ Awarded(rows) \in Nat
<1> DEFINE D == DOMAIN rows
           bat == [i \in D |-> rows[i].bat]
           extras == [i \in D |-> rows[i].extras]
           made == [i \in D |-> rows[i].bat + rows[i].extras]
           awarded == [i \in D |-> rows[i].forBatting]
           runs == [i \in D |-> EventRuns(rows[i])]
<1>1. /\ BatRuns(rows) = SumFunctionOnSet(bat, D) /\ ExtraRuns(rows) = SumFunctionOnSet(extras, D)
      /\ Awarded(rows) = SumFunctionOnSet(awarded, D)
      /\ Total(rows, DOMAIN rows, EventRuns) = SumFunctionOnSet(runs, D)
  BY DEF BatRuns, ExtraRuns, Awarded, Total
<1>2. IsFiniteSet(D)
  BY RowsFacts
<1>3. ASSUME NEW i \in D
      PROVE  /\ bat[i] \in Nat /\ extras[i] \in Nat /\ awarded[i] \in Nat
             /\ made[i] = bat[i] + extras[i] /\ made[i] \in Nat
             /\ runs[i] = made[i] + awarded[i]
  <2>1. rows[i] \in Event
    BY RowsFacts
  <2>2. /\ rows[i].bat \in Nat /\ rows[i].extras \in Nat /\ rows[i].forBatting \in Nat
        /\ EventRuns(rows[i]) = rows[i].bat + rows[i].extras + rows[i].forBatting
    BY <2>1, EventFacts, Readings
  <2>3. QED
    BY <2>2
<1> HIDE DEF D, bat, extras, made, awarded, runs
<1>4. SumFunctionOnSet(made, D) = SumFunctionOnSet(bat, D) + SumFunctionOnSet(extras, D)
  BY <1>2, <1>3, SumPlus
<1>5. SumFunctionOnSet(runs, D) = SumFunctionOnSet(made, D) + SumFunctionOnSet(awarded, D)
  BY <1>2, <1>3, SumPlus
<1>6. SumFunctionOnSet(bat, D) \in Nat /\ SumFunctionOnSet(extras, D) \in Nat /\ SumFunctionOnSet(awarded, D) \in Nat
  BY <1>2, <1>3, SumNat
<1>7. QED
  BY <1>1, <1>4, <1>5, <1>6

\* The extras are of four kinds, and the three programs count them alike.
LEMMA ExtrasSum ==
    ASSUME NEW rows \in Seq(Event)
    PROVE  LET off == OfficialExtras(rows)
           IN  /\ ExtraRuns(rows) = off.wides + off.noBalls + off.byes + off.legByes
               /\ off.wides \in Nat /\ off.noBalls \in Nat /\ off.byes \in Nat /\ off.legByes \in Nat
               /\ off.noBalls = Number(rows, DOMAIN rows, IsNoBall)
<1> DEFINE D == DOMAIN rows
           extras == [i \in D |-> rows[i].extras]
           wides == [i \in D |-> Wides(rows[i])]
           noBalls == [i \in D |-> OfficialNoBalls(rows[i])]
           byes == [i \in D |-> Byes(rows[i])]
           legByes == [i \in D |-> LegByes(rows[i])]
           two == [i \in D |-> Wides(rows[i]) + OfficialNoBalls(rows[i])]
           three == [i \in D |-> Wides(rows[i]) + OfficialNoBalls(rows[i]) + Byes(rows[i])]
           marked == {i \in D : IsNoBall(rows[i])}
           off == OfficialExtras(rows)
<1>1. /\ ExtraRuns(rows) = SumFunctionOnSet(extras, D) /\ off.wides = SumFunctionOnSet(wides, D)
      /\ off.noBalls = SumFunctionOnSet(noBalls, D) /\ off.byes = SumFunctionOnSet(byes, D)
      /\ off.legByes = SumFunctionOnSet(legByes, D)
      /\ Number(rows, DOMAIN rows, IsNoBall) = Cardinality(marked)
  BY DEF ExtraRuns, OfficialExtras, Total, Number
<1>2. IsFiniteSet(D)
  BY RowsFacts
<1>3. ASSUME NEW i \in D
      PROVE  /\ wides[i] \in Nat /\ noBalls[i] \in Nat /\ byes[i] \in Nat /\ legByes[i] \in Nat
             /\ two[i] = wides[i] + noBalls[i] /\ two[i] \in Nat
             /\ three[i] = two[i] + byes[i] /\ three[i] \in Nat
             /\ extras[i] = three[i] + legByes[i]
             /\ noBalls[i] = IF i \in marked THEN 1 ELSE 0
  <2>1. rows[i] \in Event
    BY RowsFacts
  <2>2. /\ Wides(rows[i]) \in Nat /\ OfficialNoBalls(rows[i]) \in Nat /\ Byes(rows[i]) \in Nat
        /\ LegByes(rows[i]) \in Nat
        /\ rows[i].extras = Wides(rows[i]) + OfficialNoBalls(rows[i]) + Byes(rows[i]) + LegByes(rows[i])
        /\ OfficialNoBalls(rows[i]) = IF IsNoBall(rows[i]) THEN 1 ELSE 0
    BY <2>1, Readings
  <2>3. QED
    BY <2>2
<1>4. marked \in SUBSET D
  OBVIOUS
<1> HIDE DEF D, extras, wides, noBalls, byes, legByes, two, three, marked
<1>5. SumFunctionOnSet(two, D) = SumFunctionOnSet(wides, D) + SumFunctionOnSet(noBalls, D)
  <2>1. \A i \in D : wides[i] \in Int /\ noBalls[i] \in Int /\ two[i] = wides[i] + noBalls[i]
    BY <1>3
  <2>2. QED
    BY <1>2, <2>1, SumPlus
<1>6. SumFunctionOnSet(three, D) = SumFunctionOnSet(two, D) + SumFunctionOnSet(byes, D)
  <2>1. \A i \in D : two[i] \in Int /\ byes[i] \in Int /\ three[i] = two[i] + byes[i]
    BY <1>3
  <2>2. QED
    BY <1>2, <2>1, SumPlus
<1>7. SumFunctionOnSet(extras, D) = SumFunctionOnSet(three, D) + SumFunctionOnSet(legByes, D)
  <2>1. \A i \in D : three[i] \in Int /\ legByes[i] \in Int /\ extras[i] = three[i] + legByes[i]
    BY <1>3
  <2>2. QED
    BY <1>2, <2>1, SumPlus
<1>8. /\ SumFunctionOnSet(wides, D) \in Nat /\ SumFunctionOnSet(noBalls, D) \in Nat
      /\ SumFunctionOnSet(byes, D) \in Nat /\ SumFunctionOnSet(legByes, D) \in Nat
  BY <1>2, <1>3, SumNat
<1>9. SumFunctionOnSet(noBalls, D) = Cardinality(marked)
  BY <1>2, <1>3, <1>4, SumCounts
<1> HIDE DEF off
<1>10. /\ ExtraRuns(rows) = off.wides + off.noBalls + off.byes + off.legByes
       /\ off.wides \in Nat /\ off.noBalls \in Nat /\ off.byes \in Nat /\ off.legByes \in Nat
       /\ off.noBalls = Number(rows, DOMAIN rows, IsNoBall)
  BY <1>1, <1>5, <1>6, <1>7, <1>8, <1>9
<1>11. QED
  BY <1>10 DEF off

\* The screen adds up all the extras and penalties, the website without those of
\* the fielding side.
LEMMA ExtrasShown ==
    ASSUME NEW rows \in Seq(Event)
    PROVE  /\ ScreenExtras(rows).total = ExtraRuns(rows) + Awarded(rows) + Penalised(rows)
           /\ SiteExtras(rows).total = ExtraRuns(rows) + Awarded(rows)
           /\ Penalised(rows) \in Nat
           /\ \A x \in {"wides", "noBalls", "byes", "legByes"} :
                 ScreenExtras(rows)[x] = OfficialExtras(rows)[x] /\ SiteExtras(rows)[x] = OfficialExtras(rows)[x]
<1> DEFINE D == DOMAIN rows
           extras == [i \in D |-> rows[i].extras]
           two == [i \in D |-> rows[i].extras + rows[i].forBatting]
           awarded == [i \in D |-> rows[i].forBatting]
           lost == [i \in D |-> rows[i].forFielding]
           total == [i \in D |-> rows[i].extras + rows[i].forBatting + rows[i].forFielding]
           off == OfficialExtras(rows)
<1>1. /\ ExtraRuns(rows) = SumFunctionOnSet(extras, D) /\ Awarded(rows) = SumFunctionOnSet(awarded, D)
      /\ Penalised(rows) = SumFunctionOnSet(lost, D) /\ ScreenExtras(rows).total = SumFunctionOnSet(total, D)
  BY DEF ExtraRuns, Awarded, Penalised, ScreenExtras, Total
<1>2. IsFiniteSet(D)
  BY RowsFacts
<1>3. ASSUME NEW i \in D
      PROVE  /\ extras[i] \in Nat /\ awarded[i] \in Nat /\ lost[i] \in Nat
             /\ two[i] = extras[i] + awarded[i] /\ two[i] \in Nat
             /\ total[i] = two[i] + lost[i]
  <2>1. rows[i] \in Event
    BY RowsFacts
  <2>2. rows[i].extras \in Nat /\ rows[i].forBatting \in Nat /\ rows[i].forFielding \in Nat
    BY <2>1, EventFacts
  <2>3. QED
    BY <2>2
<1>4. /\ ScreenExtras(rows).wides = off.wides /\ SiteExtras(rows).wides = off.wides
      /\ ScreenExtras(rows).byes = off.byes /\ SiteExtras(rows).byes = off.byes
      /\ ScreenExtras(rows).legByes = off.legByes /\ SiteExtras(rows).legByes = off.legByes
  BY DEF ScreenExtras, SiteExtras, OfficialExtras
<1>5. /\ ScreenExtras(rows).noBalls = Number(rows, DOMAIN rows, IsNoBall)
      /\ SiteExtras(rows).noBalls = Number(rows, DOMAIN rows, IsNoBall)
  BY DEF ScreenExtras, SiteExtras
<1>6. SiteExtras(rows).total
        = SiteExtras(rows).wides + SiteExtras(rows).noBalls + SiteExtras(rows).byes
            + SiteExtras(rows).legByes + Awarded(rows)
  BY DEF SiteExtras, Awarded
<1> HIDE DEF D, extras, two, awarded, lost, total, off
<1>7. SumFunctionOnSet(two, D) = SumFunctionOnSet(extras, D) + SumFunctionOnSet(awarded, D)
  BY <1>2, <1>3, SumPlus
<1>8. SumFunctionOnSet(total, D) = SumFunctionOnSet(two, D) + SumFunctionOnSet(lost, D)
  BY <1>2, <1>3, SumPlus
<1>9. SumFunctionOnSet(lost, D) \in Nat
  BY <1>2, <1>3, SumNat
<1>10. /\ ExtraRuns(rows) = off.wides + off.noBalls + off.byes + off.legByes
       /\ off.wides \in Nat /\ off.noBalls \in Nat /\ off.byes \in Nat /\ off.legByes \in Nat
       /\ off.noBalls = Number(rows, DOMAIN rows, IsNoBall)
  BY ExtrasSum DEF off
<1>11. Awarded(rows) \in Nat
  BY ScoreSum
<1>12. SiteExtras(rows).total = ExtraRuns(rows) + Awarded(rows)
  BY <1>4, <1>5, <1>6, <1>10, <1>11
<1>13. \A x \in {"wides", "noBalls", "byes", "legByes"} :
          ScreenExtras(rows)[x] = off[x] /\ SiteExtras(rows)[x] = off[x]
  BY <1>4, <1>5, <1>10
<1>14. QED
  BY <1>1, <1>7, <1>8, <1>9, <1>12, <1>13 DEF off

\* The values of a key, and the places at which it has one.
Keys(rows, key) == {key[i] : i \in DOMAIN rows}
Group(rows, key, p) == {i \in DOMAIN rows : key[i] = p}
Grouped(rows, key, v) == [p \in Keys(rows, key) |-> SumFunctionOnSet(v, Group(rows, key, p))]

\* The parts of a sum that the values of a key make up, added together.
LEMMA GroupedSum ==
    ASSUME NEW rows \in Seq(Event), NEW key, NEW v, \A i \in DOMAIN rows : v[i] \in Int
    PROVE  SumFunction(Grouped(rows, key, v)) = SumFunctionOnSet(v, DOMAIN rows)
<1> DEFINE D == DOMAIN rows
           P == Keys(rows, key)
           f == [i \in D |-> key[i]]
           g == [p \in P |-> SumFunctionOnSet(v, {i \in D : key[i] = p})]
<1>1. IsFiniteSet(D)
  BY RowsFacts
<1>2. f \in Surjection(D, P)
  BY DEF Surjection, Keys
<1>3. (\A i \in D : key[i] \in P) /\ (\A i \in D : v[i] \in Int)
  BY DEF Keys
<1>4. Grouped(rows, key, v) = g /\ DOMAIN g = P
  BY DEF Grouped, Group
<1> HIDE DEF f, P
<1>5. IsFiniteSet(P)
  BY <1>1, <1>2, FS_Surjection
<1> HIDE DEF D
<1>6. SumFunctionOnSet(g, P) = SumFunctionOnSet(v, D)
  BY <1>1, <1>3, <1>5, SumGroups
<1> HIDE DEF g
<1>7. SumFunction(Grouped(rows, key, v)) = SumFunctionOnSet(v, D)
  BY <1>4, <1>6 DEF SumFunction
<1>8. QED
  BY <1>7 DEF D

\* An innings holds deliveries of the screen.
LEMMA InningsTyped ==
    ASSUME SheetTypes, NEW i \in 1 .. 2
    PROVE  InningsEvents(i) \in Seq(Event)
BY DEF SheetTypes, InningsEvents

\* So does the one that is scored.
LEMMA OursTyped ==
    ASSUME SheetTypes
    PROVE  Ours \in Seq(Event) /\ events[1] \in Seq(Event) /\ events[2] \in Seq(Event)
BY DEF SheetTypes, Ours, InningsEvents

\* The runs of the batters are the runs off the bat, in each of the three tables.
LEMMA Batted ==
    ASSUME NEW rows \in Seq(Event)
    PROVE  /\ SumFunction([p \in BattersOf(rows) |-> OfficialBatter(rows, p).runs]) = BatRuns(rows)
           /\ SumFunction([p \in BattersOf(rows) |-> TableBatter(rows, p).runs]) = BatRuns(rows)
           /\ SumFunction([p \in BattersOf(rows) |-> SiteBatter(rows, p).runs]) = BatRuns(rows)
<1> DEFINE D == DOMAIN rows
           P == BattersOf(rows)
           key == [i \in D |-> rows[i].striker]
           v == [i \in D |-> rows[i].bat]
           own(p) == Group(rows, key, p)
           W == [p \in P |-> OfficialBatter(rows, p).runs]
<1>1. P = {key[i] : i \in D}
  BY DEF BattersOf, Names
<1>2. \A p : own(p) = Facing(rows, p)
  BY DEF Facing, Group
<1>3. \A p \in P : /\ OfficialBatter(rows, p).runs = SumFunctionOnSet(v, own(p))
                   /\ TableBatter(rows, p).runs = OfficialBatter(rows, p).runs
                   /\ SiteBatter(rows, p).runs = OfficialBatter(rows, p).runs
  <2>1. ASSUME NEW p \in P
        PROVE  /\ OfficialBatter(rows, p).runs = SumFunctionOnSet(v, own(p))
               /\ TableBatter(rows, p).runs = OfficialBatter(rows, p).runs
               /\ SiteBatter(rows, p).runs = OfficialBatter(rows, p).runs
    <3>1. own(p) = Facing(rows, p)
      BY <1>2
    <3>2. /\ OfficialBatter(rows, p).runs = SumFunctionOnSet(v, Facing(rows, p))
          /\ TableBatter(rows, p).runs = OfficialBatter(rows, p).runs
          /\ SiteBatter(rows, p).runs = OfficialBatter(rows, p).runs
      BY BatterRead
    <3> HIDE DEF own, v, D
    <3>3. SumFunctionOnSet(v, own(p)) = SumFunctionOnSet(v, Facing(rows, p))
      BY <3>1
    <3>4. QED
      BY <3>2, <3>3
  <2>2. QED
    BY <2>1
<1>4. \A i \in DOMAIN rows : v[i] \in Int
  <2>1. ASSUME NEW i \in DOMAIN rows PROVE v[i] \in Int
    <3>1. rows[i] \in Event
      BY RowsFacts
    <3>2. rows[i].bat \in Nat
      BY <3>1, EventFacts
    <3>3. QED
      BY <3>2
  <2>2. QED
    BY <2>1
<1>5. BatRuns(rows) = SumFunctionOnSet(v, DOMAIN rows)
  BY DEF BatRuns, Total
<1>6. /\ [p \in P |-> TableBatter(rows, p).runs] = W
      /\ [p \in P |-> SiteBatter(rows, p).runs] = W
  BY <1>3
<1>7. P = {key[i] : i \in DOMAIN rows}
  BY <1>1
<1>8. W = Grouped(rows, key, v)
  <2>1. P = Keys(rows, key)
    BY <1>7 DEF Keys
  <2> HIDE DEF P, key, v
  <2>2. W = [p \in Keys(rows, key) |-> SumFunctionOnSet(v, Group(rows, key, p))]
    BY <1>3, <2>1
  <2>3. QED
    BY <2>2 DEF Grouped
<1> HIDE DEF v, key, W, P
<1>9. SumFunction(W) = SumFunctionOnSet(v, DOMAIN rows)
  <2>1. SumFunction(Grouped(rows, key, v)) = SumFunctionOnSet(v, DOMAIN rows)
    BY <1>4, GroupedSum
  <2>2. QED
    BY <1>8, <2>1
<1>10. QED
  BY <1>5, <1>6, <1>9 DEF W, P

\* The score is the batters' runs, the extras and the penalty runs: on the
\* official scorecard, on the screen and on the website (_finalize_live_score,
\* liveExtrasBreakdown, inningsExtrasSummary).
THEOREM ScoreIsAccounted == Spec => []RunsAccounted
<1>1. SheetTypes => RunsAccounted
  <2> SUFFICES ASSUME NEW rows \in Seq(Event) PROVE RunsAddUp(rows)
    BY InningsTyped DEF RunsAccounted
  <2> DEFINE off == OfficialExtras(rows)
             bat == BatRuns(rows)
             extras == ExtraRuns(rows)
             awarded == Awarded(rows)
             lost == Penalised(rows)
  <2>1. rows \in Seq(Event)
    OBVIOUS
  <2>2. Summary(rows).runs = bat + extras + awarded /\ bat \in Nat /\ extras \in Nat /\ awarded \in Nat
    <3>1. Summary(rows).runs = Total(rows, DOMAIN rows, EventRuns)
      BY DEF Summary
    <3>2. QED
      BY <2>1, <3>1, ScoreSum
  <2>3. extras = off.wides + off.noBalls + off.byes + off.legByes
        /\ off.wides \in Nat /\ off.noBalls \in Nat /\ off.byes \in Nat /\ off.legByes \in Nat
    BY <2>1, ExtrasSum
  <2>4. /\ ScreenExtras(rows).total = extras + awarded + lost
        /\ SiteExtras(rows).total = extras + awarded
        /\ lost \in Nat
        /\ \A x \in {"wides", "noBalls", "byes", "legByes"} :
              ScreenExtras(rows)[x] = off[x] /\ SiteExtras(rows)[x] = off[x]
    BY <2>1, ExtrasShown
  <2>5. /\ SumFunction([p \in BattersOf(rows) |-> OfficialBatter(rows, p).runs]) = bat
        /\ SumFunction([p \in BattersOf(rows) |-> TableBatter(rows, p).runs]) = bat
        /\ SumFunction([p \in BattersOf(rows) |-> SiteBatter(rows, p).runs]) = bat
    BY <2>1, Batted
  <2>6. awarded = Total(rows, DOMAIN rows, LAMBDA e : e.forBatting)
    BY DEF Awarded
  <2> HIDE DEF bat, extras, awarded, lost, off
  <2>7. /\ Summary(rows).runs = bat + off.wides + off.noBalls + off.byes + off.legByes + awarded
        /\ Summary(rows).runs = bat + ScreenExtras(rows).total - lost
        /\ Summary(rows).runs = bat + SiteExtras(rows).total
    <3> DEFINE w == off.wides
               n == off.noBalls
               b == off.byes
               l == off.legByes
               runs == Summary(rows).runs
               screen == ScreenExtras(rows).total
               site == SiteExtras(rows).total
    <3>1. /\ bat \in Nat /\ extras \in Nat /\ awarded \in Nat /\ lost \in Nat
          /\ w \in Nat /\ n \in Nat /\ b \in Nat /\ l \in Nat
          /\ runs = bat + extras + awarded /\ extras = w + n + b + l
          /\ screen = extras + awarded + lost /\ site = extras + awarded
      BY <2>2, <2>3, <2>4
    <3> HIDE DEF w, n, b, l, runs, screen, site
    <3>2. runs = bat + w + n + b + l + awarded /\ runs = bat + screen - lost /\ runs = bat + site
      BY <3>1
    <3>3. QED
      BY <3>2 DEF w, n, b, l, runs, screen, site
  <2>8. \A x \in {"wides", "noBalls", "byes", "legByes"} : {ScreenExtras(rows)[x], SiteExtras(rows)[x]} = {off[x]}
    BY <2>4
  <2>9. /\ Summary(rows).runs
             = SumFunction([p \in BattersOf(rows) |-> OfficialBatter(rows, p).runs])
                 + off.wides + off.noBalls + off.byes + off.legByes + awarded
        /\ Summary(rows).runs
             = SumFunction([p \in BattersOf(rows) |-> TableBatter(rows, p).runs])
                 + ScreenExtras(rows).total - lost
        /\ Summary(rows).runs
             = SumFunction([p \in BattersOf(rows) |-> SiteBatter(rows, p).runs]) + SiteExtras(rows).total
    BY <2>5, <2>7
  <2>10. QED
    BY <2>6, <2>8, <2>9 DEF RunsAddUp, off, lost
<1>2. QED
  BY <1>1, InitTypes, TypesStep, PTL DEF Spec

\* The batters agree on runs; the website leaves out the no-balls they faced and
\* the official scorecard the fours no button for a four recorded
\* (countsAsBatterBall, batterBallCounts, _live_event_counts_as_batter_ball).
THEOREM BattersHaveTheSameRuns == Spec => []BattersAgree
<1>1. SheetTypes => BattersAgree
  <2> SUFFICES ASSUME NEW rows \in Seq(Event), NEW p PROVE BatterAgrees(rows, p)
    BY InningsTyped DEF BattersAgree
  <2>1. QED
    BY BatterRead DEF BatterAgrees
<1>2. QED
  BY <1>1, InitTypes, TypesStep, PTL DEF Spec

\* The score and the wickets of an innings are numbers.
LEMMA SummaryTyped ==
    ASSUME NEW rows \in Seq(Event)
    PROVE  /\ Summary(rows).runs \in Nat /\ Summary(rows).wickets \in Nat /\ Summary(rows).legal \in Nat
           /\ Summary(rows).overs \in PlaceRow
<1>1. Total(rows, DOMAIN rows, EventRuns) \in Nat
  BY ScoreSum
<1>2. {i \in DOMAIN rows : CountsAsWicket(rows[i])} \in SUBSET DOMAIN rows
      /\ {i \in DOMAIN rows : rows[i].legal} \in SUBSET DOMAIN rows
  OBVIOUS
<1>3. IsFiniteSet({i \in DOMAIN rows : CountsAsWicket(rows[i])}) /\ IsFiniteSet({i \in DOMAIN rows : rows[i].legal})
  BY <1>2, RowsFacts
<1>4. Cardinality({i \in DOMAIN rows : CountsAsWicket(rows[i])}) \in Nat
      /\ Cardinality({i \in DOMAIN rows : rows[i].legal}) \in Nat
  BY <1>3, FS_CardinalityType
<1>5. Summary(rows).overs \in PlaceRow
  BY PositionTyped DEF Summary
<1>6. QED
  BY <1>1, <1>4, <1>5 DEF Summary, Number

\* The greater of nothing and a number.
LEMMA MaxWithZero ==
    ASSUME NEW n \in Int
    PROVE  Max({0, n}) = IF n > 0 THEN n ELSE 0
<1>1. \A x \in {0, n} : (\A y \in {0, n} : x >= y) => x = IF n > 0 THEN n ELSE 0
  OBVIOUS
<1>2. \E x \in {0, n} : \A y \in {0, n} : x >= y
  <2>1. CASE n > 0
    BY <2>1
  <2>2. CASE ~(n > 0)
    BY <2>2
  <2>3. QED
    BY <2>1, <2>2
<1>3. Max({0, n}) \in {0, n} /\ \A y \in {0, n} : Max({0, n}) >= y
  BY <1>2 DEF Max
<1>4. QED
  BY <1>1, <1>3

\* The chart of the website calls a chase won exactly when the result is the
\* chasing side's, and given up only when it is not (winProbabilityTimeline,
\* _finalize_live_score).
THEOREM ChartShowsTheResult == Spec => []ResultShown
<1>1. SheetTypes => ResultShown
  <2> SUFFICES ASSUME SheetTypes PROVE ResultShown
    OBVIOUS
  <2> DEFINE first == Summary(InningsEvents(1))
             second == Summary(InningsEvents(2))
             a == first.runs
             b == second.runs
             w == second.wickets
             needed == IF revised # 0 THEN revised ELSE a + 1
  <2>1. a \in Nat /\ b \in Nat /\ w \in Nat
    <3>1. InningsEvents(1) \in Seq(Event) /\ InningsEvents(2) \in Seq(Event)
      BY OursTyped DEF InningsEvents
    <3>2. QED
      BY <3>1, SummaryTyped
  <2>2. needed \in Nat \ {0}
    <3> HIDE DEF a
    <3>1. revised \in Nat
      BY KeypadAssumption DEF SheetTypes
    <3>2. QED
      BY <2>1, <3>1
  <2> DEFINE result == OfficialOutcome(first, second, revised)
             shown == ChaseShown(first, second, revised)
             left == Max({0, Wickets - w})
             required == Max({0, needed - b})
             over == second.legal >= Overs * BallsPerOver \/ w >= Wickets
  <2>3. result = CASE b >= needed     -> [side |-> 2, by |-> left]
                   [] b < needed - 1  -> [side |-> 1, by |-> needed - 1 - b]
                   [] OTHER           -> [side |-> 0, by |-> 0]
    BY DEF OfficialOutcome
  <2>4. shown = CASE required = 0 -> "won"
                  [] required # 0 /\ over -> "lost"
                  [] OTHER -> "open"
    BY DEF ChaseShown
  <2>5. left = IF Wickets - w > 0 THEN Wickets - w ELSE 0
    BY <2>1, MaxWithZero, KeypadAssumption
  <2>6. required = IF needed - b > 0 THEN needed - b ELSE 0
    BY <2>1, <2>2, MaxWithZero
  <2>7. ASSUME shown = "won" <=> result.side = 2, shown = "lost" => result.side # 2,
               result.side = 1 => result.by > 0, result.side = 2 /\ ~(w >= Wickets) => result.by > 0
        PROVE  ResultShown
    BY <2>7 DEF ResultShown
  <2>8. Wickets \in Nat
    BY KeypadAssumption
  <2> HIDE DEF first, second, a, b, w, needed, result, shown, left, required, over
  <2>9. CASE b >= needed
    <3>1. result = [side |-> 2, by |-> left] /\ required = 0
      BY <2>1, <2>2, <2>3, <2>6, <2>9
    <3>2. shown = "won"
      BY <2>4, <3>1
    <3>3. ~(w >= Wickets) => left > 0
      BY <2>1, <2>5, <2>8
    <3>4. QED
      BY <2>7, <3>1, <3>2, <3>3
  <2>10. CASE b < needed
    <3>1. required # 0
      BY <2>1, <2>2, <2>6, <2>10
    <3>2. shown # "won"
      <4>1. CASE over
        BY <2>4, <3>1, <4>1
      <4>2. CASE ~over
        BY <2>4, <3>1, <4>2
      <4>3. QED
        BY <4>1, <4>2
    <3>3. result.side # 2 /\ (result.side = 1 => result.by > 0)
      <4>1. CASE b < needed - 1
        <5>1. result = [side |-> 1, by |-> needed - 1 - b]
          BY <2>1, <2>2, <2>3, <2>10, <4>1
        <5>2. needed - 1 - b > 0
          BY <2>1, <2>2, <4>1
        <5>3. QED
          BY <5>1, <5>2
      <4>2. CASE ~(b < needed - 1)
        <5>1. result = [side |-> 0, by |-> 0]
          BY <2>1, <2>2, <2>3, <2>10, <4>2
        <5>2. QED
          BY <5>1
      <4>3. QED
        BY <4>1, <4>2
    <3>4. QED
      BY <2>7, <3>2, <3>3
  <2>11. QED
    BY <2>1, <2>2, <2>9, <2>10
<1>2. QED
  BY <1>1, InitTypes, TypesStep, PTL DEF Spec

-----------------------------------------------------------------------------
(* One more delivery *)

\* One more delivery adds its value to a sum.
LEMMA SumOfAppend ==
    ASSUME NEW n \in Nat, NEW v, \A i \in 1 .. n : v[i] \in Int,
           NEW w, \A i \in 1 .. n : w[i] = v[i], w[n + 1] \in Int
    PROVE  SumFunctionOnSet(w, 1 .. n + 1) = SumFunctionOnSet(v, 1 .. n) + w[n + 1]
<1>1. IsFiniteSet(1 .. n)
  BY FS_Interval
<1>2. 1 .. n + 1 = (1 .. n) \cup {n + 1} /\ n + 1 \notin 1 .. n
  OBVIOUS
<1>3. \A i \in 1 .. n : w[i] \in Int
  OBVIOUS
<1> DEFINE D == 1 .. n
           q == n + 1
<1>4. IsFiniteSet(D) /\ q \notin D /\ w[q] \in Int /\ \A i \in D : w[i] \in Int
  BY <1>1, <1>2, <1>3
<1>5. (\A i \in D : v[i] \in Int) /\ (\A i \in D : w[i] = v[i])
  OBVIOUS
<1>6. 1 .. n + 1 = D \cup {q}
  BY <1>2
<1> HIDE DEF D, q
<1>7. SumFunctionOnSet(w, D \cup {q}) = SumFunctionOnSet(w, D) + w[q]
  BY <1>4, SumAdd
<1>8. SumFunctionOnSet(w, D) = SumFunctionOnSet(v, D)
  BY <1>4, <1>5, SumSame
<1>9. SumFunctionOnSet(w, 1 .. n + 1) = SumFunctionOnSet(v, D) + w[q]
  BY <1>6, <1>7, <1>8
<1>10. QED
  BY <1>9 DEF D, q

\* One more delivery adds one to a count, or nothing.
LEMMA CountOfAppend ==
    ASSUME NEW n \in Nat, NEW s \in SUBSET (1 .. n), NEW c \in BOOLEAN,
           NEW t, t = IF c THEN s \cup {n + 1} ELSE s
    PROVE  Cardinality(t) = Cardinality(s) + (IF c THEN 1 ELSE 0) /\ Cardinality(s) \in Nat
<1>1. IsFiniteSet(1 .. n)
  BY FS_Interval
<1>2. IsFiniteSet(s)
  BY <1>1, FS_Subset
<1>3. Cardinality(s) \in Nat /\ n + 1 \notin s
  BY <1>2, FS_CardinalityType
<1>4. Cardinality(s \cup {n + 1}) = Cardinality(s) + 1
  BY <1>2, <1>3, FS_AddElement
<1>5. CASE c
  BY <1>3, <1>4, <1>5
<1>6. CASE ~c
  BY <1>3, <1>6
<1>7. QED
  BY <1>5, <1>6

\* The rows after one more delivery.
LEMMA AppendRows ==
    ASSUME NEW s \in Seq(Event), NEW e \in Event
    PROVE  /\ Append(s, e) \in Seq(Event) /\ Len(Append(s, e)) = Len(s) + 1 /\ Len(s) \in Nat
           /\ DOMAIN s = 1 .. Len(s) /\ DOMAIN Append(s, e) = 1 .. Len(s) + 1
           /\ \A i \in 1 .. Len(s) : Append(s, e)[i] = s[i]
           /\ Append(s, e)[Len(s) + 1] = e
OBVIOUS

\* What one more delivery adds to the summary of an innings.
LEMMA SummaryOfAppend ==
    ASSUME NEW s \in Seq(Event), NEW e \in Event
    PROVE  Summary(Append(s, e))
             = [runs    |-> Summary(s).runs + EventRuns(e),
                wickets |-> Summary(s).wickets + IF CountsAsWicket(e) THEN 1 ELSE 0,
                legal   |-> Summary(s).legal + IF e.legal THEN 1 ELSE 0,
                overs   |-> Position(Append(s, e))]
<1> DEFINE t == Append(s, e)
           n == Len(s)
           v == [i \in DOMAIN s |-> EventRuns(s[i])]
           w == [i \in DOMAIN t |-> EventRuns(t[i])]
<1>1. /\ t \in Seq(Event) /\ Len(t) = n + 1 /\ n \in Nat /\ DOMAIN s = 1 .. n /\ DOMAIN t = 1 .. n + 1
      /\ \A i \in 1 .. n : t[i] = s[i]
      /\ t[n + 1] = e
  BY AppendRows
<1>2. /\ Summary(s).runs = SumFunctionOnSet(v, DOMAIN s)
      /\ Summary(t) = [runs    |-> SumFunctionOnSet(w, DOMAIN t),
                       wickets |-> Cardinality({i \in DOMAIN t : CountsAsWicket(t[i])}),
                       legal   |-> Cardinality({i \in DOMAIN t : t[i].legal}),
                       overs   |-> Position(t)]
      /\ Summary(s).wickets = Cardinality({i \in DOMAIN s : CountsAsWicket(s[i])})
      /\ Summary(s).legal = Cardinality({i \in DOMAIN s : s[i].legal})
  BY DEF Summary, Total, Number
<1>3. SumFunctionOnSet(w, DOMAIN t) = SumFunctionOnSet(v, DOMAIN s) + EventRuns(e)
  <2>1. \A i \in 1 .. n : s[i] \in Event
    BY <1>1, RowsFacts
  <2>2. \A i \in 1 .. n : EventRuns(s[i]) \in Nat
    BY <2>1, Readings
  <2>3. EventRuns(e) \in Nat
    BY Readings
  <2>4. \A i \in 1 .. n : v[i] = EventRuns(s[i]) /\ w[i] = EventRuns(s[i])
    BY <1>1
  <2>5. w[n + 1] = EventRuns(e)
    BY <1>1
  <2> HIDE DEF v, w, n, t
  <2>6. (\A i \in 1 .. n : v[i] \in Int) /\ (\A i \in 1 .. n : w[i] = v[i]) /\ w[n + 1] \in Int
    BY <2>2, <2>3, <2>4, <2>5
  <2>7. SumFunctionOnSet(w, 1 .. n + 1) = SumFunctionOnSet(v, 1 .. n) + w[n + 1]
    BY <1>1, <2>6, SumOfAppend
  <2>8. QED
    BY <1>1, <2>5, <2>7
<1>4. Cardinality({i \in DOMAIN t : CountsAsWicket(t[i])})
        = Cardinality({i \in DOMAIN s : CountsAsWicket(s[i])}) + IF CountsAsWicket(e) THEN 1 ELSE 0
  <2> DEFINE a == {i \in DOMAIN s : CountsAsWicket(s[i])}
             b == {i \in DOMAIN t : CountsAsWicket(t[i])}
  <2>1. b = IF CountsAsWicket(e) THEN a \cup {n + 1} ELSE a
    <3>1. CASE CountsAsWicket(e)
      BY <1>1, <3>1
    <3>2. CASE ~CountsAsWicket(e)
      BY <1>1, <3>2
    <3>3. QED
      BY <3>1, <3>2
  <2>2. a \in SUBSET (1 .. n) /\ CountsAsWicket(e) \in BOOLEAN
    BY <1>1 DEF CountsAsWicket
  <2> DEFINE c == CountsAsWicket(e)
  <2> HIDE DEF a, b, c, n
  <2>3. Cardinality(b) = Cardinality(a) + (IF c THEN 1 ELSE 0)
    BY <1>1, <2>1, <2>2, CountOfAppend DEF c
  <2>4. QED
    BY <2>3 DEF a, b, c
<1>5. Cardinality({i \in DOMAIN t : t[i].legal})
        = Cardinality({i \in DOMAIN s : s[i].legal}) + IF e.legal THEN 1 ELSE 0
  <2> DEFINE a == {i \in DOMAIN s : s[i].legal}
             b == {i \in DOMAIN t : t[i].legal}
  <2>1. b = IF e.legal THEN a \cup {n + 1} ELSE a
    <3>1. CASE e.legal
      BY <1>1, <3>1
    <3>2. CASE ~e.legal
      BY <1>1, <3>2
    <3>3. QED
      BY <3>1, <3>2
  <2>2. a \in SUBSET (1 .. n) /\ e.legal \in BOOLEAN
    BY <1>1, EventFacts
  <2> DEFINE c == e.legal
  <2> HIDE DEF a, b, c, n
  <2>3. Cardinality(b) = Cardinality(a) + (IF c THEN 1 ELSE 0)
    BY <1>1, <2>1, <2>2, CountOfAppend DEF c
  <2>4. QED
    BY <2>3 DEF a, b, c
<1> HIDE DEF v, w, t
<1>6. Summary(t)
             = [runs    |-> Summary(s).runs + EventRuns(e),
                wickets |-> Summary(s).wickets + IF CountsAsWicket(e) THEN 1 ELSE 0,
                legal   |-> Summary(s).legal + IF e.legal THEN 1 ELSE 0,
                overs   |-> Position(t)]
  BY <1>2, <1>3, <1>4, <1>5
<1>7. QED
  BY <1>6 DEF t

\* The screen adds a delivery to its summary as the server would.
LEMMA OptimisticBall ==
    ASSUME NEW s \in Seq(Event), NEW e \in Event
    PROVE  AppendOptimisticBall([rows |-> s, summary |-> Summary(s)], e)
             = [rows |-> Append(s, e), summary |-> Summary(Append(s, e))]
BY SummaryOfAppend DEF AppendOptimisticBall

\* The first deliveries of an innings.
LEMMA FirstRows ==
    ASSUME NEW rows \in Seq(Event), NEW k \in 1 .. Len(rows)
    PROVE  /\ SubSeq(rows, 1, k - 1) \in Seq(Event) /\ rows[k] \in Event
           /\ SubSeq(rows, 1, k) = Append(SubSeq(rows, 1, k - 1), rows[k])
<1>1. Len(rows) \in Nat /\ \A i \in 1 .. Len(rows) : rows[i] \in Event
  OBVIOUS
<1>2. SubSeq(rows, 1, k - 1) \in Seq(Event)
  BY <1>1, SubSeqProperties
<1>3. SubSeq(rows, 1, k) = SubSeq(rows, 1, k - 1) \o <<rows[k]>>
  <2>1. 1 \in 1 .. Len(rows) /\ k \in 1 .. Len(rows)
    OBVIOUS
  <2>2. QED
    BY <2>1, SubSeqRecursiveSecond
<1>4. Append(SubSeq(rows, 1, k - 1), rows[k]) = SubSeq(rows, 1, k - 1) \o <<rows[k]>>
  BY <1>1, <1>2, AppendIsConcat
<1>5. QED
  BY <1>1, <1>2, <1>3, <1>4

\* However many deliveries wait, the screen shows what the server will show.
LEMMA QueuedBalls ==
    ASSUME NEW rows \in Seq(Event), NEW n \in 0 .. Len(rows)
    PROVE  WithQueuedBalls(rows, n).summary = Summary(rows)
<1> DEFINE N == Len(rows)
           Shown(k) == [rows |-> SubSeq(rows, 1, k), summary |-> Summary(SubSeq(rows, 1, k))]
           Is(g) == g = [k \in n .. N |-> IF k = n THEN Shown(n) ELSE AppendOptimisticBall(g[k - 1], rows[k])]
           F == CHOOSE g : Is(g)
           f == [k \in n .. N |-> Shown(k)]
<1>1. N \in Nat /\ n \in 0 .. N
  OBVIOUS
<1>2. WithQueuedBalls(rows, n) = F[N]
  BY DEF WithQueuedBalls
<1>3. \A k \in n + 1 .. N : Shown(k) = AppendOptimisticBall(Shown(k - 1), rows[k])
  <2> SUFFICES ASSUME NEW k \in n + 1 .. N
               PROVE  Shown(k) = AppendOptimisticBall(Shown(k - 1), rows[k])
    OBVIOUS
  <2>1. k \in 1 .. Len(rows)
    BY <1>1
  <2> DEFINE s == SubSeq(rows, 1, k - 1)
  <2>2. s \in Seq(Event) /\ rows[k] \in Event /\ SubSeq(rows, 1, k) = Append(s, rows[k])
    BY <2>1, FirstRows
  <2> HIDE DEF s
  <2>3. AppendOptimisticBall([rows |-> s, summary |-> Summary(s)], rows[k])
          = [rows |-> Append(s, rows[k]), summary |-> Summary(Append(s, rows[k]))]
    BY <2>2, OptimisticBall
  <2>4. Shown(k) = [rows |-> Append(s, rows[k]), summary |-> Summary(Append(s, rows[k]))]
    BY <2>2
  <2>5. Shown(k - 1) = [rows |-> s, summary |-> Summary(s)]
    BY DEF s
  <2> HIDE DEF Shown
  <2>6. QED
    BY <2>3, <2>4, <2>5
<1> HIDE DEF Shown
<1>4. Is(f)
  <2>1. \A k \in n .. N : k # n => k - 1 \in n .. N /\ k \in n + 1 .. N
    BY <1>1
  <2>2. \A k \in n .. N : f[k] = IF k = n THEN Shown(n) ELSE AppendOptimisticBall(f[k - 1], rows[k])
    BY <1>3, <2>1
  <2>3. f = [k \in n .. N |-> f[k]]
    OBVIOUS
  <2> HIDE DEF f
  <2>4. f = [k \in n .. N |-> IF k = n THEN Shown(n) ELSE AppendOptimisticBall(f[k - 1], rows[k])]
    BY <2>2, <2>3
  <2>5. QED
    BY <2>4
<1> HIDE DEF Is
<1>5. Is(F)
  BY <1>4
<1> HIDE DEF F, f
<1>6. F = [k \in n .. N |-> IF k = n THEN Shown(n) ELSE AppendOptimisticBall(F[k - 1], rows[k])]
  BY <1>5 DEF Is
<1>7. F[N] = Shown(N)
  <2> DEFINE M == N - n
             T == {m \in 0 .. M : F[n + m] = Shown(n + m)}
  <2>1. M \in Nat
    BY <1>1
  <2>2. 0 \in T
    <3>1. F[n] = Shown(n)
      BY <1>1, <1>6
    <3>2. n + 0 = n /\ 0 \in 0 .. M
      BY <1>1, <2>1
    <3>3. QED
      BY <3>1, <3>2
  <2>3. ASSUME NEW m \in 1 .. M, m - 1 \in T
        PROVE  m \in T
    <3>1. n + m \in n + 1 .. N /\ n + m \in n .. N /\ n + m # n /\ (n + m) - 1 = n + (m - 1) /\ m \in 0 .. M
      BY <1>1
    <3>2. F[n + m] = AppendOptimisticBall(F[(n + m) - 1], rows[n + m])
      BY <1>6, <3>1
    <3>3. F[n + (m - 1)] = Shown(n + (m - 1))
      BY <2>3
    <3>4. Shown(n + m) = AppendOptimisticBall(Shown((n + m) - 1), rows[n + m])
      BY <1>3, <3>1
    <3>5. F[n + m] = Shown(n + m)
      BY <3>1, <3>2, <3>3, <3>4
    <3>6. QED
      BY <3>1, <3>5
  <2> HIDE DEF T
  <2>4. \A m \in 0 .. M : m \in T
    <3> HIDE DEF M
    <3>1. QED
      BY <2>1, <2>2, <2>3, UpTo
  <2>5. M \in T
    BY <2>1, <2>4
  <2>6. n + M = N
    BY <1>1
  <2>7. F[n + M] = Shown(n + M)
    BY <2>5 DEF T
  <2>8. QED
    BY <2>6, <2>7
<1>8. SubSeq(rows, 1, N) = rows
  BY SubSeqFull
<1>9. Shown(N).summary = Summary(rows)
  BY <1>8 DEF Shown
<1>10. QED
  BY <1>2, <1>7, <1>9

\* The screen shows the score the server will show, however many deliveries wait
\* in the outbox (appendOptimisticBall, withQueuedBalls).
THEOREM ScreenShowsTheScore == Spec => []ScoreShown
<1>1. SheetTypes => ScoreShown
  BY InningsTyped, QueuedBalls DEF ScoreShown
<1>2. QED
  BY <1>1, InitTypes, TypesStep, PTL DEF Spec

-----------------------------------------------------------------------------
(* What the deliveries of an innings have in common *)

\* A delivery changes no place before it.
LEMMA PlacesOfAppend ==
    ASSUME NEW s \in Seq(Event), NEW e \in Event
    PROVE  /\ \A k \in 0 .. Len(s) : Places(Append(s, e))[k] = Places(s)[k]
           /\ Position(Append(s, e)) = After(Position(s), e)
<1> DEFINE t == Append(s, e)
           n == Len(s)
           P == Places(s)
           Q == Places(t)
<1>1. /\ t \in Seq(Event) /\ Len(t) = n + 1 /\ n \in Nat
      /\ \A i \in 1 .. n : t[i] = s[i]
      /\ t[n + 1] = e
  BY AppendRows
<1> HIDE DEF t
<1>2. P[0] = [over |-> 0, balls |-> 0] /\ \A k \in 1 .. n : P[k] = After(P[k - 1], s[k])
  BY PlacesFacts
<1>3. Q[0] = [over |-> 0, balls |-> 0] /\ \A k \in 1 .. n + 1 : Q[k] = After(Q[k - 1], t[k])
  BY <1>1, PlacesFacts
<1> HIDE DEF P, Q, n
<1>4. \A k \in 0 .. n : Q[k] = P[k]
  <2> DEFINE T == {k \in 0 .. n : Q[k] = P[k]}
  <2>1. 0 \in T
    BY <1>1, <1>2, <1>3
  <2>2. ASSUME NEW k \in 1 .. n, k - 1 \in T
        PROVE  k \in T
    <3>1. k \in 1 .. n + 1 /\ k \in 0 .. n
      BY <1>1
    <3>2. Q[k] = After(Q[k - 1], t[k]) /\ P[k] = After(P[k - 1], s[k]) /\ t[k] = s[k] /\ Q[k - 1] = P[k - 1]
      BY <1>1, <1>2, <1>3, <2>2, <3>1
    <3>3. QED
      BY <3>1, <3>2
  <2> HIDE DEF T
  <2>3. \A k \in 0 .. n : k \in T
    BY <1>1, <2>1, <2>2, UpTo
  <2>4. QED
    BY <2>3 DEF T
<1>5. Q[n + 1] = After(Q[n], e) /\ Q[n] = P[n]
  <2>1. n + 1 \in 1 .. n + 1 /\ (n + 1) - 1 = n /\ n \in 0 .. n
    BY <1>1
  <2>2. Q[n + 1] = After(Q[(n + 1) - 1], t[n + 1])
    BY <1>3, <2>1
  <2>3. QED
    BY <1>1, <1>4, <2>1, <2>2
<1>6. Position(t) = After(Position(s), e)
  BY <1>1, <1>5 DEF Position, P, Q, n
<1>7. QED
  BY <1>4, <1>6 DEF P, Q, n, t

\* Each delivery is at its place, names who came in only when somebody left, and
\* the pair changes only when somebody did.
Written(rows) ==
    /\ \A k \in 1 .. Len(rows) :
          /\ rows[k].over = Places(rows)[k - 1].over
          /\ rows[k].ball = Places(rows)[k - 1].balls + 1
          /\ rows[k].wicket = "none" => rows[k].out = NoPlayer /\ rows[k].next = NoPlayer
    /\ \A k \in 1 .. Len(rows) - 1 :
          rows[k].wicket = "none" => {rows[k + 1].striker, rows[k + 1].other} = {rows[k].striker, rows[k].other}

\* The batters selected after the last delivery, unless it was the last wicket.
Selected(e) ==
    /\ e.wicket = "none" \/ Summary(Ours).wickets < Wickets =>
          pick.striker = SelectionAfter(e).striker /\ pick.other = SelectionAfter(e).other
    /\ e.striker # e.other /\ e.striker # NoPlayer /\ e.other # NoPlayer

SheetInv ==
    /\ SheetTypes
    /\ Written(events[1]) /\ Written(events[2])
    /\ innings = 1 => events[2] = <<>>
    /\ Ours # <<>> => Selected(Ours[Len(Ours)])

\* The pair at the crease is the same after a delivery on which nobody left.
LEMMA PairKept ==
    ASSUME NEW e, e.wicket = "none" => e.out = NoPlayer /\ e.next = NoPlayer, e.wicket = "none"
    PROVE  {SelectionAfter(e).striker, SelectionAfter(e).other} = {e.striker, e.other}
BY DEF SelectionAfter

\* A recorded delivery is written the way the others are.
LEMMA WrittenStep ==
    ASSUME SheetInv, NEW e, Recorded(e)
    PROVE  Written(Append(Ours, e))
<1> DEFINE s == Ours
           n == Len(s)
           t == Append(s, e)
           p == {pick.striker, pick.other}
<1>1. s \in Seq(Event) /\ e \in Event /\ Written(s)
  BY OursTyped DEF SheetInv, SheetTypes, Recorded, Ours, InningsEvents
<1>2. /\ Len(t) = n + 1 /\ n \in Nat /\ \A i \in 1 .. n : t[i] = s[i]
      /\ t[n + 1] = e
  BY <1>1, AppendRows
<1>3. \A k \in 0 .. n : Places(t)[k] = Places(s)[k]
  BY <1>1, PlacesOfAppend
<1>4. /\ e.over = Places(s)[n].over /\ e.ball = Places(s)[n].balls + 1
      /\ {e.striker, e.other} = p
      /\ e.wicket = "none" => e.out = NoPlayer /\ e.next = NoPlayer
  BY DEF Recorded, Place, Position
<1>5. n # 0 => Selected(s[n])
  <2>1. n # 0 => s # <<>>
    BY <1>1
  <2>2. QED
    BY <2>1 DEF SheetInv
<1>6. n # 0 /\ s[n].wicket = "none" => p = {s[n].striker, s[n].other}
  <2> SUFFICES ASSUME n # 0, s[n].wicket = "none" PROVE p = {s[n].striker, s[n].other}
    OBVIOUS
  <2>1. p = {SelectionAfter(s[n]).striker, SelectionAfter(s[n]).other}
    BY <1>5 DEF Selected
  <2>2. n \in 1 .. n
    BY <1>2
  <2>3. s[n].out = NoPlayer /\ s[n].next = NoPlayer
    BY <1>1, <2>2 DEF Written
  <2> HIDE DEF s, n, p
  <2>4. QED
    BY <2>1, <2>3, PairKept
<1> HIDE DEF s, n, t, p
<1>7. ASSUME NEW k \in 1 .. n + 1
      PROVE  /\ t[k].over = Places(t)[k - 1].over
             /\ t[k].ball = Places(t)[k - 1].balls + 1
             /\ t[k].wicket = "none" => t[k].out = NoPlayer /\ t[k].next = NoPlayer
  <2>1. CASE k = n + 1
    <3>1. k - 1 = n /\ n \in 0 .. n /\ t[k] = e
      BY <1>2, <2>1
    <3>2. Places(t)[k - 1] = Places(s)[n]
      BY <1>3, <3>1
    <3>3. QED
      BY <1>4, <3>1, <3>2
  <2>2. CASE k # n + 1
    <3>1. k \in 1 .. n /\ k - 1 \in 0 .. n
      BY <1>2, <2>2
    <3>2. t[k] = s[k] /\ Places(t)[k - 1] = Places(s)[k - 1]
      BY <1>2, <1>3, <3>1
    <3>3. /\ s[k].over = Places(s)[k - 1].over
          /\ s[k].ball = Places(s)[k - 1].balls + 1
          /\ s[k].wicket = "none" => s[k].out = NoPlayer /\ s[k].next = NoPlayer
      BY <1>1, <3>1 DEF Written, n
    <3>4. QED
      BY <3>2, <3>3
  <2>3. QED
    BY <2>1, <2>2
<1>8. ASSUME NEW k \in 1 .. n, t[k].wicket = "none"
      PROVE  {t[k + 1].striker, t[k + 1].other} = {t[k].striker, t[k].other}
  <2>1. t[k] = s[k]
    BY <1>2
  <2>2. CASE k = n
    <3>1. t[k + 1] = e /\ n # 0 /\ s[n].wicket = "none"
      BY <1>2, <1>8, <2>1, <2>2
    <3>2. QED
      BY <1>4, <1>6, <2>1, <2>2, <3>1
  <2>3. CASE k # n
    <3>1. k \in 1 .. n - 1 /\ k + 1 \in 1 .. n
      BY <1>2, <2>3
    <3>2. t[k + 1] = s[k + 1]
      BY <1>2, <3>1
    <3>3. {s[k + 1].striker, s[k + 1].other} = {s[k].striker, s[k].other}
      BY <1>1, <1>8, <2>1, <3>1 DEF Written, n
    <3>4. QED
      BY <2>1, <3>2, <3>3
  <2>4. QED
    BY <2>2, <2>3
<1>9. Len(t) = n + 1 /\ Len(t) - 1 = n
  BY <1>2
<1>10. Written(t)
  BY <1>7, <1>8, <1>9 DEF Written
<1>11. QED
  BY <1>10 DEF t, s

\* No step breaks the invariant.
LEMMA SheetStep == ASSUME SheetInv, [Next]_vars PROVE SheetInv'
<1>1. SheetTypes'
  BY TypesStep DEF SheetInv
<1>2. ASSUME NEW d \in Keypad, NEW call \in Rulings \cup {"none"}, Record(d, call)
      PROVE  SheetInv'
  <2>1. SheetTypes /\ Ours \in Seq(Event)
    BY OursTyped DEF SheetInv
  <2>2. PICK e : Recorded(e)
    BY <1>2, <2>1, RecordedStep
  <2>3. events' = [events EXCEPT ![innings] = Append(Ours, e)] /\ innings \in {1, 2}
        /\ events \in [1 .. 2 -> Seq(Event)] /\ e \in Event
    BY <2>1, <2>2 DEF Recorded, SheetTypes, Ours, InningsEvents
  <2>4. /\ Len(Append(Ours, e)) = Len(Ours) + 1 /\ Len(Ours) \in Nat
        /\ Append(Ours, e)[Len(Ours) + 1] = e
    BY <2>1, <2>3, AppendRows
  <2>5. events'[innings] = Append(Ours, e) /\ events'[3 - innings] = events[3 - innings]
    BY <2>3
  <2>6. Written(events'[1]) /\ Written(events'[2])
    <3>1. Written(Append(Ours, e))
      BY <2>2, WrittenStep
    <3>2. CASE innings = 1
      <4>1. events'[1] = Append(Ours, e) /\ events'[2] = events[2]
        BY <2>5, <3>2
      <4>2. QED
        BY <3>1, <4>1 DEF SheetInv
    <3>3. CASE innings = 2
      <4>1. events'[2] = Append(Ours, e) /\ events'[1] = events[1]
        BY <2>5, <3>3
      <4>2. QED
        BY <3>1, <4>1 DEF SheetInv
    <3>4. QED
      BY <2>3, <3>2, <3>3
  <2>7. CASE innings' = innings
    <3>1. Ours' = Append(Ours, e)
      BY <2>5, <2>7 DEF Ours, InningsEvents
    <3>2. Ours'[Len(Ours')] = e
      BY <2>4, <3>1
    <3>3. innings' = 1 => events'[2] = <<>>
      BY <2>5, <2>7 DEF SheetInv
    <3>4. e.striker # e.other /\ e.striker # NoPlayer /\ e.other # NoPlayer
      <4>1. innings \in 1 .. 2
        BY <2>3
      <4>2. {pick.striker, pick.other} \subseteq Players \ {NoPlayer} /\ pick.striker # pick.other
        BY <2>1, <4>1, Squads DEF SheetTypes, Batting
      <4>3. QED
        BY <2>2, <4>2 DEF Recorded
    <3>5. e.wicket = "none" \/ Summary(Ours)'.wickets < Wickets => Chosen(e)
      <4>1. SUFFICES ASSUME AllOut(e) PROVE ~(e.wicket = "none") /\ ~(Summary(Ours)'.wickets < Wickets)
        BY <2>2, <2>3, <2>7 DEF Recorded
      <4>2. Summary(Ours)' = Summary(Append(Ours, e))
        BY <3>1 DEF Summary, Position, Places, Total, Number, CountsAsWicket
      <4>3. Summary(Append(Ours, e)).wickets = Summary(Ours).wickets + 1
        BY <2>1, <2>3, <4>1, SummaryOfAppend DEF AllOut
      <4>4. Summary(Ours).wickets \in Nat /\ Wickets \in Nat
        BY <2>1, SummaryTyped, KeypadAssumption
      <4>5. QED
        BY <4>1, <4>2, <4>3, <4>4 DEF AllOut, CountsAsWicket
    <3>6. Selected(e)'
      BY <3>4, <3>5 DEF Selected, Chosen
    <3>7. QED
      BY <1>1, <2>6, <3>2, <3>3, <3>6 DEF SheetInv
  <2>8. CASE innings = 1 /\ innings' = 2
    <3>1. Ours' = <<>>
      BY <2>5, <2>8 DEF SheetInv, Ours, InningsEvents
    <3>2. QED
      BY <1>1, <2>6, <2>8, <3>1 DEF SheetInv
  <2>9. QED
    BY <2>2, <2>7, <2>8 DEF Recorded
<1>3. CASE MoveToSecondInnings
  <2>1. innings = 1 /\ innings' = 2 /\ events' = events
    BY <1>3 DEF MoveToSecondInnings
  <2>2. Ours' = <<>>
    BY <2>1 DEF SheetInv, Ours, InningsEvents
  <2>3. QED
    BY <1>1, <2>1, <2>2 DEF SheetInv
<1>4. ASSUME NEW target \in Targets, Revise(target)
      PROVE  SheetInv'
  <2>1. events' = events /\ innings' = innings /\ pick' = pick
    BY <1>4 DEF Revise
  <2>2. Ours' = Ours
    BY <2>1 DEF Ours, InningsEvents
  <2>3. Summary(Ours)' = Summary(Ours)
    BY <2>2 DEF Summary, Position, Places, Total, Number, CountsAsWicket
  <2>4. QED
    BY <1>1, <2>1, <2>2, <2>3 DEF SheetInv, Selected
<1>5. CASE UNCHANGED vars
  <2>1. events' = events /\ innings' = innings /\ pick' = pick
    BY <1>5 DEF vars
  <2>2. Ours' = Ours
    BY <2>1 DEF Ours, InningsEvents
  <2>3. Summary(Ours)' = Summary(Ours)
    BY <2>2 DEF Summary, Position, Places, Total, Number, CountsAsWicket
  <2>4. QED
    BY <1>1, <2>1, <2>2, <2>3 DEF SheetInv, Selected
<1>6. QED
  BY <1>2, <1>3, <1>4, <1>5 DEF Next

\* The invariant holds before the first delivery.
LEMMA SheetInit == Init => SheetInv
<1> SUFFICES ASSUME Init PROVE SheetInv
  OBVIOUS
<1>1. SheetTypes
  BY InitTypes
<1>2. events[1] = <<>> /\ events[2] = <<>> /\ innings = 1
  BY DEF Init
<1>3. Written(<<>>)
  BY DEF Written
<1>4. Ours = <<>>
  BY <1>2 DEF Ours, InningsEvents
<1>5. QED
  BY <1>1, <1>2, <1>3, <1>4 DEF SheetInv

\* The types, how the deliveries of the innings were written, and how the
\* selected players follow from the last of them.
LEMMA SheetInvariant == Spec => []SheetInv
BY SheetInit, SheetStep, PTL DEF Spec

\* So it is with either innings, and with the one that is played.
LEMMA InningsWritten ==
    ASSUME SheetInv, NEW i \in 1 .. 2
    PROVE  InningsEvents(i) \in Seq(Event) /\ Written(InningsEvents(i))
<1>1. i = 1 \/ i = 2
  OBVIOUS
<1>2. QED
  BY <1>1, InningsTyped DEF SheetInv, InningsEvents

LEMMA OursWritten ==
    ASSUME SheetInv
    PROVE  Ours \in Seq(Event) /\ Written(Ours)
BY OursTyped DEF SheetInv, SheetTypes, Ours, InningsEvents

-----------------------------------------------------------------------------
(* Bowlers *)

\* The runs a bowler is charged with on the scorecard.
Conceded(rows) == [i \in DOMAIN rows |-> ServerConceded(rows[i])]

\* Any deliveries cost what the three programs charge for them, and dead balls
\* cost nothing.
LEMMA ConcededRead ==
    ASSUME NEW rows \in Seq(Event), NEW own \in SUBSET DOMAIN rows
    PROVE  /\ Total(rows, own, ScreenConceded) = SumFunctionOnSet(Conceded(rows), own)
           /\ Total(rows, own, SiteConceded) = SumFunctionOnSet(Conceded(rows), own)
           /\ Total(rows, own, ServerConceded) = SumFunctionOnSet(Conceded(rows), own)
           /\ Total(rows, {i \in own : ~rows[i].dead}, ServerConceded) = SumFunctionOnSet(Conceded(rows), own)
           /\ Total(rows, own, TableConceded)
                = SumFunctionOnSet(Conceded(rows), own) + Total(rows, own, RunOffNoBall)
           /\ SumFunctionOnSet(Conceded(rows), own) \in Nat
<1> DEFINE v == Conceded(rows)
           screen == [i \in DOMAIN rows |-> ScreenConceded(rows[i])]
           site == [i \in DOMAIN rows |-> SiteConceded(rows[i])]
           table == [i \in DOMAIN rows |-> TableConceded(rows[i])]
           rest == [i \in DOMAIN rows |-> RunOffNoBall(rows[i])]
           live == {i \in own : ~rows[i].dead}
<1>1. /\ Total(rows, own, ScreenConceded) = SumFunctionOnSet(screen, own)
      /\ Total(rows, own, SiteConceded) = SumFunctionOnSet(site, own)
      /\ Total(rows, own, ServerConceded) = SumFunctionOnSet(v, own)
      /\ Total(rows, live, ServerConceded) = SumFunctionOnSet(v, live)
      /\ Total(rows, own, TableConceded) = SumFunctionOnSet(table, own)
      /\ Total(rows, own, RunOffNoBall) = SumFunctionOnSet(rest, own)
  BY DEF Total, Conceded
<1>2. IsFiniteSet(own)
  BY RowsFacts
<1>3. ASSUME NEW i \in own
      PROVE  /\ v[i] \in Nat /\ rest[i] \in Nat
             /\ screen[i] = v[i] /\ site[i] = v[i] /\ table[i] = v[i] + rest[i]
             /\ rows[i].dead => v[i] = 0
  <2>1. i \in DOMAIN rows /\ rows[i] \in Event
    BY RowsFacts
  <2>2. /\ ServerConceded(rows[i]) \in Nat /\ RunOffNoBall(rows[i]) \in Nat
        /\ ScreenConceded(rows[i]) = ServerConceded(rows[i]) /\ SiteConceded(rows[i]) = ServerConceded(rows[i])
        /\ TableConceded(rows[i]) = ServerConceded(rows[i]) + RunOffNoBall(rows[i])
        /\ rows[i].dead => ServerConceded(rows[i]) = 0
    BY <2>1, Readings
  <2>3. QED
    BY <2>1, <2>2 DEF Conceded
<1> HIDE DEF v, screen, site, table, rest
<1>4. SumFunctionOnSet(screen, own) = SumFunctionOnSet(v, own)
  <2>1. (\A i \in own : v[i] \in Int) /\ (\A i \in own : screen[i] = v[i])
    BY <1>3
  <2>2. QED
    BY <1>2, <2>1, SumSame
<1>5. SumFunctionOnSet(site, own) = SumFunctionOnSet(v, own)
  <2>1. (\A i \in own : v[i] \in Int) /\ (\A i \in own : site[i] = v[i])
    BY <1>3
  <2>2. QED
    BY <1>2, <2>1, SumSame
<1>6. SumFunctionOnSet(table, own) = SumFunctionOnSet(v, own) + SumFunctionOnSet(rest, own)
  <2>1. \A i \in own : v[i] \in Int /\ rest[i] \in Int /\ table[i] = v[i] + rest[i]
    BY <1>3
  <2>2. QED
    BY <1>2, <2>1, SumPlus
<1>7. SumFunctionOnSet(v, live) = SumFunctionOnSet(v, own)
  <2>1. \A i \in own : v[i] \in Int /\ (rows[i].dead => v[i] = 0)
    BY <1>3
  <2>2. QED
    BY <2>1, SumOfLive
<1>8. SumFunctionOnSet(v, own) \in Nat
  <2>1. \A i \in own : v[i] \in Nat
    BY <1>3
  <2>2. QED
    BY <1>2, <2>1, SumNat
<1>9. QED
  BY <1>1, <1>4, <1>5, <1>6, <1>7, <1>8 DEF v

\* The balls, the runs and the wickets of a bowler, in three programs.
LEMMA BowlerRead ==
    ASSUME NEW rows \in Seq(Event), NEW b
    PROVE  LET off == OfficialBowler(rows, b)
               screen == ScreenBowler(rows, b)
               site == SiteBowler(rows, b)
           IN  /\ off.balls = screen.balls /\ off.balls = site.balls
               /\ off.wickets = screen.wickets /\ off.wickets = site.wickets
               /\ off.runs = screen.runs /\ off.runs = site.runs
               /\ off.runs = SumFunctionOnSet(Conceded(rows), By(rows, b))
               /\ Total(rows, By(rows, b), TableConceded)
                    = off.runs + Total(rows, By(rows, b), RunOffNoBall)
<1> DEFINE own == By(rows, b)
           live == {i \in own : ~rows[i].dead}
<1>1. own \in SUBSET DOMAIN rows
  BY DEF By
<1>2. \A i \in own : rows[i] \in Event
  BY <1>1, RowsFacts
<1>3. \A i \in own : /\ (Counts(rows[i]) <=> rows[i].legal)
                    /\ (rows[i].dead => ~CreditsBowler(rows[i]) /\ ~rows[i].legal)
  BY <1>2, Counted
<1>4. /\ {i \in live : rows[i].legal} = {i \in own : Counts(rows[i])}
      /\ {i \in live : CreditsBowler(rows[i])} = {i \in own : CreditsBowler(rows[i])}
  BY <1>3
<1>5. /\ OfficialBowler(rows, b).balls = Cardinality({i \in live : rows[i].legal})
      /\ ScreenBowler(rows, b).balls = Cardinality({i \in own : Counts(rows[i])})
      /\ SiteBowler(rows, b).balls = Cardinality({i \in own : Counts(rows[i])})
      /\ OfficialBowler(rows, b).wickets = Cardinality({i \in live : CreditsBowler(rows[i])})
      /\ ScreenBowler(rows, b).wickets = Cardinality({i \in own : CreditsBowler(rows[i])})
      /\ SiteBowler(rows, b).wickets = Cardinality({i \in own : CreditsBowler(rows[i])})
  BY DEF OfficialBowler, ScreenBowler, SiteBowler, Number
<1>6. /\ OfficialBowler(rows, b).runs = Total(rows, live, ServerConceded)
      /\ ScreenBowler(rows, b).runs = Total(rows, own, ScreenConceded)
      /\ SiteBowler(rows, b).runs = Total(rows, own, SiteConceded)
  BY DEF OfficialBowler, ScreenBowler, SiteBowler
<1>7. /\ Total(rows, own, ScreenConceded) = SumFunctionOnSet(Conceded(rows), own)
      /\ Total(rows, own, SiteConceded) = SumFunctionOnSet(Conceded(rows), own)
      /\ Total(rows, live, ServerConceded) = SumFunctionOnSet(Conceded(rows), own)
      /\ Total(rows, own, TableConceded)
           = SumFunctionOnSet(Conceded(rows), own) + Total(rows, own, RunOffNoBall)
  BY <1>1, ConcededRead
<1>8. /\ OfficialBowler(rows, b).balls = ScreenBowler(rows, b).balls
      /\ OfficialBowler(rows, b).balls = SiteBowler(rows, b).balls
      /\ OfficialBowler(rows, b).wickets = ScreenBowler(rows, b).wickets
      /\ OfficialBowler(rows, b).wickets = SiteBowler(rows, b).wickets
  BY <1>4, <1>5
<1> HIDE DEF live
<1>9. QED
  BY <1>6, <1>7, <1>8

\* What no bowler is charged with is byes, leg byes and penalty runs.
LEMMA ChargedSum ==
    ASSUME NEW rows \in Seq(Event)
    PROVE  Summary(rows).runs
             = SumFunction([b \in BowlersOf(rows) |-> OfficialBowler(rows, b).runs])
                 + OfficialExtras(rows).byes + OfficialExtras(rows).legByes + Awarded(rows)
<1> DEFINE D == DOMAIN rows
           v == Conceded(rows)
           byes == [i \in D |-> Byes(rows[i])]
           legByes == [i \in D |-> LegByes(rows[i])]
           awarded == [i \in D |-> rows[i].forBatting]
           two == [i \in D |-> ServerConceded(rows[i]) + Byes(rows[i])]
           three == [i \in D |-> ServerConceded(rows[i]) + Byes(rows[i]) + LegByes(rows[i])]
           runs == [i \in D |-> EventRuns(rows[i])]
           key == [i \in D |-> rows[i].bowler]
           P == BowlersOf(rows)
           W == [b \in P |-> OfficialBowler(rows, b).runs]
<1>1. /\ Summary(rows).runs = SumFunctionOnSet(runs, D)
      /\ OfficialExtras(rows).byes = SumFunctionOnSet(byes, D)
      /\ OfficialExtras(rows).legByes = SumFunctionOnSet(legByes, D)
      /\ Awarded(rows) = SumFunctionOnSet(awarded, D)
  BY DEF Summary, OfficialExtras, Awarded, Total
<1>2. IsFiniteSet(D)
  BY RowsFacts
<1>3. ASSUME NEW i \in D
      PROVE  /\ v[i] \in Nat /\ byes[i] \in Nat /\ legByes[i] \in Nat /\ awarded[i] \in Nat
             /\ two[i] = v[i] + byes[i] /\ two[i] \in Nat
             /\ three[i] = two[i] + legByes[i] /\ three[i] \in Nat
             /\ runs[i] = three[i] + awarded[i]
  <2>1. rows[i] \in Event
    BY RowsFacts
  <2>2. /\ ServerConceded(rows[i]) \in Nat /\ Byes(rows[i]) \in Nat /\ LegByes(rows[i]) \in Nat
        /\ EventRuns(rows[i])
             = ServerConceded(rows[i]) + Byes(rows[i]) + LegByes(rows[i]) + rows[i].forBatting
        /\ rows[i].forBatting \in Nat
    BY <2>1, Readings, EventFacts
  <2>3. QED
    BY <2>2 DEF Conceded
<1>4. P = Keys(rows, key) /\ \A b \in P : Group(rows, key, b) = By(rows, b)
  BY DEF BowlersOf, Names, Keys, Group, By
<1>5. W = Grouped(rows, key, v)
  <2>1. \A b \in P : W[b] = SumFunctionOnSet(v, Group(rows, key, b))
    <3>1. ASSUME NEW b \in P
          PROVE  W[b] = SumFunctionOnSet(v, Group(rows, key, b))
      <4>1. W[b] = OfficialBowler(rows, b).runs
        OBVIOUS
      <4>2. OfficialBowler(rows, b).runs = SumFunctionOnSet(v, By(rows, b))
        BY BowlerRead
      <4>3. Group(rows, key, b) = By(rows, b)
        BY <1>4
      <4> HIDE DEF v, W, key
      <4>4. QED
        BY <4>1, <4>2, <4>3
    <3>2. QED
      BY <3>1
  <2>2. W = [b \in P |-> W[b]]
    OBVIOUS
  <2>3. P = Keys(rows, key)
    BY <1>4
  <2> HIDE DEF P, key, v, W
  <2>4. W = [b \in Keys(rows, key) |-> SumFunctionOnSet(v, Group(rows, key, b))]
    BY <2>1, <2>2, <2>3
  <2>5. QED
    BY <2>4 DEF Grouped
<1> HIDE DEF v, byes, legByes, awarded, two, three, runs, key, W, P
<1>6. SumFunction(W) = SumFunctionOnSet(v, D)
  <2>1. \A i \in DOMAIN rows : v[i] \in Int
    BY <1>3
  <2>2. SumFunction(Grouped(rows, key, v)) = SumFunctionOnSet(v, DOMAIN rows)
    BY <2>1, GroupedSum
  <2>3. QED
    BY <1>5, <2>2
<1> HIDE DEF D
<1>7. SumFunctionOnSet(two, D) = SumFunctionOnSet(v, D) + SumFunctionOnSet(byes, D)
  <2>1. \A i \in D : v[i] \in Int /\ byes[i] \in Int /\ two[i] = v[i] + byes[i]
    BY <1>3
  <2>2. QED
    BY <1>2, <2>1, SumPlus
<1>8. SumFunctionOnSet(three, D) = SumFunctionOnSet(two, D) + SumFunctionOnSet(legByes, D)
  <2>1. \A i \in D : two[i] \in Int /\ legByes[i] \in Int /\ three[i] = two[i] + legByes[i]
    BY <1>3
  <2>2. QED
    BY <1>2, <2>1, SumPlus
<1>9. SumFunctionOnSet(runs, D) = SumFunctionOnSet(three, D) + SumFunctionOnSet(awarded, D)
  <2>1. \A i \in D : three[i] \in Int /\ awarded[i] \in Int /\ runs[i] = three[i] + awarded[i]
    BY <1>3
  <2>2. QED
    BY <1>2, <2>1, SumPlus
<1>10. Summary(rows).runs
         = SumFunction(W) + OfficialExtras(rows).byes + OfficialExtras(rows).legByes + Awarded(rows)
  BY <1>1, <1>6, <1>7, <1>8, <1>9
<1>11. QED
  BY <1>10 DEF W, P

-----------------------------------------------------------------------------
(* Overs, when the umpire ends none *)

\* The legal deliveries of an over among the first k.
LegalIn(rows, o, k) == {i \in 1 .. k : rows[i].legal /\ rows[i].over = o}

\* Without a call the over ends with its last legal ball.
LEMMA AfterNormal ==
    ASSUME NEW p \in PlaceRow, NEW e \in Event, e.call = "none"
    PROVE  /\ ~e.legal => After(p, e) = p
           /\ e.legal /\ p.balls + 1 = BallsPerOver => After(p, e) = [over |-> p.over + 1, balls |-> 0]
           /\ e.legal /\ p.balls + 1 # BallsPerOver => After(p, e) = [over |-> p.over, balls |-> p.balls + 1]
<1>1. e.legal => ~e.dead
  BY Counted
<1>2. p.over \in Nat /\ p.balls \in Nat /\ p = [over |-> p.over, balls |-> p.balls]
  BY DEF PlaceRow
<1>3. CASE ~e.legal
  <2>1. ~ClosesOver(e, p.balls)
    BY <1>3 DEF ClosesOver
  <2>2. After(p, e) = [p EXCEPT !.balls = p.balls]
    BY <1>3, <2>1 DEF After
  <2>3. [p EXCEPT !.balls = p.balls] = p
    BY DEF PlaceRow
  <2>4. QED
    BY <1>3, <2>2, <2>3
<1>4. CASE e.legal /\ p.balls + 1 = BallsPerOver
  <2>1. ClosesOver(e, p.balls + 1)
    BY <1>1, <1>4 DEF ClosesOver
  <2>2. QED
    BY <1>4, <2>1 DEF After
<1>5. CASE e.legal /\ p.balls + 1 # BallsPerOver
  <2>1. ~ClosesOver(e, p.balls + 1)
    BY <1>5 DEF ClosesOver
  <2>2. After(p, e) = [p EXCEPT !.balls = p.balls + 1]
    BY <1>5, <2>1 DEF After
  <2>3. QED
    BY <1>5, <2>2 DEF PlaceRow
<1>6. QED
  BY <1>3, <1>4, <1>5

\* After the first k deliveries the overs before are full, none has more than its
\* legal balls, and the one that is bowled has as many as its place says.
OversFill(rows, k) ==
    LET place == Places(rows)[k]
    IN  /\ place.balls < BallsPerOver
        /\ \A i \in 0 .. k : Places(rows)[i].over <= place.over
        /\ Cardinality(LegalIn(rows, place.over, k)) = place.balls
        /\ \A o \in Nat : Cardinality(LegalIn(rows, o, k)) <= BallsPerOver

\* When the umpire rules no end, the legal deliveries of an over fill it up to
\* where the innings has come.
LEMMA OversFilled ==
    ASSUME NEW rows \in Seq(Event), Written(rows), Normal(rows)
    PROVE  \A k \in 0 .. Len(rows) : OversFill(rows, k)
<1> DEFINE N == Len(rows)
           P == Places(rows)
           L(o, k) == LegalIn(rows, o, k)
           T == {k \in 0 .. N : OversFill(rows, k)}
<1>1. N \in Nat /\ BallsPerOver \in Nat \ {0}
  BY KeypadAssumption
<1>2. P \in [0 .. N -> PlaceRow] /\ P[0] = [over |-> 0, balls |-> 0] /\ \A k \in 1 .. N : P[k] = After(P[k - 1], rows[k])
  BY PlacesFacts
<1>3. \A k \in 1 .. N : rows[k] \in Event /\ rows[k].call = "none" /\ rows[k].over = P[k - 1].over
  <2>1. DOMAIN rows = 1 .. N
    OBVIOUS
  <2>2. QED
    BY <2>1, RowsFacts DEF Normal, Written
<1>4. \A o, k : IsFiniteSet(1 .. N) /\ (k \in 0 .. N => L(o, k) \in SUBSET (1 .. k))
  BY <1>1, FS_Interval DEF LegalIn
<1>5. 0 \in T
  <2>1. \A o : L(o, 0) = {}
    BY DEF LegalIn
  <2>2. Cardinality({}) = 0
    BY FS_EmptySet
  <2>3. \A i \in 0 .. 0 : i = 0
    OBVIOUS
  <2> HIDE DEF L
  <2>4. /\ P[0].balls < BallsPerOver /\ Cardinality(L(P[0].over, 0)) = P[0].balls
        /\ \A o \in Nat : Cardinality(L(o, 0)) <= BallsPerOver
        /\ \A i \in 0 .. 0 : P[i].over <= P[0].over
    BY <1>1, <1>2, <2>1, <2>2, <2>3
  <2>5. QED
    BY <1>1, <2>4 DEF OversFill, L
<1>6. ASSUME NEW k \in 1 .. N, k - 1 \in T
      PROVE  k \in T
  <2> DEFINE n == k - 1
             p == P[n]
             q == P[k]
             e == rows[k]
  <2>1. n \in 0 .. N /\ n \in Nat /\ k = n + 1 /\ k \in 0 .. N
    BY <1>1
  <2>2. /\ p.balls < BallsPerOver
        /\ \A i \in 0 .. n : P[i].over <= p.over
        /\ Cardinality(L(p.over, n)) = p.balls
        /\ \A o \in Nat : Cardinality(L(o, n)) <= BallsPerOver
    BY <1>6 DEF OversFill
  <2>3. p \in PlaceRow /\ q \in PlaceRow /\ q = After(p, e)
    BY <1>2, <2>1
  <2>4. e \in Event /\ e.call = "none" /\ e.over = p.over /\ e.legal \in BOOLEAN
    BY <1>3, EventFacts
  <2>5. p.over \in Nat /\ p.balls \in Nat /\ q.over \in Nat /\ q.balls \in Nat
    BY <2>3 DEF PlaceRow
  <2>6. \A o : L(o, k) = IF e.legal /\ o = p.over THEN L(o, n) \cup {n + 1} ELSE L(o, n)
    <3> SUFFICES ASSUME NEW o PROVE L(o, k) = IF e.legal /\ o = p.over THEN L(o, n) \cup {n + 1} ELSE L(o, n)
      OBVIOUS
    <3>1. \A i : i \in 1 .. k <=> i \in 1 .. n \/ i = k
      BY <2>1
    <3> HIDE DEF p
    <3>2. CASE e.legal /\ o = p.over
      BY <2>1, <2>4, <3>1, <3>2 DEF LegalIn
    <3>3. CASE ~(e.legal /\ o = p.over)
      BY <2>1, <2>4, <3>1, <3>3 DEF LegalIn
    <3>4. QED
      BY <3>2, <3>3
  <2>7. \A o : /\ Cardinality(L(o, k)) = Cardinality(L(o, n)) + (IF e.legal /\ o = p.over THEN 1 ELSE 0)
               /\ Cardinality(L(o, n)) \in Nat
    <3> SUFFICES ASSUME NEW o
                 PROVE  /\ Cardinality(L(o, k)) = Cardinality(L(o, n)) + (IF e.legal /\ o = p.over THEN 1 ELSE 0)
                        /\ Cardinality(L(o, n)) \in Nat
      OBVIOUS
    <3> DEFINE c == e.legal /\ o = p.over
               s == L(o, n)
               t == L(o, k)
    <3>1. s \in SUBSET (1 .. n) /\ c \in BOOLEAN /\ t = IF c THEN s \cup {n + 1} ELSE s
      BY <1>4, <2>1, <2>4, <2>6
    <3> HIDE DEF c, s, t, n
    <3>2. Cardinality(t) = Cardinality(s) + (IF c THEN 1 ELSE 0) /\ Cardinality(s) \in Nat
      BY <2>1, <3>1, CountOfAppend
    <3>3. QED
      BY <3>2 DEF c, s, t
  <2>8. \A i \in 0 .. k : i \in 0 .. n \/ i = k
    BY <2>1
  <2> HIDE DEF P, L, n, p, q, e
  <2>13. ASSUME NEW o \in Nat
         PROVE  Cardinality(L(o, k)) <= BallsPerOver
    <3> DEFINE a == Cardinality(L(o, n))
               b == Cardinality(L(o, k))
    <3>1. a \in Nat /\ a <= BallsPerOver /\ (o = p.over => a = p.balls)
      BY <2>2, <2>7
    <3>2. b = a + (IF e.legal /\ o = p.over THEN 1 ELSE 0)
      BY <2>7
    <3> HIDE DEF a, b
    <3>3. CASE o = p.over
      BY <1>1, <2>2, <2>5, <3>1, <3>2, <3>3 DEF b
    <3>4. CASE o # p.over
      BY <1>1, <3>1, <3>2, <3>4 DEF b
    <3>5. QED
      BY <3>3, <3>4
  <2>9. CASE ~e.legal
    <3>1. q = p
      BY <2>3, <2>4, <2>9, AfterNormal
    <3>2. \A o : Cardinality(L(o, k)) = Cardinality(L(o, n))
      BY <2>7, <2>9
    <3>3. \A i \in 0 .. k : P[i].over <= q.over
      BY <2>2, <2>5, <2>8, <3>1 DEF q
    <3>4. QED
      BY <2>1, <2>2, <3>1, <3>2, <3>3 DEF T, OversFill, P, L, q
  <2>10. CASE e.legal /\ p.balls + 1 = BallsPerOver
    <3>1. q = [over |-> p.over + 1, balls |-> 0]
      BY <2>3, <2>4, <2>10, AfterNormal
    <3>2. \A i \in 0 .. k : P[i].over <= q.over
      <4>1. \A i \in 0 .. n : P[i].over \in Nat
        <5>1. \A i \in 0 .. n : i \in 0 .. N
          BY <1>1, <2>1
        <5>2. \A i \in 0 .. n : P[i] \in PlaceRow
          BY <1>2, <5>1
        <5>3. QED
          BY <5>2 DEF PlaceRow
      <4>2. q.over = p.over + 1
        BY <3>1
      <4>3. ASSUME NEW i \in 0 .. k
            PROVE  P[i].over <= q.over
        <5>1. CASE i = k
          BY <2>5, <5>1 DEF q
        <5>2. CASE i \in 0 .. n
          BY <2>2, <2>5, <4>1, <4>2, <5>2
        <5>3. QED
          BY <2>8, <5>1, <5>2
      <4>4. QED
        BY <4>3
    <3>3. Cardinality(L(q.over, k)) = 0
      <4>1. ASSUME NEW i \in L(q.over, k)
            PROVE  FALSE
        <5>1. i \in 1 .. k /\ rows[i].over = p.over + 1
          BY <3>1 DEF L, LegalIn
        <5>2. i \in 1 .. N /\ i - 1 \in 0 .. n
          BY <2>1, <5>1
        <5>3. rows[i].over = P[i - 1].over
          BY <1>3, <5>2 DEF P
        <5>4. P[i - 1].over <= p.over
          BY <2>2, <5>2
        <5>5. QED
          BY <2>5, <5>1, <5>3, <5>4
      <4>2. L(q.over, k) = {}
        BY <4>1
      <4>3. QED
        BY <4>2, FS_EmptySet
    <3>4. \A o \in Nat : Cardinality(L(o, k)) <= BallsPerOver
      BY <2>13
    <3>5. q.balls = 0
      BY <3>1
    <3>6. QED
      BY <1>1, <2>1, <3>2, <3>3, <3>4, <3>5 DEF T, OversFill, P, L, q
  <2>11. CASE e.legal /\ p.balls + 1 # BallsPerOver
    <3>1. q = [over |-> p.over, balls |-> p.balls + 1]
      BY <2>3, <2>4, <2>11, AfterNormal
    <3>2. q.over = p.over /\ q.balls = p.balls + 1
      BY <3>1
    <3>3. \A i \in 0 .. k : P[i].over <= q.over
      BY <2>2, <2>5, <2>8, <3>2 DEF q
    <3>4. Cardinality(L(q.over, k)) = q.balls /\ q.balls < BallsPerOver
      <4>1. Cardinality(L(p.over, k)) = Cardinality(L(p.over, n)) + 1
        BY <2>7, <2>11
      <4>2. Cardinality(L(q.over, k)) = q.balls
        BY <2>2, <3>2, <4>1
      <4>3. QED
        BY <1>1, <2>2, <2>5, <2>11, <3>2, <4>2
    <3>5. \A o \in Nat : Cardinality(L(o, k)) <= BallsPerOver
      BY <2>13
    <3>6. QED
      BY <2>1, <3>3, <3>4, <3>5 DEF T, OversFill, P, L, q
  <2>12. QED
    BY <2>9, <2>10, <2>11
<1> HIDE DEF T
<1>7. \A k \in 0 .. N : k \in T
  <2> HIDE DEF N
  <2>1. QED
    BY <1>1, <1>5, <1>6, UpTo
<1>8. QED
  BY <1>7 DEF T

\* The deliveries of one over bowled by anybody are never more legal balls than
\* an over has, and the over is over with the last of them.
LEMMA OverEnds ==
    ASSUME NEW rows \in Seq(Event), Written(rows), Normal(rows), NEW i \in 1 .. Len(rows),
           NEW s \in SUBSET LegalIn(rows, rows[i].over, i), Cardinality(s) = BallsPerOver
    PROVE  \A j \in 1 .. Len(rows) : i < j => rows[j].over # rows[i].over
<1> DEFINE N == Len(rows)
           P == Places(rows)
           o == rows[i].over
<1>1. N \in Nat /\ BallsPerOver \in Nat \ {0} /\ i \in 0 .. N /\ i - 1 \in 0 .. i
  BY KeypadAssumption
<1>2. OversFill(rows, i)
  BY <1>1, OversFilled
<1>3. o = P[i - 1].over
  BY DEF Written
<1>4. o # P[i].over
  <2> SUFFICES ASSUME o = P[i].over PROVE FALSE
    OBVIOUS
  <2>1. Cardinality(LegalIn(rows, o, i)) = P[i].balls /\ P[i].balls < BallsPerOver
    BY <1>2 DEF OversFill
  <2>2. IsFiniteSet(LegalIn(rows, o, i))
    <3>1. IsFiniteSet(1 .. i) /\ LegalIn(rows, o, i) \in SUBSET (1 .. i)
      BY <1>1, FS_Interval DEF LegalIn
    <3>2. QED
      BY <3>1, FS_Subset
  <2>3. Cardinality(s) <= Cardinality(LegalIn(rows, o, i)) /\ Cardinality(LegalIn(rows, o, i)) \in Nat
    BY <2>2, FS_Subset, FS_CardinalityType
  <2>4. QED
    BY <1>1, <2>1, <2>3
<1>5. P \in [0 .. N -> PlaceRow]
  BY PlacesFacts
<1>6. P[i - 1].over <= P[i].over
  BY <1>1, <1>2 DEF OversFill
<1>7. ASSUME NEW j \in 1 .. N, i < j
      PROVE  rows[j].over # o
  <2>1. j - 1 \in 0 .. N /\ i \in 0 .. j - 1
    BY <1>1, <1>7
  <2>2. P[i].over <= P[j - 1].over
    BY <2>1, OversFilled DEF OversFill
  <2>3. rows[j].over = P[j - 1].over
    BY DEF Written
  <2>4. P[i].over \in Nat /\ P[i - 1].over \in Nat /\ P[j - 1].over \in Nat
    <3>1. i - 1 \in 0 .. N
      BY <1>1
    <3>2. P[i] \in PlaceRow /\ P[i - 1] \in PlaceRow /\ P[j - 1] \in PlaceRow
      BY <1>1, <1>5, <2>1, <3>1
    <3>3. QED
      BY <3>2 DEF PlaceRow
  <2> HIDE DEF P, o
  <2>5. QED
    BY <1>3, <1>4, <1>6, <2>2, <2>3, <2>4
<1>8. QED
  BY <1>7

-----------------------------------------------------------------------------
(* Maidens *)

\* The deliveries of a bowler in an over, and a maiden: all its legal balls are
\* the bowler's and nothing was charged.
OwnIn(rows, b, o) == InOver(rows, By(rows, b), o)
LegalOf(rows, at) == {i \in at : rows[i].legal}
Maiden(rows, b, o) ==
    /\ Cardinality(LegalOf(rows, OwnIn(rows, b, o))) = BallsPerOver
    /\ SumFunctionOnSet(Conceded(rows), OwnIn(rows, b, o)) = 0
Maidens(rows, b) == {o \in {rows[i].over : i \in By(rows, b)} : Maiden(rows, b, o)}

\* What Counts counts.
LEMMA LegalCounted ==
    ASSUME NEW rows \in Seq(Event), NEW at \in SUBSET DOMAIN rows
    PROVE  /\ Number(rows, at, Counts) = Cardinality(LegalOf(rows, at))
           /\ Number(rows, at, LAMBDA e : e.legal) = Cardinality(LegalOf(rows, at))
           /\ IsFiniteSet(LegalOf(rows, at)) /\ Cardinality(LegalOf(rows, at)) \in Nat
           /\ LegalOf(rows, {i \in at : ~rows[i].dead}) = LegalOf(rows, at)
<1>1. \A i \in at : rows[i] \in Event
  BY RowsFacts
<1>2. \A i \in at : (Counts(rows[i]) <=> rows[i].legal) /\ (rows[i].dead => ~rows[i].legal)
  BY <1>1, Counted
<1>3. {i \in at : Counts(rows[i])} = LegalOf(rows, at)
  BY <1>2 DEF LegalOf
<1>4. LegalOf(rows, {i \in at : ~rows[i].dead}) = LegalOf(rows, at)
  BY <1>2 DEF LegalOf
<1>5. LegalOf(rows, at) \in SUBSET DOMAIN rows
  BY DEF LegalOf
<1>6. IsFiniteSet(LegalOf(rows, at))
  BY <1>5, RowsFacts
<1>7. Number(rows, at, Counts) = Cardinality({i \in at : Counts(rows[i])})
  BY DEF Number
<1>8. Number(rows, at, LAMBDA e : e.legal) = Cardinality(LegalOf(rows, at))
  BY DEF Number, LegalOf
<1>9. QED
  BY <1>3, <1>4, <1>6, <1>7, <1>8, FS_CardinalityType

\* The screen counts those overs as maidens.
LEMMA ScreenMaidens ==
    ASSUME NEW rows \in Seq(Event), NEW b
    PROVE  ScreenBowler(rows, b).maidens = Cardinality(Maidens(rows, b))
<1> DEFINE own == By(rows, b)
           IsMaiden(o) == /\ Number(rows, InOver(rows, own, o), Counts) = BallsPerOver
                          /\ Total(rows, InOver(rows, own, o), ScreenConceded) = 0
           overs == {rows[i].over : i \in own}
<1>1. ScreenBowler(rows, b).maidens = Cardinality({o \in overs : IsMaiden(o)})
  BY DEF ScreenBowler
<1>2. \A o : IsMaiden(o) <=> Maiden(rows, b, o)
  <2> SUFFICES ASSUME NEW o PROVE IsMaiden(o) <=> Maiden(rows, b, o)
    OBVIOUS
  <2> DEFINE at == OwnIn(rows, b, o)
  <2>1. at \in SUBSET DOMAIN rows /\ at = InOver(rows, own, o)
    BY DEF OwnIn, InOver, By
  <2>2. Number(rows, at, Counts) = Cardinality(LegalOf(rows, at))
    BY <2>1, LegalCounted
  <2>3. Total(rows, at, ScreenConceded) = SumFunctionOnSet(Conceded(rows), at)
    BY <2>1, ConcededRead
  <2>4. /\ Number(rows, InOver(rows, own, o), Counts) = Cardinality(LegalOf(rows, at))
        /\ Total(rows, InOver(rows, own, o), ScreenConceded) = SumFunctionOnSet(Conceded(rows), at)
    BY <2>1, <2>2, <2>3
  <2>5. QED
    BY <2>4 DEF Maiden
<1> HIDE DEF IsMaiden
<1>3. {o \in overs : IsMaiden(o)} = Maidens(rows, b)
  BY <1>2 DEF Maidens
<1>4. QED
  BY <1>1, <1>3

\* The server, which takes every over of enough legal deliveries, counts the same.
LEMMA OfficialMaidens ==
    ASSUME NEW rows \in Seq(Event), Written(rows), Normal(rows), NEW b
    PROVE  OfficialBowler(rows, b).maidens = Cardinality(Maidens(rows, b))
<1> DEFINE own == By(rows, b)
           live == {i \in own : ~rows[i].dead}
           IsMaiden(o) == /\ Number(rows, InOver(rows, live, o), LAMBDA e : e.legal) >= BallsPerOver
                          /\ Total(rows, InOver(rows, live, o), ServerConceded) = 0
           overs == {rows[i].over : i \in own}
           lives == {rows[i].over : i \in live}
<1>1. OfficialBowler(rows, b).maidens = Cardinality({o \in lives : IsMaiden(o)})
  BY DEF OfficialBowler
<1>2. BallsPerOver \in Nat \ {0} /\ Len(rows) \in Nat /\ DOMAIN rows = 1 .. Len(rows)
  BY KeypadAssumption
<1>3. own \in SUBSET DOMAIN rows
  BY DEF By
<1>4. \A i \in own : rows[i].over \in Nat
  <2>1. \A i \in own : rows[i] \in Event
    BY <1>3, RowsFacts
  <2>2. QED
    BY <2>1, EventFacts
<1>5. ASSUME NEW o \in overs
      PROVE  /\ IsMaiden(o) <=> Maiden(rows, b, o)
             /\ Maiden(rows, b, o) => o \in lives
  <2> DEFINE at == OwnIn(rows, b, o)
             n == Cardinality(LegalOf(rows, at))
  <2>1. /\ at \in SUBSET DOMAIN rows /\ InOver(rows, live, o) = {i \in at : ~rows[i].dead}
        /\ InOver(rows, live, o) \in SUBSET DOMAIN rows
    BY <1>3 DEF OwnIn, InOver
  <2>2. Number(rows, InOver(rows, live, o), LAMBDA e : e.legal) = n
    <3>1. Number(rows, InOver(rows, live, o), LAMBDA e : e.legal)
            = Cardinality(LegalOf(rows, InOver(rows, live, o)))
      BY <2>1, LegalCounted
    <3>2. LegalOf(rows, {i \in at : ~rows[i].dead}) = LegalOf(rows, at)
      BY <2>1, LegalCounted
    <3>3. QED
      BY <2>1, <3>1, <3>2
  <2>3. Total(rows, InOver(rows, live, o), ServerConceded) = SumFunctionOnSet(Conceded(rows), at)
    <3>1. Total(rows, {i \in at : ~rows[i].dead}, ServerConceded) = SumFunctionOnSet(Conceded(rows), at)
      BY <2>1, ConcededRead
    <3>2. QED
      BY <2>1, <3>1
  <2>4. n <= BallsPerOver /\ n \in Nat
    <3> DEFINE all == LegalIn(rows, o, Len(rows))
    <3>1. LegalOf(rows, at) \in SUBSET all
      BY <1>2, <1>3 DEF LegalOf, LegalIn, OwnIn, InOver
    <3>2. o \in Nat
      BY <1>4
    <3>3. Cardinality(all) <= BallsPerOver
      <4>1. Len(rows) \in 0 .. Len(rows)
        BY <1>2
      <4>2. OversFill(rows, Len(rows))
        BY <4>1, OversFilled
      <4>3. QED
        BY <3>2, <4>2 DEF OversFill
    <3>4. all \in SUBSET DOMAIN rows
      BY <1>2 DEF LegalIn
    <3>5. IsFiniteSet(all)
      BY <3>4, RowsFacts
    <3>6. Cardinality(LegalOf(rows, at)) <= Cardinality(all) /\ Cardinality(all) \in Nat
      BY <3>1, <3>5, FS_Subset, FS_CardinalityType
    <3>7. Cardinality(LegalOf(rows, at)) \in Nat
      BY <2>1, LegalCounted
    <3> HIDE DEF all, at
    <3>8. QED
      BY <1>2, <3>3, <3>6, <3>7
  <2>5. Maiden(rows, b, o) = (n = BallsPerOver /\ SumFunctionOnSet(Conceded(rows), at) = 0)
    BY DEF Maiden
  <2>6. Maiden(rows, b, o) => o \in lives
    <3> SUFFICES ASSUME Maiden(rows, b, o) PROVE o \in lives
      OBVIOUS
    <3>1. n # 0
      BY <1>2, <2>5
    <3>2. LegalOf(rows, at) # {}
      BY <3>1, FS_EmptySet
    <3>3. PICK i \in LegalOf(rows, at) : TRUE
      BY <3>2
    <3>4. i \in own /\ rows[i].legal /\ rows[i].over = o
      BY <3>3 DEF LegalOf, OwnIn, InOver
    <3>5. rows[i] \in Event
      BY <1>3, <3>4, RowsFacts
    <3>6. ~rows[i].dead
      BY <3>4, <3>5, Counted
    <3>7. QED
      BY <3>4, <3>6
  <2>7. IsMaiden(o) <=> Maiden(rows, b, o)
    <3> HIDE DEF n, at
    <3>1. (n >= BallsPerOver) <=> (n = BallsPerOver)
      BY <1>2, <2>4
    <3>2. IsMaiden(o) <=> (n >= BallsPerOver /\ SumFunctionOnSet(Conceded(rows), at) = 0)
      BY <2>2, <2>3
    <3>3. QED
      BY <2>5, <3>1, <3>2
  <2>8. QED
    BY <2>6, <2>7
<1>6. lives \subseteq overs
  OBVIOUS
<1> HIDE DEF IsMaiden
<1>7. {o \in lives : IsMaiden(o)} = {o \in overs : Maiden(rows, b, o)}
  <2> HIDE DEF lives, overs
  <2>1. QED
    BY <1>5, <1>6
<1>8. Maidens(rows, b) = {o \in overs : Maiden(rows, b, o)}
  BY DEF Maidens
<1>9. QED
  BY <1>1, <1>7, <1>8

\* A set of places has a last one.
LEMMA LastPlace ==
    ASSUME NEW N \in Nat, NEW s \in SUBSET (1 .. N), s # {}
    PROVE  \E i \in s : \A j \in s : j <= i
<1> DEFINE T == {N - i : i \in s}
<1>1. T \in SUBSET Nat /\ T # {}
  <2>1. \A i \in s : N - i \in Nat
    OBVIOUS
  <2>2. PICK i \in s : TRUE
    OBVIOUS
  <2>3. N - i \in T
    OBVIOUS
  <2>4. T \in SUBSET Nat
    BY <2>1
  <2>5. QED
    BY <2>3, <2>4
<1>2. PICK m \in T : \A k \in T : m =< k
  <2> HIDE DEF T
  <2>1. QED
    BY <1>1, LeastNumber
<1>3. PICK i \in s : m = N - i
  OBVIOUS
<1>4. ASSUME NEW j \in s PROVE j <= i
  <2>1. N - j \in T
    OBVIOUS
  <2>2. N - i <= N - j
    BY <1>2, <1>3, <2>1
  <2>3. i \in 1 .. N /\ j \in 1 .. N
    OBVIOUS
  <2>4. QED
    BY <2>2, <2>3
<1>5. QED
  BY <1>4

\* The website counts a maiden once, at the last legal ball of its over.
LEMMA SiteMaidens ==
    ASSUME NEW rows \in Seq(Event), Written(rows), Normal(rows), NEW b
    PROVE  SiteBowler(rows, b).maidens = Cardinality(Maidens(rows, b))
<1> DEFINE own == By(rows, b)
           Before(i) == InOver(rows, own, rows[i].over) \cap 1 .. i
           Final(i) == Counts(rows[i]) /\ Number(rows, Before(i), Counts) = BallsPerOver
           S == {i \in own : Final(i) /\ Total(rows, Before(i), SiteConceded) = 0}
           M == Maidens(rows, b)
           N == Len(rows)
           f == [i \in S |-> rows[i].over]
<1>1. SiteBowler(rows, b).maidens = Cardinality({i \in own : /\ Counts(rows[i])
                                              /\ Number(rows, Before(i), Counts) = BallsPerOver
                                              /\ Total(rows, Before(i), SiteConceded) = 0})
  BY DEF SiteBowler
<1>2. SiteBowler(rows, b).maidens = Cardinality(S)
  <2>1. S = {i \in own : /\ Counts(rows[i])
                         /\ Number(rows, Before(i), Counts) = BallsPerOver
                         /\ Total(rows, Before(i), SiteConceded) = 0}
    <3> HIDE DEF Before
    <3>1. QED
      OBVIOUS
  <2> HIDE DEF S
  <2>2. QED
    BY <1>1, <2>1
<1>3. DOMAIN rows = 1 .. N /\ N \in Nat /\ own \in SUBSET (1 .. N) /\ BallsPerOver \in Nat \ {0}
  BY KeypadAssumption DEF By
<1>4. \A i \in own : rows[i] \in Event /\ (Counts(rows[i]) <=> rows[i].legal)
  <2>1. \A i \in own : rows[i] \in Event
    BY <1>3, RowsFacts
  <2>2. QED
    BY <2>1, Counted
<1>5. ASSUME NEW i \in own, Number(rows, Before(i), Counts) = BallsPerOver
      PROVE  /\ Before(i) = OwnIn(rows, b, rows[i].over)
             /\ \A j \in own : i < j => rows[j].over # rows[i].over
  <2> DEFINE s == LegalOf(rows, Before(i))
  <2>1. Before(i) \in SUBSET DOMAIN rows
    BY <1>3 DEF InOver
  <2>2. Cardinality(s) = BallsPerOver
    <3> HIDE DEF Before
    <3>1. QED
      BY <1>5, <2>1, LegalCounted
  <2>3. s \in SUBSET LegalIn(rows, rows[i].over, i)
    BY <1>3 DEF LegalOf, LegalIn, InOver
  <2>4. i \in 1 .. N
    BY <1>3
  <2> HIDE DEF s
  <2>5. \A j \in 1 .. N : i < j => rows[j].over # rows[i].over
    BY <2>2, <2>3, <2>4, OverEnds
  <2>6. \A j \in own : i < j => rows[j].over # rows[i].over
    BY <1>3, <2>5
  <2>7. \A j \in InOver(rows, own, rows[i].over) : j \in 1 .. i
    <3>1. \A j \in InOver(rows, own, rows[i].over) : j \in own /\ rows[j].over = rows[i].over
      BY DEF InOver
    <3>2. \A j \in own : rows[j].over = rows[i].over => j \in 1 .. i
      BY <1>3, <2>4, <2>6
    <3>3. QED
      BY <3>1, <3>2
  <2>8. Before(i) = OwnIn(rows, b, rows[i].over)
    <3> HIDE DEF own
    <3>1. Before(i) = InOver(rows, own, rows[i].over)
      BY <2>7
    <3>2. QED
      BY <3>1 DEF OwnIn, own
  <2>9. QED
    BY <2>6, <2>8
<1>6. ASSUME NEW i \in own, Final(i)
      PROVE  i \in S <=> Maiden(rows, b, rows[i].over)
  <2> DEFINE at == OwnIn(rows, b, rows[i].over)
  <2>1. Before(i) = at
    BY <1>5, <1>6
  <2>2. at \in SUBSET DOMAIN rows
    BY DEF OwnIn, InOver, By
  <2>3. Number(rows, at, Counts) = Cardinality(LegalOf(rows, at)) /\ Total(rows, at, SiteConceded) = SumFunctionOnSet(Conceded(rows), at)
    BY <2>2, LegalCounted, ConcededRead
  <2>4. i \in S <=> Total(rows, Before(i), SiteConceded) = 0
    <3> HIDE DEF Final, Before
    <3>1. QED
      BY <1>6
  <2>5. Number(rows, Before(i), Counts) = BallsPerOver
    BY <1>6
  <2> HIDE DEF Before, at, S, Final
  <2>6. Number(rows, at, Counts) = BallsPerOver /\ (i \in S <=> Total(rows, at, SiteConceded) = 0)
    BY <2>1, <2>4, <2>5
  <2>7. Maiden(rows, b, rows[i].over) = (Cardinality(LegalOf(rows, at)) = BallsPerOver /\ SumFunctionOnSet(Conceded(rows), at) = 0)
    BY DEF Maiden, at
  <2>8. QED
    BY <2>3, <2>6, <2>7
<1>7. \A i \in S : i \in own /\ Final(i)
  <2> HIDE DEF Final, Before
  <2>1. QED
    OBVIOUS
<1>8. f \in [S -> M]
  <2>1. ASSUME NEW i \in S
        PROVE  rows[i].over \in M
    <3>1. i \in own /\ Final(i)
      BY <1>7
    <3> HIDE DEF S, Final
    <3>2. Maiden(rows, b, rows[i].over)
      BY <1>6, <3>1
    <3>3. QED
      BY <3>1, <3>2 DEF Maidens
  <2> HIDE DEF S, M
  <2>2. QED
    BY <2>1
<1>9. ASSUME NEW i \in S, NEW j \in S, f[i] = f[j]
      PROVE  i = j
  <2>1. i \in own /\ Final(i) /\ j \in own /\ Final(j) /\ rows[i].over = rows[j].over
    <3>1. f[i] = rows[i].over /\ f[j] = rows[j].over
      <4> HIDE DEF S
      <4>1. QED
        OBVIOUS
    <3>2. QED
      BY <1>7, <1>9, <3>1
  <2>2. ~(i < j) /\ ~(j < i)
    BY <1>5, <2>1
  <2>3. i \in Nat /\ j \in Nat
    BY <1>3, <2>1
  <2>4. QED
    BY <2>2, <2>3
<1>10. ASSUME NEW o \in M
       PROVE  \E i \in S : f[i] = o
  <2> DEFINE at == OwnIn(rows, b, o)
             G == LegalOf(rows, at)
  <2>1. Maiden(rows, b, o)
    BY DEF Maidens
  <2>2. Cardinality(G) = BallsPerOver
    BY <2>1 DEF Maiden
  <2>3. G # {} /\ G \in SUBSET (1 .. N)
    <3>1. G # {}
      BY <1>3, <2>2, FS_EmptySet
    <3>2. QED
      BY <1>3, <3>1 DEF LegalOf, OwnIn, InOver
  <2>4. PICK i \in G : \A j \in G : j <= i
    <3> HIDE DEF G
    <3>1. QED
      BY <1>3, <2>3, LastPlace
  <2>5. i \in own /\ rows[i].legal /\ rows[i].over = o /\ i \in 1 .. N
    BY <1>3 DEF LegalOf, OwnIn, InOver
  <2>6. LegalOf(rows, Before(i)) = G
    <3>1. \A j \in G : j \in 1 .. i
      BY <2>3, <2>4, <1>3
    <3>2. Before(i) = at \cap 1 .. i
      BY <2>5 DEF OwnIn
    <3>3. LegalOf(rows, at \cap 1 .. i) = G \cap 1 .. i
      BY DEF LegalOf
    <3> HIDE DEF G, at, Before
    <3>4. QED
      BY <3>1, <3>2, <3>3
  <2>7. Before(i) \in SUBSET DOMAIN rows
    BY <1>3 DEF InOver
  <2>8. Number(rows, Before(i), Counts) = BallsPerOver
    <3>1. Number(rows, Before(i), Counts) = Cardinality(LegalOf(rows, Before(i)))
      <4> HIDE DEF Before
      <4>1. QED
        BY <2>7, LegalCounted
    <3>2. QED
      BY <2>2, <2>6, <3>1
  <2>9. Final(i)
    BY <1>4, <2>5, <2>8
  <2>10. i \in S
    <3> HIDE DEF S, Final
    <3>1. Maiden(rows, b, rows[i].over)
      BY <2>1, <2>5
    <3>2. QED
      BY <1>6, <2>5, <2>9, <3>1
  <2>11. f[i] = o
    <3> HIDE DEF S
    <3>1. QED
      BY <2>5, <2>10
  <2> HIDE DEF f, S
  <2>12. QED
    BY <2>10, <2>11
<1>11. IsFiniteSet(S)
  <2>1. S \in SUBSET DOMAIN rows
    <3> HIDE DEF Final, Before
    <3>1. QED
      BY <1>3
  <2> HIDE DEF S
  <2>2. QED
    BY <2>1, RowsFacts
<1> HIDE DEF S, M, f
<1>12. f \in Bijection(S, M)
  BY <1>8, <1>9, <1>10 DEF Bijection, Injection, Surjection, IsInjective
<1>13. ExistsBijection(S, M)
  BY <1>12 DEF ExistsBijection
<1>14. Cardinality(M) = Cardinality(S)
  BY <1>11, <1>13, FS_Bijection
<1>15. QED
  BY <1>2, <1>14 DEF M

\* A bowler has the same figures on the official scorecard, in the summary of an
\* over and on the website (_finalize_live_score, figuresForBowler,
\* computeMiniDashboard).
THEOREM BowlersHaveTheSameFigures == Spec => []BowlersAccounted
<1>1. SheetInv => BowlersAccounted
  <2> SUFFICES ASSUME NEW rows \in Seq(Event), Written(rows) PROVE BowlersAddUp(rows)
    BY InningsWritten DEF BowlersAccounted
  <2> DEFINE Same(r, s) == \A x \in {"balls", "runs", "wickets"} : r[x] = s[x]
  <2>1. rows \in Seq(Event) /\ Written(rows)
    OBVIOUS
  <2>2. ASSUME NEW b \in BowlersOf(rows)
        PROVE  /\ Same(OfficialBowler(rows, b), ScreenBowler(rows, b))
               /\ Same(OfficialBowler(rows, b), SiteBowler(rows, b))
               /\ Total(rows, By(rows, b), TableConceded)
                    = OfficialBowler(rows, b).runs + Total(rows, By(rows, b), RunOffNoBall)
    <3>1. /\ OfficialBowler(rows, b).balls = ScreenBowler(rows, b).balls
          /\ OfficialBowler(rows, b).balls = SiteBowler(rows, b).balls
          /\ OfficialBowler(rows, b).wickets = ScreenBowler(rows, b).wickets
          /\ OfficialBowler(rows, b).wickets = SiteBowler(rows, b).wickets
          /\ OfficialBowler(rows, b).runs = ScreenBowler(rows, b).runs
          /\ OfficialBowler(rows, b).runs = SiteBowler(rows, b).runs
          /\ Total(rows, By(rows, b), TableConceded)
               = OfficialBowler(rows, b).runs + Total(rows, By(rows, b), RunOffNoBall)
      BY <2>1, BowlerRead
    <3>2. QED
      BY <3>1
  <2>3. ASSUME NEW b \in BowlersOf(rows), Normal(rows)
        PROVE  Cardinality({F.maidens : F \in {OfficialBowler(rows, b),
                                     ScreenBowler(rows, b), SiteBowler(rows, b)}}) = 1
    <3> DEFINE m == Cardinality(Maidens(rows, b))
    <3>1. OfficialBowler(rows, b).maidens = m /\ ScreenBowler(rows, b).maidens = m /\ SiteBowler(rows, b).maidens = m
      BY <2>1, <2>3, OfficialMaidens, ScreenMaidens, SiteMaidens
    <3>2. {F.maidens : F \in {OfficialBowler(rows, b), ScreenBowler(rows, b), SiteBowler(rows, b)}} = {m}
      <4> HIDE DEF m
      <4>1. QED
        BY <3>1
    <3>3. QED
      BY <3>2, FS_Singleton
  <2>4. Summary(rows).runs
             = SumFunction([b \in BowlersOf(rows) |-> OfficialBowler(rows, b).runs])
                 + OfficialExtras(rows).byes + OfficialExtras(rows).legByes
                 + Total(rows, DOMAIN rows, LAMBDA e : e.forBatting)
    <3>1. Awarded(rows) = Total(rows, DOMAIN rows, LAMBDA e : e.forBatting)
      BY DEF Awarded
    <3>2. QED
      BY <2>1, <3>1, ChargedSum
  <2>5. QED
    BY <2>2, <2>3, <2>4 DEF BowlersAddUp
<1>2. QED
  BY <1>1, SheetInvariant, PTL

-----------------------------------------------------------------------------
(* Who faces next *)

\* A number of balls is a number of full overs when the last over is full.
LEMMA OverMultiple ==
    ASSUME NEW n \in Nat \ {0}, NEW o \in Nat, NEW c \in 1 .. n
    PROVE  (n * o + c) % n = 0 <=> c = n
OBVIOUS

\* One over more.
LEMMA NextOver ==
    ASSUME NEW n \in Nat \ {0}, NEW o \in Nat
    PROVE  n * (o + 1) = n * o + n /\ n * o \in Nat /\ n * 0 = 0
OBVIOUS

\* The legal balls of the first k deliveries are those of full overs and those
\* of the over that is bowled.
Legals(rows, k) == {i \in 1 .. k : rows[i].legal}

\* So the place says how many legal balls were bowled.
LEMMA LegalsPlaced ==
    ASSUME NEW rows \in Seq(Event), Written(rows), Normal(rows)
    PROVE  \A k \in 0 .. Len(rows) :
              Cardinality(Legals(rows, k)) = BallsPerOver * Places(rows)[k].over + Places(rows)[k].balls
<1> DEFINE N == Len(rows)
           P == Places(rows)
           L(k) == Legals(rows, k)
           T == {k \in 0 .. N : Cardinality(L(k)) = BallsPerOver * P[k].over + P[k].balls}
<1>1. N \in Nat /\ BallsPerOver \in Nat \ {0}
  BY KeypadAssumption
<1>2. P \in [0 .. N -> PlaceRow] /\ P[0] = [over |-> 0, balls |-> 0] /\ \A k \in 1 .. N : P[k] = After(P[k - 1], rows[k])
  BY PlacesFacts
<1>3. \A k \in 1 .. N : rows[k] \in Event /\ rows[k].call = "none"
  <2>1. DOMAIN rows = 1 .. N
    OBVIOUS
  <2>2. QED
    BY <2>1, RowsFacts DEF Normal
<1>4. 0 \in T
  <2>1. L(0) = {}
    BY DEF Legals
  <2>2. Cardinality(L(0)) = 0
    BY <2>1, FS_EmptySet
  <2>3. P[0].over = 0 /\ P[0].balls = 0
    BY <1>2
  <2>4. BallsPerOver * 0 = 0
    BY <1>1, NextOver
  <2> HIDE DEF L, P
  <2>5. QED
    BY <1>1, <2>2, <2>3, <2>4
<1>5. ASSUME NEW k \in 1 .. N, k - 1 \in T
      PROVE  k \in T
  <2> DEFINE n == k - 1
             p == P[n]
             q == P[k]
             e == rows[k]
             full == BallsPerOver * p.over
  <2>1. n \in 0 .. N /\ n \in Nat /\ k = n + 1 /\ k \in 0 .. N
    BY <1>1
  <2>2. Cardinality(L(n)) = full + p.balls
    BY <1>5
  <2>3. p \in PlaceRow /\ q \in PlaceRow /\ q = After(p, e)
    BY <1>2, <2>1
  <2>4. e \in Event /\ e.call = "none" /\ e.legal \in BOOLEAN
    BY <1>3, EventFacts
  <2>5. p.over \in Nat /\ p.balls \in Nat
    BY <2>3 DEF PlaceRow
  <2>6. L(k) = IF e.legal THEN L(n) \cup {n + 1} ELSE L(n)
    <3>1. \A i : i \in 1 .. k <=> i \in 1 .. n \/ i = k
      BY <2>1
    <3>2. CASE e.legal
      BY <2>1, <3>1, <3>2 DEF Legals
    <3>3. CASE ~e.legal
      BY <2>1, <3>1, <3>3 DEF Legals
    <3>4. QED
      BY <3>2, <3>3
  <2>7. Cardinality(L(k)) = Cardinality(L(n)) + (IF e.legal THEN 1 ELSE 0) /\ Cardinality(L(n)) \in Nat
    <3> DEFINE s == L(n)
               t == L(k)
               c == e.legal
    <3>1. s \in SUBSET (1 .. n) /\ c \in BOOLEAN /\ t = IF c THEN s \cup {n + 1} ELSE s
      BY <2>4, <2>6 DEF Legals
    <3> HIDE DEF c, s, t, n
    <3>2. Cardinality(t) = Cardinality(s) + (IF c THEN 1 ELSE 0) /\ Cardinality(s) \in Nat
      BY <2>1, <3>1, CountOfAppend
    <3>3. QED
      BY <3>2 DEF c, s, t
  <2>8. full \in Nat /\ BallsPerOver * (p.over + 1) = full + BallsPerOver
    <3> HIDE DEF p
    <3>1. QED
      BY <1>1, <2>5, NextOver
  <2> HIDE DEF P, L, n, p, q, e, full
  <2>9. CASE ~e.legal
    <3>1. q = p
      BY <2>3, <2>4, <2>9, AfterNormal
    <3>2. Cardinality(L(k)) = BallsPerOver * q.over + q.balls
      BY <2>2, <2>7, <2>9, <3>1 DEF full
    <3>3. QED
      BY <2>1, <3>2 DEF q
  <2>10. CASE e.legal /\ p.balls + 1 = BallsPerOver
    <3>1. q = [over |-> p.over + 1, balls |-> 0]
      BY <2>3, <2>4, <2>10, AfterNormal
    <3>2. BallsPerOver * q.over + q.balls = full + BallsPerOver
      BY <1>1, <2>8, <3>1
    <3>3. Cardinality(L(k)) = full + p.balls + 1
      BY <2>2, <2>5, <2>7, <2>8, <2>10
    <3>4. Cardinality(L(k)) = BallsPerOver * q.over + q.balls
      BY <1>1, <2>5, <2>8, <2>10, <3>2, <3>3
    <3>5. QED
      BY <2>1, <3>4 DEF q
  <2>11. CASE e.legal /\ p.balls + 1 # BallsPerOver
    <3>1. q = [over |-> p.over, balls |-> p.balls + 1]
      BY <2>3, <2>4, <2>11, AfterNormal
    <3>2. BallsPerOver * q.over + q.balls = full + (p.balls + 1)
      BY <3>1 DEF full
    <3>3. Cardinality(L(k)) = full + (p.balls + 1)
      BY <2>2, <2>5, <2>7, <2>8, <2>11
    <3>4. Cardinality(L(k)) = BallsPerOver * q.over + q.balls
      BY <3>2, <3>3
    <3>5. QED
      BY <2>1, <3>4 DEF q
  <2>12. QED
    BY <2>9, <2>10, <2>11
<1> HIDE DEF T
<1>6. \A k \in 0 .. N : k \in T
  <2> HIDE DEF N
  <2>1. QED
    BY <1>1, <1>4, <1>5, UpTo
<1>7. QED
  BY <1>6 DEF T

\* The website ends an over at the last of its legal balls, as the screen does.
LEMMA OverEndsShown ==
    ASSUME NEW rows \in Seq(Event), Written(rows), Normal(rows), rows # <<>>
    PROVE  LET e == rows[Len(rows)]
               legal == Number(rows, DOMAIN rows, Counts)
           IN  (Counts(e) /\ legal > 0 /\ legal % BallsPerOver = 0)
                 <=> (~e.dead /\ (e.call = "end" \/ (e.legal /\ e.call # "go" /\ e.ball = BallsPerOver)))
<1> DEFINE N == Len(rows)
           n == N - 1
           P == Places(rows)
           e == rows[N]
           legal == Number(rows, DOMAIN rows, Counts)
           p == P[n]
           L == Legals(rows, N)
<1>1. N \in Nat /\ BallsPerOver \in Nat \ {0} /\ N # 0 /\ DOMAIN rows = 1 .. N
  BY KeypadAssumption
<1>2. N \in 1 .. N /\ n \in 0 .. N /\ N \in 0 .. N
  BY <1>1
<1>3. e \in Event /\ e.call = "none" /\ e.ball = p.balls + 1
  BY <1>1, <1>2, RowsFacts DEF Normal, Written
<1>4. (Counts(e) <=> e.legal) /\ (e.legal => ~e.dead)
  BY <1>3, Counted
<1>5. legal = Cardinality(L)
  <2>1. Number(rows, DOMAIN rows, Counts) = Cardinality(LegalOf(rows, DOMAIN rows))
    BY LegalCounted
  <2>2. LegalOf(rows, DOMAIN rows) = L
    BY <1>1 DEF LegalOf, Legals
  <2>3. QED
    BY <2>1, <2>2
<1>6. OversFill(rows, n) /\ P[n] \in PlaceRow /\ P[N] \in PlaceRow /\ P[N] = After(P[n], e)
  BY <1>2, OversFilled, PlacesFacts
<1>7. p.balls < BallsPerOver /\ p.over \in Nat /\ p.balls \in Nat
  BY <1>6 DEF OversFill, PlaceRow
<1>8. Cardinality(L) = BallsPerOver * P[N].over + P[N].balls
  BY <1>2, LegalsPlaced
<1>9. e.legal => Cardinality(L) = BallsPerOver * p.over + (p.balls + 1)
  <2> SUFFICES ASSUME e.legal PROVE Cardinality(L) = BallsPerOver * p.over + (p.balls + 1)
    OBVIOUS
  <2>1. BallsPerOver * (p.over + 1) = BallsPerOver * p.over + BallsPerOver /\ BallsPerOver * p.over \in Nat
    <3> HIDE DEF p
    <3>1. QED
      BY <1>1, <1>7, NextOver
  <2> DEFINE full == BallsPerOver * p.over
             q == P[N]
  <2>2. full \in Nat /\ BallsPerOver * (p.over + 1) = full + BallsPerOver
    BY <2>1
  <2>3. q = After(p, e) /\ p \in PlaceRow /\ Cardinality(L) = BallsPerOver * q.over + q.balls
    BY <1>6, <1>8
  <2> HIDE DEF P, p, e, full, L, q
  <2>4. CASE p.balls + 1 = BallsPerOver
    <3>1. q = [over |-> p.over + 1, balls |-> 0]
      BY <1>3, <2>3, <2>4, AfterNormal
    <3>2. Cardinality(L) = full + BallsPerOver
      BY <1>1, <2>2, <2>3, <3>1
    <3>3. QED
      BY <2>4, <3>2 DEF full
  <2>5. CASE p.balls + 1 # BallsPerOver
    <3>1. q = [over |-> p.over, balls |-> p.balls + 1]
      BY <1>3, <2>3, <2>5, AfterNormal
    <3>2. QED
      BY <2>3, <3>1 DEF full
  <2>6. QED
    BY <2>4, <2>5
<1>10. CASE e.legal
  <2> DEFINE o == p.over
             c == p.balls + 1
  <2>1. o \in Nat /\ c \in 1 .. BallsPerOver /\ legal = BallsPerOver * o + c
    BY <1>1, <1>5, <1>7, <1>9, <1>10
  <2> HIDE DEF o, c, legal
  <2>2. BallsPerOver * o \in Nat
    BY <1>1, <2>1, NextOver
  <2>3. legal > 0
    BY <2>1, <2>2
  <2>4. legal % BallsPerOver = 0 <=> c = BallsPerOver
    BY <1>1, <2>1, OverMultiple
  <2>5. e.ball = c
    BY <1>3 DEF c
  <2> HIDE DEF e
  <2>6. QED
    BY <1>3, <1>4, <1>10, <2>3, <2>4, <2>5 DEF legal, e
<1>11. CASE ~e.legal
  <2>1. ~Counts(e) /\ e.call # "end"
    BY <1>3, <1>4, <1>11
  <2>2. QED
    BY <1>11, <2>1
<1>12. QED
  BY <1>10, <1>11

-----------------------------------------------------------------------------
(* Batters who come in *)

\* Sides of more players than the wickets that end an innings.
FullSides == \A i \in 1 .. 2 : Len(Sides[i]) > Wickets

\* Somebody came in for a batter who was out at the crease, while the innings goes on.
Replaced ==
    Ours # <<>> /\ Summary(Ours).wickets < Wickets =>
        LET e == Ours[Len(Ours)]
        IN  CountsAsWicket(e) /\ e.out \in {e.striker, e.other} => e.next # NoPlayer

\* Two batters and those who are out are not the whole side before the last wicket.
LEMMA SomebodyIsLeft ==
    ASSUME FullSides, SheetInv, Summary(Ours).wickets < Wickets - 1, NEW out \in {pick.striker, pick.other}
    PROVE  NewBatters(out) # {}
<1> DEFINE rows == Ours
           W == {k \in DOMAIN rows : CountsAsWicket(rows[k])}
           f == [k \in W |-> rows[k].out]
           s == Sides[innings]
           crease == {pick.striker, pick.other}
<1>1. rows \in Seq(Event) /\ innings \in 1 .. 2
  BY OursTyped DEF SheetInv, SheetTypes
<1>2. W \in SUBSET DOMAIN rows
  OBVIOUS
<1>3. IsFiniteSet(W)
  BY <1>1, <1>2, RowsFacts
<1>4. Cardinality(W) = Summary(rows).wickets /\ Cardinality(W) \in Nat
  BY <1>3, FS_CardinalityType DEF Summary, Number
<1>5. f \in Surjection(W, OutBatters)
  BY DEF Surjection, OutBatters
<1>6. IsFiniteSet(OutBatters) /\ Cardinality(OutBatters) <= Cardinality(W)
  <2> HIDE DEF f, W
  <2>1. QED
    BY <1>3, <1>5, FS_Surjection
<1>7. IsFiniteSet(crease) /\ Cardinality(crease) <= 2 /\ Cardinality(crease) \in Nat
  <2>1. IsFiniteSet({pick.striker}) /\ Cardinality({pick.striker}) = 1
    BY FS_Singleton
  <2>2. crease = {pick.striker} \cup {pick.other}
    OBVIOUS
  <2> HIDE DEF crease
  <2>3. IsFiniteSet(crease) /\ Cardinality(crease) = IF pick.other \in {pick.striker} THEN 1 ELSE 2
    BY <2>1, <2>2, FS_AddElement
  <2>4. QED
    BY <2>3
<1>8. IsFiniteSet(OutBatters \cup crease) /\ Cardinality(OutBatters \cup crease) <= Cardinality(OutBatters) + 2
      /\ Cardinality(OutBatters) \in Nat /\ Cardinality(OutBatters \cup crease) \in Nat
  <2> HIDE DEF crease
  <2>1. /\ IsFiniteSet(OutBatters \cup crease)
        /\ Cardinality(OutBatters \cup crease)
             = Cardinality(OutBatters) + Cardinality(crease) - Cardinality(OutBatters \cap crease)
    BY <1>6, <1>7, FS_Union
  <2>2. IsFiniteSet(OutBatters \cap crease)
    BY <1>6, FS_Subset
  <2>3. Cardinality(OutBatters) \in Nat /\ Cardinality(OutBatters \cap crease) \in Nat
        /\ Cardinality(OutBatters \cup crease) \in Nat
    BY <1>6, <2>1, <2>2, FS_CardinalityType
  <2>4. QED
    BY <1>7, <2>1, <2>3
<1>9. s \in Seq(Range(s) \ {NoPlayer}) /\ IsInjective(s) /\ Len(s) > Wickets
  BY <1>1, SidesAssumption DEF FullSides
<1>10. Cardinality(Range(s)) = Len(s) /\ IsFiniteSet(Range(s)) /\ Len(s) \in Nat
  <2> DEFINE R == Range(s)
  <2>1. DOMAIN s = 1 .. Len(s) /\ Len(s) \in Nat
    <3> DEFINE Q == Range(s) \ {NoPlayer}
    <3>1. s \in Seq(Q)
      BY <1>9
    <3> HIDE DEF Q, s
    <3>2. QED
      BY <3>1
  <2> DEFINE g == [k \in 1 .. Len(s) |-> s[k]]
  <2>2. g \in Surjection(1 .. Len(s), R)
    BY <2>1 DEF Surjection, Range
  <2>3. g \in Injection(1 .. Len(s), R)
    BY <1>9, <2>1, <2>2 DEF Surjection, Injection, IsInjective
  <2>4. IsFiniteSet(1 .. Len(s)) /\ Cardinality(1 .. Len(s)) = Len(s)
    <3> DEFINE n == Len(s)
    <3>1. n \in Nat
      BY <2>1
    <3> HIDE DEF n
    <3>2. IsFiniteSet(1 .. n) /\ Cardinality(1 .. n) = n
      BY <3>1, FS_Interval
    <3>3. QED
      BY <3>2 DEF n
  <2> HIDE DEF g, R
  <2>5. IsFiniteSet(R) /\ (Cardinality(R) = Cardinality(1 .. Len(s)) <=> g \in Injection(1 .. Len(s), R))
    BY <2>2, <2>4, FS_Surjection
  <2>6. QED
    BY <2>1, <2>3, <2>4, <2>5 DEF R
<1>11. Wickets \in Nat
  BY KeypadAssumption
<1>12. NewBatters(out) = Range(s) \ (OutBatters \cup crease)
  BY DEF NewBatters, Batting
<1> SUFFICES ASSUME NewBatters(out) = {} PROVE FALSE
  OBVIOUS
<1>13. Range(s) \in SUBSET (OutBatters \cup crease)
  BY <1>12
<1> HIDE DEF s, crease, W, rows
<1>14. Cardinality(Range(s)) <= Cardinality(OutBatters \cup crease)
  BY <1>8, <1>13, FS_Subset
<1> DEFINE a == Cardinality(W)
           b == Cardinality(OutBatters)
           c == Cardinality(OutBatters \cup crease)
           l == Len(s)
<1>15. a \in Nat /\ a < Wickets - 1
  BY <1>4 DEF rows
<1>16. b \in Nat /\ c \in Nat /\ b <= a /\ c <= b + 2
  BY <1>6, <1>8
<1>17. l \in Nat /\ l > Wickets /\ l <= c
  BY <1>9, <1>10, <1>14
<1> HIDE DEF a, b, c, l
<1>18. QED
  BY <1>11, <1>15, <1>16, <1>17

\* Whoever leaves is replaced when somebody is left.
LEMMA ReplacedStep ==
    ASSUME FullSides, SheetInv, Replaced, [Next]_vars
    PROVE  Replaced'
<1>1. ASSUME NEW d \in Keypad, NEW call \in Rulings \cup {"none"}, Record(d, call)
      PROVE  Replaced'
  <2>1. SheetTypes
    BY DEF SheetInv
  <2>2. PICK e : Recorded(e)
    BY <1>1, <2>1, RecordedStep
  <2>3. Ours \in Seq(Event) /\ e \in Event
    BY <2>1, <2>2, OursTyped DEF Recorded
  <2>4. CASE innings' = innings
    <3>1. Ours' = Append(Ours, e)
      BY <2>1, <2>2, <2>4 DEF Recorded, SheetTypes, Ours, InningsEvents
    <3>2. Ours'[Len(Ours')] = e
      BY <2>3, <3>1, AppendRows
    <3>3. Summary(Ours)'.wickets = Summary(Append(Ours, e)).wickets
      BY <3>1 DEF Summary, Position, Places
    <3>4. Summary(Append(Ours, e)).wickets = Summary(Ours).wickets + IF CountsAsWicket(e) THEN 1 ELSE 0
      BY <2>3, SummaryOfAppend
    <3>5. Summary(Ours).wickets \in Nat /\ Wickets \in Nat
      BY <2>3, SummaryTyped, KeypadAssumption
    <3>6. ASSUME CountsAsWicket(e), Summary(Ours)'.wickets < Wickets, e.out \in {e.striker, e.other}
          PROVE  e.next # NoPlayer
      <4>1. Summary(Ours).wickets < Wickets - 1
        BY <3>3, <3>4, <3>5, <3>6
      <4>2. e.out \in {pick.striker, pick.other}
        BY <2>2, <3>6 DEF Recorded
      <4>3. NewBatters(e.out) # {}
        BY <4>1, <4>2, SomebodyIsLeft
      <4>4. e.wicket # "none" /\ ~AllOut(e)
        BY <3>5, <3>6, <4>1 DEF CountsAsWicket, AllOut
      <4>5. e.next \in NewBatters(e.out)
        BY <2>2, <4>3, <4>4 DEF Recorded
      <4>6. NoPlayer \notin Range(Batting)
        <5>1. innings \in 1 .. 2
          BY <2>1 DEF SheetTypes
        <5>2. QED
          BY <5>1, Squads DEF Batting
      <4>7. QED
        BY <4>5, <4>6 DEF NewBatters
    <3>7. QED
      BY <3>2, <3>6 DEF Replaced, CountsAsWicket
  <2>5. CASE innings = 1 /\ innings' = 2
    <3>1. events' = [events EXCEPT ![1] = Append(Ours, e)] /\ events \in [1 .. 2 -> Seq(Event)]
      BY <2>1, <2>2, <2>5 DEF Recorded, SheetTypes, Ours, InningsEvents
    <3>2. Ours' = <<>>
      BY <2>5, <3>1 DEF SheetInv, Ours, InningsEvents
    <3>3. QED
      BY <3>2 DEF Replaced
  <2>6. QED
    BY <2>2, <2>4, <2>5 DEF Recorded
<1>2. CASE MoveToSecondInnings
  <2>1. innings = 1 /\ innings' = 2 /\ events' = events
    BY <1>2 DEF MoveToSecondInnings
  <2>2. Ours' = <<>>
    BY <2>1 DEF SheetInv, Ours, InningsEvents
  <2>3. QED
    BY <2>2 DEF Replaced
<1>3. ASSUME NEW target \in Targets, Revise(target)
      PROVE  Replaced'
  <2>1. events' = events /\ innings' = innings
    BY <1>3 DEF Revise
  <2>2. QED
    BY <2>1 DEF Replaced, Ours, InningsEvents, CountsAsWicket, Summary, Position, Places, Total, Number
<1>4. CASE UNCHANGED vars
  <2>1. events' = events /\ innings' = innings
    BY <1>4 DEF vars
  <2>2. QED
    BY <2>1 DEF Replaced, Ours, InningsEvents, CountsAsWicket, Summary, Position, Places, Total, Number
<1>5. QED
  BY <1>1, <1>2, <1>3, <1>4 DEF Next

\* Nobody has left before the first delivery.
LEMMA ReplacedInit == Init => Replaced
BY DEF Init, Replaced, Ours, InningsEvents

\* The website works out the pair the screen has selected.
LEMMA SamePair ==
    ASSUME SheetInv, Replaced, Ours # <<>>, Normal(Ours), ~Retired(Ours[Len(Ours)]),
           Summary(Ours).wickets < Wickets
    PROVE  SiteActiveBatters(Ours) = [striker |-> pick.striker, other |-> pick.other]
<1> DEFINE rows == Ours
           e == rows[Len(rows)]
           In(p) == IF SiteWicketCounts(e) /\ e.out = p THEN e.next ELSE p
           legal == Number(rows, DOMAIN rows, Counts)
           ends == Counts(e) /\ legal > 0 /\ legal % BallsPerOver = 0
           swap == (e.ran % 2 = 1) # ends /\ In(e.striker) # NoPlayer /\ In(e.other) # NoPlayer
           a == IF e.out = e.striker /\ e.next # NoPlayer THEN e.next ELSE e.striker
           b == IF e.out = e.other /\ e.next # NoPlayer THEN e.next ELSE e.other
           closes == ~e.dead /\ (e.call = "end" \/ (e.legal /\ e.call # "go" /\ e.ball = BallsPerOver))
           change == (e.ran % 2 = 1) # closes
<1>1. rows \in Seq(Event) /\ Written(rows)
  BY OursWritten
<1>2. Len(rows) \in DOMAIN rows /\ DOMAIN rows = 1 .. Len(rows)
  BY <1>1, RowsFacts
<1>3. e \in Event
  BY <1>1, <1>2, RowsFacts
<1>4. Selected(e)
  BY DEF SheetInv
<1>5. SiteActiveBatters(rows)
        = IF swap THEN [striker |-> In(e.other), other |-> In(e.striker)]
          ELSE [striker |-> In(e.striker), other |-> In(e.other)]
  BY DEF SiteActiveBatters, Last
<1>6. SelectionAfter(e) = IF change THEN [striker |-> b, other |-> a] ELSE [striker |-> a, other |-> b]
  BY DEF SelectionAfter
<1>7. ends <=> closes
  <2>1. rows # <<>> /\ Normal(rows)
    OBVIOUS
  <2> HIDE DEF rows
  <2>2. QED
    BY <1>1, <2>1, OverEndsShown
<1>8. e.wicket = "none" => e.out = NoPlayer /\ e.next = NoPlayer
  BY <1>1, <1>2 DEF Written
<1>9. e.wicket \in Wicket \ {"retired_hurt", "retired_not_out"}
  BY <1>3, EventFacts DEF Retired
<1>10. (SiteWicketCounts(e) <=> e.wicket # "none") /\ (CountsAsWicket(e) <=> e.wicket # "none")
  BY <1>9 DEF SiteWicketCounts, CountsAsWicket, Wicket
<1>11. e.wicket # "none" /\ e.out \in {e.striker, e.other} => e.next # NoPlayer
  BY <1>10 DEF Replaced
<1>12. /\ e.striker # e.other /\ e.striker # NoPlayer /\ e.other # NoPlayer
       /\ pick.striker = SelectionAfter(e).striker /\ pick.other = SelectionAfter(e).other
  BY <1>4 DEF Selected
<1> HIDE DEF rows, e, legal, ends, closes
<1>13. In(e.striker) = a /\ In(e.other) = b
  BY <1>8, <1>10, <1>11, <1>12
<1>14. a # NoPlayer /\ b # NoPlayer
  BY <1>12
<1> HIDE DEF In, a, b
<1>15. swap = change
  BY <1>7, <1>13, <1>14
<1> HIDE DEF swap, change
<1>16. SiteActiveBatters(rows) = SelectionAfter(e)
  BY <1>5, <1>6, <1>13, <1>15
<1>17. SelectionAfter(e) = [striker |-> pick.striker, other |-> pick.other]
  <2>1. CASE change
    BY <1>6, <1>12, <2>1
  <2>2. CASE ~change
    BY <1>6, <1>12, <2>2
  <2>3. QED
    BY <2>1, <2>2
<1>18. QED
  BY <1>16, <1>17 DEF rows

\* With full sides, the website shows the batters the screen has selected for the
\* next delivery, while the umpire changed no over, nobody retired unbeaten and the
\* side is not all out (postBallActiveBatterIds, selectionAfterEvent).
THEOREM WebsiteShowsTheBatters == FullSides => (Spec => []BattersShown)
<1> SUFFICES ASSUME FullSides PROVE Spec => []BattersShown
  OBVIOUS
<1>1. Init => SheetInv /\ Replaced
  BY SheetInit, ReplacedInit
<1>2. SheetInv /\ Replaced /\ [Next]_vars => SheetInv' /\ Replaced'
  BY SheetStep, ReplacedStep
<1>3. SheetInv /\ Replaced => BattersShown
  <2> SUFFICES ASSUME SheetInv, Replaced, Ours # <<>>, Normal(Ours), ~Retired(Last(Ours)),
                      Summary(Ours).wickets < Wickets
               PROVE  SiteActiveBatters(Ours) = [striker |-> pick.striker, other |-> pick.other]
    BY DEF BattersShown
  <2>1. ~Retired(Ours[Len(Ours)])
    BY DEF Last
  <2>2. QED
    BY <2>1, SamePair
<1>4. QED
  BY <1>1, <1>2, <1>3, PTL DEF Spec

-----------------------------------------------------------------------------
(* Partnerships *)

PairRow == [pair : SUBSET Players, runs : Nat, balls : Nat]
Folded == {acc \in [done : Seq(PairRow), open : BOOLEAN, now : PairRow] : acc.open \/ acc.now = NoPair}
NoFold == [done |-> <<>>, open |-> FALSE, now |-> NoPair]

PairRuns(s) == Total(s, DOMAIN s, LAMBDA p : p.runs)
PairBalls(s) == Total(s, DOMAIN s, LAMBDA p : p.balls)

LEMMA MovedOver ==
    ASSUME NEW a \in Nat, NEW b \in Nat, NEW f \in Nat, NEW m \in Nat, NEW n \in Nat, NEW w,
           a + f = b + m, w = f + n
    PROVE  a + w = b + m + n
OBVIOUS

\* The runs and the balls of one more partnership.
LEMMA PairAppended ==
    ASSUME NEW s \in Seq(PairRow), NEW p \in PairRow
    PROVE  /\ Append(s, p) \in Seq(PairRow) /\ Len(Append(s, p)) = Len(s) + 1 /\ Len(s) \in Nat
           /\ DOMAIN s = 1 .. Len(s) /\ DOMAIN Append(s, p) = 1 .. Len(s) + 1
           /\ \A n \in 0 .. Len(s) : Total(Append(s, p), 1 .. n, LAMBDA x : x.runs) = Total(s, 1 .. n, LAMBDA x : x.runs)
           /\ PairRuns(Append(s, p)) = PairRuns(s) + p.runs
           /\ PairBalls(Append(s, p)) = PairBalls(s) + p.balls
           /\ PairRuns(s) \in Nat /\ PairBalls(s) \in Nat
<1> DEFINE t == Append(s, p)
           n == Len(s)
           v == [i \in DOMAIN s |-> s[i].runs]
           w == [i \in DOMAIN t |-> t[i].runs]
           u == [i \in DOMAIN s |-> s[i].balls]
           x == [i \in DOMAIN t |-> t[i].balls]
<1>1. /\ t \in Seq(PairRow) /\ Len(t) = n + 1 /\ n \in Nat /\ DOMAIN s = 1 .. n /\ DOMAIN t = 1 .. n + 1
      /\ t[n + 1] = p
      /\ \A i \in 1 .. n : t[i] = s[i] /\ s[i] \in PairRow
  OBVIOUS
<1>2. /\ \A k : Total(t, 1 .. k, LAMBDA y : y.runs) = SumFunctionOnSet(w, 1 .. k)
      /\ \A k : Total(s, 1 .. k, LAMBDA y : y.runs) = SumFunctionOnSet(v, 1 .. k)
  BY DEF Total
<1>3. /\ PairRuns(t) = SumFunctionOnSet(w, DOMAIN t) /\ PairRuns(s) = SumFunctionOnSet(v, DOMAIN s)
      /\ PairBalls(t) = SumFunctionOnSet(x, DOMAIN t) /\ PairBalls(s) = SumFunctionOnSet(u, DOMAIN s)
  BY DEF PairRuns, PairBalls, Total
<1>4. p.runs \in Nat /\ p.balls \in Nat /\ \A i \in 1 .. n : s[i].runs \in Nat /\ s[i].balls \in Nat
  BY <1>1 DEF PairRow
<1>5. /\ \A i \in 1 .. n : v[i] = s[i].runs /\ w[i] = s[i].runs /\ u[i] = s[i].balls /\ x[i] = s[i].balls
      /\ w[n + 1] = p.runs /\ x[n + 1] = p.balls
  <2>1. n + 1 \in DOMAIN t /\ \A i \in 1 .. n : i \in DOMAIN s /\ i \in DOMAIN t
    BY <1>1
  <2> HIDE DEF t, n
  <2>2. QED
    BY <1>1, <2>1
<1> HIDE DEF t, n, v, w, u, x
<1>6. /\ \A i \in 1 .. n : v[i] \in Nat
      /\ \A i \in 1 .. n : u[i] \in Nat
      /\ \A i \in 1 .. n : w[i] = v[i]
      /\ \A i \in 1 .. n : x[i] = u[i]
  BY <1>4, <1>5
<1>7. w[n + 1] \in Int /\ x[n + 1] \in Int
  BY <1>4, <1>5
<1>8. SumFunctionOnSet(w, 1 .. n + 1) = SumFunctionOnSet(v, 1 .. n) + w[n + 1]
  <2>1. \A i \in 1 .. n : v[i] \in Int
    BY <1>6
  <2>2. QED
    BY <1>1, <1>6, <1>7, <2>1, SumOfAppend
<1>9. SumFunctionOnSet(x, 1 .. n + 1) = SumFunctionOnSet(u, 1 .. n) + x[n + 1]
  <2>1. \A i \in 1 .. n : u[i] \in Int
    BY <1>6
  <2>2. QED
    BY <1>1, <1>6, <1>7, <2>1, SumOfAppend
<1>10. IsFiniteSet(1 .. n)
  BY <1>1, FS_Interval
<1>11. SumFunctionOnSet(v, 1 .. n) \in Nat /\ SumFunctionOnSet(u, 1 .. n) \in Nat
  BY <1>6, <1>10, SumNat
<1>12. \A k \in 0 .. n : SumFunctionOnSet(w, 1 .. k) = SumFunctionOnSet(v, 1 .. k)
  <2> SUFFICES ASSUME NEW k \in 0 .. n PROVE SumFunctionOnSet(w, 1 .. k) = SumFunctionOnSet(v, 1 .. k)
    OBVIOUS
  <2>1. IsFiniteSet(1 .. k)
    BY <1>1, FS_Interval
  <2>2. \A i \in 1 .. k : i \in 1 .. n
    BY <1>1
  <2>3. (\A i \in 1 .. k : v[i] \in Int) /\ (\A i \in 1 .. k : w[i] = v[i])
    BY <1>6, <2>2
  <2>4. QED
    BY <2>1, <2>3, SumSame
<1>13. QED
  BY <1>1, <1>2, <1>3, <1>5, <1>8, <1>9, <1>11, <1>12 DEF t, n

\* What a delivery adds to the partnerships, whether it ends one or not.
Grown(acc, e, res) ==
    /\ res \in Folded
    /\ res.open <=> ~SiteWicketCounts(e)
    /\ PairRuns(res.done) + res.now.runs = PairRuns(acc.done) + acc.now.runs + EventRuns(e)
    /\ PairBalls(res.done) + res.now.balls = PairBalls(acc.done) + acc.now.balls + IF e.legal THEN 1 ELSE 0

\* A delivery for the pair that is in, or the first of a pair.
Joined(acc, e, now, res) ==
    /\ now \in PairRow /\ now.pair \subseteq Players
    /\ now.runs = acc.now.runs + EventRuns(e)
    /\ now.balls = acc.now.balls + IF e.legal THEN 1 ELSE 0
    /\ SiteWicketCounts(e) => res = [done |-> Append(acc.done, now), open |-> FALSE, now |-> NoPair]
    /\ ~SiteWicketCounts(e) => res = [done |-> acc.done, open |-> TRUE, now |-> now]

\* A pair that has yet to come in has made nothing.
LEMMA NoPairTyped == NoPair \in PairRow /\ NoPair.runs = 0 /\ NoPair.balls = 0
BY DEF NoPair, PairRow

\* Each delivery goes to the pair that is in, or to a new one.
LEMMA PartnershipGrows ==
    ASSUME NEW acc \in Folded, NEW e \in Event
    PROVE  /\ Grown(acc, e, Partnership(acc, e))
           /\ acc.open /\ {e.striker, e.other} \subseteq acc.now.pair =>
                 \E now : now.pair = acc.now.pair /\ Joined(acc, e, now, Partnership(acc, e))
           /\ ~acc.open =>
                 \E now : now.pair = {e.striker, e.other} /\ Joined(acc, e, now, Partnership(acc, e))
<1> DEFINE kept == acc.open /\ {e.striker, e.other} \subseteq acc.now.pair
           done == IF acc.open /\ ~kept THEN Append(acc.done, acc.now) ELSE acc.done
           from == IF kept THEN acc.now ELSE [NoPair EXCEPT !.pair = {e.striker, e.other}]
           now == [from EXCEPT !.runs = @ + EventRuns(e), !.balls = @ + IF Counts(e) THEN 1 ELSE 0]
           res == Partnership(acc, e)
           one == IF e.legal THEN 1 ELSE 0
<1>1. res = IF SiteWicketCounts(e) THEN [done |-> Append(done, now), open |-> FALSE, now |-> NoPair]
            ELSE [done |-> done, open |-> TRUE, now |-> now]
  BY DEF Partnership
<1>2. /\ acc.done \in Seq(PairRow) /\ acc.open \in BOOLEAN /\ acc.now \in PairRow
      /\ acc.now.runs \in Nat /\ acc.now.balls \in Nat /\ (~acc.open => acc.now = NoPair)
  BY DEF Folded, PairRow
<1>3. EventRuns(e) \in Nat /\ (Counts(e) <=> e.legal) /\ one \in Nat
  BY Readings, Counted
<1>4. e.striker \in Players /\ e.other \in Players
  BY DEF Event, Made
<1>5. from \in PairRow /\ from = [pair |-> from.pair, runs |-> from.runs, balls |-> from.balls]
      /\ (kept => from.pair = acc.now.pair /\ from.runs = acc.now.runs /\ from.balls = acc.now.balls)
      /\ (~kept => from.pair = {e.striker, e.other} /\ from.runs = 0 /\ from.balls = 0)
  <2>1. CASE kept
    <3>1. from = acc.now
      BY <2>1
    <3>2. QED
      BY <1>2, <2>1, <3>1 DEF PairRow
  <2>2. CASE ~kept
    <3> DEFINE pair == {e.striker, e.other}
    <3>1. from = [pair |-> pair, runs |-> 0, balls |-> 0] /\ pair \in SUBSET Players
      BY <1>4, <2>2 DEF NoPair
    <3> HIDE DEF kept, from, pair
    <3>2. QED
      BY <2>2, <3>1 DEF PairRow, pair
  <2>3. QED
    BY <2>1, <2>2
<1> HIDE DEF from
<1>6. now = [pair |-> from.pair, runs |-> from.runs + EventRuns(e), balls |-> from.balls + one]
  <2>1. (IF Counts(e) THEN 1 ELSE 0) = one
    BY <1>3
  <2>2. now = [from EXCEPT !.runs = @ + EventRuns(e), !.balls = @ + one]
    BY <2>1
  <2> HIDE DEF now, one
  <2>3. QED
    BY <1>5, <2>2 DEF PairRow
<1>7. /\ now.pair = from.pair /\ now.runs = from.runs + EventRuns(e) /\ now.balls = from.balls + one
      /\ now \in PairRow
  BY <1>3, <1>5, <1>6 DEF PairRow
<1>8. /\ done \in Seq(PairRow)
      /\ PairRuns(done) + from.runs = PairRuns(acc.done) + acc.now.runs
      /\ PairBalls(done) + from.balls = PairBalls(acc.done) + acc.now.balls
      /\ PairRuns(done) \in Nat /\ PairBalls(done) \in Nat
  <2>1. /\ Append(acc.done, acc.now) \in Seq(PairRow)
        /\ PairRuns(Append(acc.done, acc.now)) = PairRuns(acc.done) + acc.now.runs
        /\ PairBalls(Append(acc.done, acc.now)) = PairBalls(acc.done) + acc.now.balls
        /\ PairRuns(acc.done) \in Nat /\ PairBalls(acc.done) \in Nat
    BY <1>2, PairAppended
  <2>2. CASE kept
    <3>1. done = acc.done
      BY <2>2
    <3>2. QED
      BY <1>2, <1>5, <2>1, <2>2, <3>1
  <2>3. CASE acc.open /\ ~kept
    <3>1. done = Append(acc.done, acc.now)
      BY <2>3
    <3> HIDE DEF done, kept
    <3>2. PairRuns(done) = PairRuns(acc.done) + acc.now.runs /\ PairBalls(done) = PairBalls(acc.done) + acc.now.balls
          /\ done \in Seq(PairRow)
      BY <2>1, <3>1
    <3>3. QED
      BY <1>2, <1>5, <2>1, <2>3, <3>2
  <2>4. CASE ~acc.open
    <3>1. done = acc.done /\ ~kept
      BY <2>4
    <3>2. acc.now.runs = 0 /\ acc.now.balls = 0
      BY <1>2, <2>4, NoPairTyped
    <3> HIDE DEF done, kept
    <3>3. QED
      BY <1>2, <1>5, <2>1, <3>1, <3>2
  <2>5. QED
    BY <2>2, <2>3, <2>4
<1>9. kept => done = acc.done /\ from.runs = acc.now.runs /\ from.balls = acc.now.balls
  BY <1>5
<1>10. ~acc.open => /\ done = acc.done /\ from.pair = {e.striker, e.other}
                    /\ from.runs = acc.now.runs /\ from.balls = acc.now.balls
  BY <1>2, <1>5, NoPairTyped
<1>11. kept <=> acc.open /\ {e.striker, e.other} \subseteq acc.now.pair
  OBVIOUS
<1> HIDE DEF done, now, res, kept, one
<1>12. Grown(acc, e, res)
  <2>1. /\ Append(done, now) \in Seq(PairRow)
        /\ PairRuns(Append(done, now)) = PairRuns(done) + now.runs
        /\ PairBalls(Append(done, now)) = PairBalls(done) + now.balls
    BY <1>7, <1>8, PairAppended
  <2>2. /\ PairRuns(done) + now.runs = PairRuns(acc.done) + acc.now.runs + EventRuns(e)
        /\ PairBalls(done) + now.balls = PairBalls(acc.done) + acc.now.balls + one
    <3>1. from.runs \in Nat /\ from.balls \in Nat
      BY <1>5 DEF PairRow
    <3>2. PairRuns(acc.done) \in Nat /\ PairBalls(acc.done) \in Nat
      BY <1>2, PairAppended
    <3> DEFINE a == PairRuns(done)
               b == PairRuns(acc.done)
               c == PairBalls(done)
               d == PairBalls(acc.done)
               n == EventRuns(e)
    <3>3. /\ a \in Nat /\ b \in Nat /\ c \in Nat /\ d \in Nat /\ n \in Nat /\ one \in Nat
          /\ a + from.runs = b + acc.now.runs /\ c + from.balls = d + acc.now.balls
          /\ now.runs = from.runs + n /\ now.balls = from.balls + one
      BY <1>3, <1>7, <1>8, <3>2
    <3> HIDE DEF a, b, c, d, n
    <3> DEFINE r == acc.now.runs
               l == acc.now.balls
    <3>7. r \in Nat /\ l \in Nat
      BY <1>2
    <3>8. a + from.runs = b + r /\ c + from.balls = d + l
      BY <3>3
    <3> HIDE DEF r, l, from
    <3>4. a + now.runs = b + r + n
      BY <3>1, <3>3, <3>7, <3>8, MovedOver
    <3>5. c + now.balls = d + l + one
      BY <3>1, <3>3, <3>7, <3>8, MovedOver
    <3>6. QED
      BY <3>4, <3>5 DEF a, b, c, d, n, r, l
  <2>3. CASE SiteWicketCounts(e)
    <3>1. res = [done |-> Append(done, now), open |-> FALSE, now |-> NoPair]
      BY <1>1, <2>3
    <3>2. res.done = Append(done, now) /\ res.open = FALSE /\ res.now = NoPair /\ res \in Folded
      BY <2>1, <3>1, NoPairTyped DEF Folded
    <3>3. /\ PairRuns(res.done) + res.now.runs = PairRuns(acc.done) + acc.now.runs + EventRuns(e)
          /\ PairBalls(res.done) + res.now.balls = PairBalls(acc.done) + acc.now.balls + one
      <4>1. PairRuns(res.done) = PairRuns(done) + now.runs /\ PairBalls(res.done) = PairBalls(done) + now.balls
        BY <2>1, <3>2
      <4>2. res.now.runs = 0 /\ res.now.balls = 0
        BY <3>2, NoPairTyped
      <4>3. now.runs \in Nat /\ now.balls \in Nat
        BY <1>7 DEF PairRow
      <4>4. QED
        BY <1>8, <2>2, <4>1, <4>2, <4>3
    <3>4. QED
      BY <2>3, <3>2, <3>3 DEF Grown, one
  <2>4. CASE ~SiteWicketCounts(e)
    <3>1. res = [done |-> done, open |-> TRUE, now |-> now]
      BY <1>1, <2>4
    <3>2. res.done = done /\ res.open = TRUE /\ res.now = now /\ res \in Folded
      BY <1>7, <1>8, <3>1 DEF Folded
    <3>3. /\ PairRuns(res.done) + res.now.runs = PairRuns(acc.done) + acc.now.runs + EventRuns(e)
          /\ PairBalls(res.done) + res.now.balls = PairBalls(acc.done) + acc.now.balls + one
      BY <2>2, <3>2
    <3>4. QED
      BY <2>4, <3>2, <3>3 DEF Grown, one
  <2>5. QED
    BY <2>3, <2>4
<1>13. kept => now.pair = acc.now.pair /\ Joined(acc, e, now, res)
  <2> SUFFICES ASSUME kept PROVE now.pair = acc.now.pair /\ Joined(acc, e, now, res)
    OBVIOUS
  <2>1. now.pair = acc.now.pair /\ now.runs = acc.now.runs + EventRuns(e) /\ now.balls = acc.now.balls + one
    BY <1>5, <1>7
  <2>2. done = acc.done
    BY <1>9
  <2>3. now.pair \subseteq Players
    BY <1>7 DEF PairRow
  <2>4. QED
    BY <1>1, <1>7, <2>1, <2>2, <2>3 DEF Joined, one
<1>14. ~acc.open => now.pair = {e.striker, e.other} /\ Joined(acc, e, now, res)
  <2> SUFFICES ASSUME ~acc.open PROVE now.pair = {e.striker, e.other} /\ Joined(acc, e, now, res)
    OBVIOUS
  <2>1. now.pair = {e.striker, e.other} /\ now.runs = acc.now.runs + EventRuns(e) /\ now.balls = acc.now.balls + one
    BY <1>7, <1>10
  <2>2. done = acc.done
    BY <1>10
  <2>3. now.pair \subseteq Players
    BY <1>7 DEF PairRow
  <2>4. QED
    BY <1>1, <1>7, <2>1, <2>2, <2>3 DEF Joined, one
<1>15. QED
  BY <1>11, <1>12, <1>13, <1>14 DEF res

\* The partnerships after each delivery of an innings.
FoldOf(f, rows) ==
    /\ f \in [0 .. Len(rows) -> Folded]
    /\ f[0] = NoFold
    /\ \A n \in 1 .. Len(rows) : f[n] = Partnership(f[n - 1], rows[n])
    /\ PartnershipFold(rows) = f[Len(rows)]

\* There are such partnerships.
LEMMA FoldFacts ==
    ASSUME NEW rows \in Seq(Event)
    PROVE  \E f : FoldOf(f, rows)
<1> DEFINE N == Len(rows)
           Is(g) == g = [n \in 0 .. N |-> IF n = 0 THEN [done |-> <<>>, open |-> FALSE, now |-> NoPair]
                                          ELSE Partnership(g[n - 1], rows[n])]
           F == CHOOSE g : Is(g)
<1>1. N \in Nat /\ \A n \in 1 .. N : rows[n] \in Event
  OBVIOUS
<1>2. PartnershipFold(rows) = F[N]
  BY DEF PartnershipFold
<1>3. NoFold \in Folded
  <2>1. <<>> \in Seq(PairRow)
    OBVIOUS
  <2>2. QED
    BY <2>1, NoPairTyped DEF NoFold, Folded
<1>4. \A acc \in Folded, e \in Event : Partnership(acc, e) \in Folded
  BY PartnershipGrows DEF Grown
<1>5. \E g : Is(g)
  <2> DEFINE step == [p \in (1 .. N) \X Folded |-> Partnership(p[2], rows[p[1]])]
             A == Folded
             first == NoFold
  <2>1. step \in [(1 .. N) \X A -> A]
    BY <1>1, <1>4
  <2>2. \A i \in 1 .. N : \A p \in A : step[<<i, p>>] = Partnership(p, rows[i])
    OBVIOUS
  <2>3. first \in A
    BY <1>3
  <2> HIDE DEF step, N, A, first
  <2>4. PICK f \in Recursive(N, A, first, step) : TRUE
    BY <1>1, <2>1, <2>3, Recursion
  <2>5. f \in [0 .. N -> A] /\ f[0] = first /\ \A i \in 1 .. N : f[i] = step[<<i, f[i - 1]>>]
    BY DEF Recursive
  <2>6. \A i \in 1 .. N : i - 1 \in 0 .. N
    BY <1>1
  <2>7. \A i \in 1 .. N : f[i - 1] \in A /\ f[i] = step[<<i, f[i - 1]>>]
    BY <2>5, <2>6
  <2>8. \A i \in 1 .. N : f[i] = Partnership(f[i - 1], rows[i])
    BY <2>2, <2>7
  <2>9. \A i \in 0 .. N : f[i] = IF i = 0 THEN first ELSE Partnership(f[i - 1], rows[i])
    BY <1>1, <2>5, <2>8
  <2>10. f = [i \in 0 .. N |-> f[i]]
    BY <2>5
  <2>11. f = [i \in 0 .. N |-> IF i = 0 THEN first ELSE Partnership(f[i - 1], rows[i])]
    BY <2>9, <2>10
  <2>12. first = [done |-> <<>>, open |-> FALSE, now |-> NoPair]
    BY DEF first, NoFold
  <2>13. Is(f)
    BY <2>11, <2>12
  <2>14. QED
    BY <2>13
<1> HIDE DEF Is
<1>6. Is(F)
  BY <1>5
<1> HIDE DEF F
<1> DEFINE first == NoFold
<1>7. F = [n \in 0 .. N |-> IF n = 0 THEN first ELSE Partnership(F[n - 1], rows[n])]
  BY <1>6 DEF Is, NoFold
<1>8. first \in Folded
  BY <1>3
<1> HIDE DEF N, first
<1>9. F[0] = first /\ \A n \in 1 .. N : F[n] = Partnership(F[n - 1], rows[n])
  BY <1>1, <1>7
<1>10. \A n \in 0 .. N : F[n] \in Folded
  <2> DEFINE T == {n \in 0 .. N : F[n] \in Folded}
  <2>1. 0 \in T
    BY <1>1, <1>8, <1>9
  <2>2. ASSUME NEW n \in 1 .. N, n - 1 \in T
        PROVE  n \in T
    <3>1. F[n] = Partnership(F[n - 1], rows[n]) /\ F[n - 1] \in Folded /\ rows[n] \in Event /\ n \in 0 .. N
      BY <1>1, <1>9, <2>2
    <3>2. F[n] \in Folded
      BY <1>4, <3>1
    <3>3. QED
      BY <3>1, <3>2
  <2> HIDE DEF T
  <2>3. \A n \in 0 .. N : n \in T
    BY <1>1, <2>1, <2>2, UpTo
  <2>4. QED
    BY <2>3 DEF T
<1>11. F \in [0 .. N -> Folded]
  BY <1>7, <1>10
<1>12. FoldOf(F, rows)
  BY <1>2, <1>9, <1>11 DEF FoldOf, N, first
<1>13. QED
  BY <1>12

\* What the runs of the first k deliveries come to.
Scored(rows, at) == SumFunctionOnSet([i \in DOMAIN rows |-> EventRuns(rows[i])], at)

\* The runs of one delivery more.
LEMMA ScoredNext ==
    ASSUME NEW rows \in Seq(Event), NEW k \in 1 .. Len(rows)
    PROVE  /\ Scored(rows, 1 .. k) = Scored(rows, 1 .. k - 1) + EventRuns(rows[k])
           /\ Scored(rows, 1 .. k) \in Nat
           /\ Scored(rows, {}) = 0
           /\ \A at \in SUBSET DOMAIN rows : Scored(rows, at) \in Nat
           /\ \A at \in SUBSET (1 .. k - 1) : Scored(rows, at \cup {k}) = Scored(rows, at) + EventRuns(rows[k])
<1> DEFINE v == [i \in DOMAIN rows |-> EventRuns(rows[i])]
           S(at) == SumFunctionOnSet(v, at)
<1>1. /\ \A at \in SUBSET DOMAIN rows : IsFiniteSet(at)
      /\ DOMAIN rows = 1 .. Len(rows) /\ Len(rows) \in Nat
      /\ \A i \in DOMAIN rows : rows[i] \in Event
  BY RowsFacts
<1>2. \A i \in DOMAIN rows : v[i] \in Nat /\ v[i] = EventRuns(rows[i])
  BY <1>1, Readings
<1>3. \A at : Scored(rows, at) = S(at)
  BY DEF Scored
<1> HIDE DEF v
<1>4. \A at \in SUBSET DOMAIN rows : S(at) \in Nat
  <2> SUFFICES ASSUME NEW at \in SUBSET DOMAIN rows PROVE SumFunctionOnSet(v, at) \in Nat
    OBVIOUS
  <2>1. IsFiniteSet(at) /\ \A i \in at : v[i] \in Nat
    BY <1>1, <1>2
  <2>2. QED
    BY <2>1, SumNat
<1>5. \A at \in SUBSET (1 .. k - 1) : S(at \cup {k}) = S(at) + v[k]
  <2> SUFFICES ASSUME NEW at \in SUBSET (1 .. k - 1)
               PROVE  SumFunctionOnSet(v, at \cup {k}) = SumFunctionOnSet(v, at) + v[k]
    OBVIOUS
  <2>1. at \in SUBSET DOMAIN rows /\ k \notin at /\ k \in DOMAIN rows
    BY <1>1
  <2>2. IsFiniteSet(at) /\ (\A i \in at : v[i] \in Int) /\ v[k] \in Int
    BY <1>1, <1>2, <2>1
  <2>3. QED
    BY <2>1, <2>2, SumAdd
<1>6. v[k] = EventRuns(rows[k]) /\ 1 .. k = (1 .. k - 1) \cup {k} /\ 1 .. k \in SUBSET DOMAIN rows
  BY <1>1, <1>2
<1>7. S({}) = 0
  <2>1. IsFiniteSet({}) /\ \A i \in {} : v[i] = 0
    BY FS_EmptySet
  <2>2. QED
    BY <2>1, SumZero
<1> HIDE DEF S
<1>8. S(1 .. k) = S(1 .. k - 1) + v[k]
  BY <1>5, <1>6
<1>9. S(1 .. k) \in Nat
  BY <1>4, <1>6
<1>10. QED
  BY <1>3, <1>4, <1>5, <1>6, <1>7, <1>8, <1>9

\* The partnerships of the first k deliveries share out their runs and balls.
Shared(acc, rows, k) ==
    /\ PairRuns(acc.done) + acc.now.runs = Scored(rows, 1 .. k)
    /\ PairBalls(acc.done) + acc.now.balls = Cardinality(Legals(rows, k))

\* The legal deliveries after one more.
LEMMA LegalsNext ==
    ASSUME NEW rows \in Seq(Event), NEW k \in 1 .. Len(rows)
    PROVE  /\ Cardinality(Legals(rows, k)) = Cardinality(Legals(rows, k - 1)) + IF rows[k].legal THEN 1 ELSE 0
           /\ Cardinality(Legals(rows, k - 1)) \in Nat
           /\ Legals(rows, 0) = {}
<1> DEFINE n == k - 1
           c == rows[k].legal
           s == Legals(rows, n)
           t == Legals(rows, k)
<1>1. n \in Nat /\ k = n + 1
  OBVIOUS
<1>2. c \in BOOLEAN
  <2>1. rows[k] \in Event
    BY RowsFacts
  <2>2. QED
    BY <2>1, EventFacts
<1>3. s \in SUBSET (1 .. n) /\ t = IF c THEN s \cup {n + 1} ELSE s
  <2>1. s = {i \in 1 .. n : rows[i].legal} /\ t = {i \in 1 .. k : rows[i].legal}
    BY DEF Legals
  <2>2. \A i : i \in 1 .. k <=> i \in 1 .. n \/ i = k
    BY <1>1
  <2>3. \A i \in 1 .. n : i # k
    BY <1>1
  <2> HIDE DEF s, t, n
  <2>4. CASE c
    BY <1>1, <2>1, <2>2, <2>4
  <2>5. CASE ~c
    BY <1>1, <2>1, <2>2, <2>5
  <2>6. QED
    BY <2>1, <2>4, <2>5
<1>4. Legals(rows, 0) = {}
  BY DEF Legals
<1> HIDE DEF n, c, s, t
<1>5. Cardinality(t) = Cardinality(s) + (IF c THEN 1 ELSE 0) /\ Cardinality(s) \in Nat
  BY <1>1, <1>2, <1>3, CountOfAppend
<1>6. QED
  BY <1>4, <1>5 DEF n, c, s, t

\* So they do after every delivery.
LEMMA SharedAlways ==
    ASSUME NEW rows \in Seq(Event), NEW f, FoldOf(f, rows)
    PROVE  \A k \in 0 .. Len(rows) : Shared(f[k], rows, k)
<1> DEFINE N == Len(rows)
           T == {k \in 0 .. N : Shared(f[k], rows, k)}
<1>1. N \in Nat /\ \A k \in 1 .. N : rows[k] \in Event
  BY RowsFacts
<1>2. 0 \in T
  <2>1. f[0] = NoFold
    BY DEF FoldOf
  <2>2. PairRuns(<<>>) = 0 /\ PairBalls(<<>>) = 0
    <3>1. /\ PairRuns(<<>>) = SumFunctionOnSet([i \in DOMAIN <<>> |-> <<>>[i].runs], DOMAIN <<>>)
          /\ PairBalls(<<>>) = SumFunctionOnSet([i \in DOMAIN <<>> |-> <<>>[i].balls], DOMAIN <<>>)
      BY DEF PairRuns, PairBalls, Total
    <3>2. DOMAIN <<>> = {}
      OBVIOUS
    <3>3. IsFiniteSet({})
      BY FS_EmptySet
    <3>4. \A v : SumFunctionOnSet(v, {}) = 0
      BY <3>3, SumZero
    <3>5. QED
      BY <3>1, <3>2, <3>4
  <2>3. Scored(rows, {}) = 0
    <3>1. IsFiniteSet({})
      BY FS_EmptySet
    <3>2. \A v : SumFunctionOnSet(v, {}) = 0
      BY <3>1, SumZero
    <3>3. QED
      BY <3>2 DEF Scored
  <2>4. 1 .. 0 = {} /\ Legals(rows, 0) = {} /\ Cardinality({}) = 0
    BY FS_EmptySet DEF Legals
  <2>5. QED
    <3>1. NoFold.done = <<>> /\ NoFold.now = NoPair
      BY DEF NoFold
    <3>2. PairRuns(NoFold.done) = 0 /\ PairBalls(NoFold.done) = 0 /\ NoFold.now.runs = 0 /\ NoFold.now.balls = 0
      BY <2>2, <3>1, NoPairTyped
    <3>3. Scored(rows, 1 .. 0) = 0 /\ Cardinality(Legals(rows, 0)) = 0
      BY <2>3, <2>4
    <3>4. Shared(NoFold, rows, 0)
      BY <3>2, <3>3 DEF Shared
    <3>5. QED
      BY <1>1, <2>1, <3>4
<1>3. ASSUME NEW k \in 1 .. N, k - 1 \in T
      PROVE  k \in T
  <2>1. f[k] = Partnership(f[k - 1], rows[k]) /\ f[k - 1] \in Folded /\ rows[k] \in Event
    <3>1. k - 1 \in 0 .. N
      BY <1>1
    <3>2. QED
      BY <1>1, <3>1 DEF FoldOf
  <2>2. Grown(f[k - 1], rows[k], f[k])
    BY <2>1, PartnershipGrows
  <2>3. Shared(f[k - 1], rows, k - 1)
    BY <1>3
  <2>4. Scored(rows, 1 .. k) = Scored(rows, 1 .. k - 1) + EventRuns(rows[k])
    BY ScoredNext
  <2>5. Cardinality(Legals(rows, k)) = Cardinality(Legals(rows, k - 1)) + IF rows[k].legal THEN 1 ELSE 0
    BY LegalsNext
  <2>6. Shared(f[k], rows, k)
    BY <2>2, <2>3, <2>4, <2>5 DEF Shared, Grown
  <2>7. QED
    BY <1>1, <2>6
<1> HIDE DEF T
<1>4. \A k \in 0 .. N : k \in T
  BY <1>1, <1>2, <1>3, UpTo
<1>5. QED
  BY <1>4 DEF T

\* The wickets among the first k deliveries, what was bowled after the last of
\* them, and the runs of the first n partnerships.
FallsIn(rows, k) == {i \in 1 .. k : CountsAsWicket(rows[i])}
Since(rows, k) == {i \in 1 .. k : \A w \in FallsIn(rows, k) : w < i}
LegalSince(rows, k) == {i \in Since(rows, k) : rows[i].legal}
PairsTo(s, n) == Total(s, 1 .. n, LAMBDA p : p.runs)

NobodyRetired(rows) == \A k \in DOMAIN rows : ~Retired(rows[k])

\* One delivery more begins a new piece or belongs to the last.
LEMMA PieceNext ==
    ASSUME NEW rows \in Seq(Event), NEW k \in 1 .. Len(rows)
    PROVE  /\ FallsIn(rows, k - 1) \in SUBSET (1 .. k - 1) /\ Since(rows, k - 1) \in SUBSET (1 .. k - 1)
           /\ CountsAsWicket(rows[k]) => FallsIn(rows, k) = FallsIn(rows, k - 1) \cup {k} /\ Since(rows, k) = {}
           /\ ~CountsAsWicket(rows[k]) => /\ FallsIn(rows, k) = FallsIn(rows, k - 1)
                                          /\ Since(rows, k) = Since(rows, k - 1) \cup {k}
<1> DEFINE n == k - 1
           F == FallsIn(rows, n)
           G == FallsIn(rows, k)
           S == Since(rows, n)
           T == Since(rows, k)
<1>1. /\ F = {i \in 1 .. n : CountsAsWicket(rows[i])} /\ G = {i \in 1 .. k : CountsAsWicket(rows[i])}
      /\ S = {i \in 1 .. n : \A w \in F : w < i} /\ T = {i \in 1 .. k : \A w \in G : w < i}
  BY DEF FallsIn, Since
<1>2. /\ k \in Nat /\ n \in Nat /\ (\A i : i \in 1 .. k <=> i \in 1 .. n \/ i = k)
      /\ \A i \in 1 .. n : i \in Int /\ i < k
  OBVIOUS
<1> HIDE DEF n, F, G, S, T
<1>3. CASE CountsAsWicket(rows[k])
  <2>1. G = F \cup {k}
    BY <1>1, <1>2, <1>3
  <2>2. T = {}
    <3>1. k \in G
      BY <2>1
    <3>2. \A i \in 1 .. k : ~(k < i)
      BY <1>2
    <3>3. QED
      BY <1>1, <3>1, <3>2
  <2>3. QED
    BY <1>1, <1>3, <2>1, <2>2 DEF n, F, G, S, T
<1>4. CASE ~CountsAsWicket(rows[k])
  <2>1. G = F
    BY <1>1, <1>2, <1>4
  <2>2. \A w \in F : w < k
    BY <1>1, <1>2
  <2>3. T = S \cup {k}
    BY <1>1, <1>2, <2>1, <2>2
  <2>4. QED
    BY <1>1, <1>4, <2>1, <2>3 DEF n, F, G, S, T
<1>5. QED
  BY <1>3, <1>4

\* The legal deliveries of the piece.
LEMMA LegalSinceNext ==
    ASSUME NEW rows \in Seq(Event), NEW k \in 1 .. Len(rows), ~CountsAsWicket(rows[k])
    PROVE  Cardinality(LegalSince(rows, k)) = Cardinality(LegalSince(rows, k - 1)) + IF rows[k].legal THEN 1 ELSE 0
<1> DEFINE n == k - 1
           c == rows[k].legal
           s == LegalSince(rows, n)
           t == LegalSince(rows, k)
<1>1. n \in Nat /\ k = n + 1
  OBVIOUS
<1>2. c \in BOOLEAN
  <2>1. rows[k] \in Event
    BY RowsFacts
  <2>2. QED
    BY <2>1, EventFacts
<1>3. Since(rows, k) = Since(rows, n) \cup {k} /\ Since(rows, n) \in SUBSET (1 .. n)
  BY PieceNext
<1>4. s = {i \in Since(rows, n) : rows[i].legal} /\ t = {i \in Since(rows, k) : rows[i].legal}
  BY DEF LegalSince
<1> HIDE DEF n, s, t
<1>5. s \in SUBSET (1 .. n) /\ t = IF c THEN s \cup {n + 1} ELSE s
  <2>1. CASE c
    BY <1>1, <1>3, <1>4, <2>1
  <2>2. CASE ~c
    BY <1>1, <1>3, <1>4, <2>2
  <2>3. QED
    BY <2>1, <2>2, <1>3, <1>4
<1> HIDE DEF c
<1>6. Cardinality(t) = Cardinality(s) + (IF c THEN 1 ELSE 0)
  BY <1>1, <1>2, <1>5, CountOfAppend
<1>7. QED
  BY <1>6 DEF n, c, s, t

\* The wickets after one more, and those before each of them.
LEMMA FallsCounted ==
    ASSUME NEW rows \in Seq(Event), NEW k \in 1 .. Len(rows)
    PROVE  /\ CountsAsWicket(rows[k]) => Cardinality(FallsIn(rows, k)) = Cardinality(FallsIn(rows, k - 1)) + 1
           /\ Cardinality(FallsIn(rows, k - 1)) \in Nat
           /\ \A i \in FallsIn(rows, k - 1) :
                 Cardinality(FallsIn(rows, i)) \in 0 .. Cardinality(FallsIn(rows, k - 1))
<1> DEFINE n == k - 1
           F == FallsIn(rows, n)
<1>1. n \in Nat /\ F \in SUBSET (1 .. n) /\ k \notin 1 .. n
  BY PieceNext
<1>2. IsFiniteSet(F)
  <2>1. IsFiniteSet(1 .. n)
    BY <1>1, FS_Interval
  <2>2. QED
    BY <1>1, <2>1, FS_Subset
<1>3. Cardinality(F) \in Nat
  BY <1>2, FS_CardinalityType
<1>4. CountsAsWicket(rows[k]) => Cardinality(FallsIn(rows, k)) = Cardinality(F) + 1
  <2> SUFFICES ASSUME CountsAsWicket(rows[k])
               PROVE  Cardinality(FallsIn(rows, k)) = Cardinality(F) + 1
    OBVIOUS
  <2>1. FallsIn(rows, k) = F \cup {k} /\ k \notin F
    BY <1>1, PieceNext
  <2> HIDE DEF F, n
  <2>2. Cardinality(F \cup {k}) = Cardinality(F) + 1
    BY <1>2, <2>1, FS_AddElement
  <2>3. QED
    BY <2>1, <2>2
<1>5. \A i \in F : Cardinality(FallsIn(rows, i)) \in 0 .. Cardinality(F)
  <2> SUFFICES ASSUME NEW i \in F PROVE Cardinality(FallsIn(rows, i)) \in 0 .. Cardinality(F)
    OBVIOUS
  <2> DEFINE E == FallsIn(rows, i)
  <2>1. E \in SUBSET F
    <3>1. i \in 1 .. n
      BY <1>1
    <3>2. \A j \in 1 .. i : j \in 1 .. n
      BY <1>1, <3>1
    <3>3. QED
      BY <3>2 DEF FallsIn
  <2> HIDE DEF E, F, n
  <2>2. IsFiniteSet(E) /\ Cardinality(E) <= Cardinality(F)
    BY <1>2, <2>1, FS_Subset
  <2>3. Cardinality(E) \in Nat
    BY <2>2, FS_CardinalityType
  <2>4. Cardinality(E) \in 0 .. Cardinality(F)
    BY <1>3, <2>2, <2>3
  <2>5. QED
    BY <2>4 DEF E
<1>6. QED
  BY <1>3, <1>4, <1>5

\* Without retirements a partnership is what was bowled between two wickets.
Pieces(acc, rows, k) ==
    /\ acc.open <=> k > 0 /\ ~CountsAsWicket(rows[k])
    /\ acc.open => acc.now.pair = {rows[k].striker, rows[k].other}
    /\ Len(acc.done) = Cardinality(FallsIn(rows, k))
    /\ acc.now.runs = Scored(rows, Since(rows, k))
    /\ acc.now.balls = Cardinality(LegalSince(rows, k))
    /\ \A i \in FallsIn(rows, k) :
          PairsTo(acc.done, Cardinality(FallsIn(rows, i))) = Scored(rows, 1 .. i)

\* The delivery is the pair's that is in, or the first of a pair.
LEMMA AlwaysJoined ==
    ASSUME NEW rows \in Seq(Event), Written(rows), NobodyRetired(rows), NEW k \in 1 .. Len(rows),
           NEW acc \in Folded, Pieces(acc, rows, k - 1)
    PROVE  \E now : /\ now.pair = {rows[k].striker, rows[k].other}
                    /\ Joined(acc, rows[k], now, Partnership(acc, rows[k]))
<1> DEFINE e == rows[k]
<1>1. e \in Event /\ acc.open \in BOOLEAN
  BY RowsFacts DEF Folded
<1>2. CASE acc.open
  <2>1. k - 1 > 0 /\ ~CountsAsWicket(rows[k - 1]) /\ acc.now.pair = {rows[k - 1].striker, rows[k - 1].other}
    BY <1>2 DEF Pieces
  <2>2. k - 1 \in 1 .. Len(rows) - 1 /\ k - 1 \in DOMAIN rows /\ (k - 1) + 1 = k
    BY <2>1
  <2>3. rows[k - 1].wicket \in Wicket \ {"retired_hurt", "retired_not_out"}
    <3>1. rows[k - 1] \in Event
      BY <2>2, RowsFacts
    <3>2. QED
      BY <2>2, <3>1, EventFacts DEF NobodyRetired, Retired
  <2>4. rows[k - 1].wicket = "none"
    BY <2>1, <2>3 DEF CountsAsWicket, Wicket
  <2>5. {rows[k].striker, rows[k].other} = {rows[k - 1].striker, rows[k - 1].other}
    BY <2>2, <2>4 DEF Written
  <2>6. {e.striker, e.other} = acc.now.pair
    BY <2>1, <2>5
  <2>7. \E now : now.pair = acc.now.pair /\ Joined(acc, e, now, Partnership(acc, e))
    BY <1>1, <1>2, <2>6, PartnershipGrows
  <2>8. QED
    BY <2>6, <2>7
<1>3. CASE ~acc.open
  BY <1>1, <1>3, PartnershipGrows
<1>4. QED
  BY <1>2, <1>3

\* The partnership that a wicket ends is the last of those that are over.
LEMMA PiecesWicket ==
    ASSUME NEW rows \in Seq(Event), NEW k \in 1 .. Len(rows), NEW acc \in Folded, Pieces(acc, rows, k - 1),
           NEW now, Joined(acc, rows[k], now, Partnership(acc, rows[k])), CountsAsWicket(rows[k]),
           Shared(Partnership(acc, rows[k]), rows, k)
    PROVE  Pieces(Partnership(acc, rows[k]), rows, k)
<1> DEFINE e == rows[k]
           res == Partnership(acc, e)
           done == Append(acc.done, now)
           n == Len(acc.done)
           c(i) == Cardinality(FallsIn(rows, i))
<1>1. e \in Event /\ SiteWicketCounts(e)
  <2>1. e \in Event
    BY RowsFacts
  <2>2. QED
    BY <2>1, Counted
<1>2. res = [done |-> done, open |-> FALSE, now |-> NoPair] /\ now \in PairRow
  BY <1>1 DEF Joined
<1>3. res.done = done /\ res.open = FALSE /\ res.now = NoPair
  BY <1>2
<1>4. acc.done \in Seq(PairRow)
  BY DEF Folded
<1>5. /\ Len(done) = n + 1 /\ n \in Nat /\ DOMAIN done = 1 .. n + 1
      /\ \A m \in 0 .. n : PairsTo(done, m) = PairsTo(acc.done, m)
  BY <1>2, <1>4, PairAppended DEF PairsTo
<1>6. n = c(k - 1) /\ \A i \in FallsIn(rows, k - 1) : PairsTo(acc.done, c(i)) = Scored(rows, 1 .. i)
  BY DEF Pieces
<1>7. c(k) = n + 1 /\ \A i \in FallsIn(rows, k - 1) : c(i) \in 0 .. n
  BY <1>6, FallsCounted
<1>8. FallsIn(rows, k) = FallsIn(rows, k - 1) \cup {k} /\ Since(rows, k) = {}
  BY PieceNext
<1>9. PairsTo(done, n + 1) = Scored(rows, 1 .. k)
  <2>1. PairsTo(done, n + 1) = PairRuns(done)
    BY <1>5 DEF PairsTo, PairRuns
  <2>2. PairRuns(res.done) + res.now.runs = Scored(rows, 1 .. k)
    BY DEF Shared
  <2>3. PairRuns(done) + 0 = Scored(rows, 1 .. k)
    BY <1>3, <2>2, NoPairTyped
  <2>4. PairRuns(done) \in Nat
    <3>1. done \in Seq(PairRow)
      BY <1>2, <1>4, PairAppended
    <3>2. QED
      BY <1>2, <3>1, PairAppended
  <2>5. QED
    BY <2>1, <2>3, <2>4
<1>10. Scored(rows, {}) = 0 /\ LegalSince(rows, k) = {} /\ Cardinality({}) = 0
  BY <1>8, ScoredNext, FS_EmptySet DEF LegalSince
<1> HIDE DEF done, n, c
<1>11. \A i \in FallsIn(rows, k) : PairsTo(done, c(i)) = Scored(rows, 1 .. i)
  <2> SUFFICES ASSUME NEW i \in FallsIn(rows, k) PROVE PairsTo(done, c(i)) = Scored(rows, 1 .. i)
    OBVIOUS
  <2>1. CASE i = k
    BY <1>7, <1>9, <2>1
  <2>2. CASE i \in FallsIn(rows, k - 1)
    <3>1. c(i) \in 0 .. n
      BY <1>7, <2>2
    <3>2. PairsTo(done, c(i)) = PairsTo(acc.done, c(i))
      BY <1>5, <3>1
    <3>3. QED
      BY <1>6, <2>2, <3>2
  <2>3. QED
    BY <1>8, <2>1, <2>2
<1>12. Len(done) = c(k)
  BY <1>5, <1>7
<1>13. /\ NoPair.runs = Scored(rows, Since(rows, k))
       /\ NoPair.balls = Cardinality(LegalSince(rows, k))
  BY <1>8, <1>10, NoPairTyped
<1> HIDE DEF res
<1>14. Pieces(res, rows, k)
  BY <1>3, <1>11, <1>12, <1>13 DEF Pieces, c
<1>15. QED
  BY <1>14 DEF res

\* Another delivery of the partnership that goes on.
LEMMA PiecesJoined ==
    ASSUME NEW rows \in Seq(Event), NEW k \in 1 .. Len(rows), NEW acc \in Folded, Pieces(acc, rows, k - 1),
           NEW now, Joined(acc, rows[k], now, Partnership(acc, rows[k])), ~CountsAsWicket(rows[k]),
           now.pair = {rows[k].striker, rows[k].other}
    PROVE  Pieces(Partnership(acc, rows[k]), rows, k)
<1> DEFINE e == rows[k]
           res == Partnership(acc, e)
<1>1. e \in Event /\ ~SiteWicketCounts(e)
  <2>1. e \in Event
    BY RowsFacts
  <2>2. QED
    BY <2>1, Counted
<1>2. /\ res = [done |-> acc.done, open |-> TRUE, now |-> now]
      /\ now.runs = acc.now.runs + EventRuns(e)
      /\ now.balls = acc.now.balls + IF e.legal THEN 1 ELSE 0
  BY <1>1 DEF Joined
<1>3. res.done = acc.done /\ res.open = TRUE /\ res.now = now
  BY <1>2
<1>4. /\ FallsIn(rows, k) = FallsIn(rows, k - 1) /\ Since(rows, k) = Since(rows, k - 1) \cup {k}
      /\ Since(rows, k - 1) \in SUBSET (1 .. k - 1)
  BY PieceNext
<1>5. Scored(rows, Since(rows, k)) = Scored(rows, Since(rows, k - 1)) + EventRuns(e)
  BY <1>4, ScoredNext
<1>6. Cardinality(LegalSince(rows, k)) = Cardinality(LegalSince(rows, k - 1)) + IF e.legal THEN 1 ELSE 0
  BY LegalSinceNext
<1>7. k > 0
  OBVIOUS
<1> HIDE DEF res, e
<1>8. Pieces(res, rows, k)
  <2>1. /\ res.now.runs = Scored(rows, Since(rows, k))
        /\ res.now.balls = Cardinality(LegalSince(rows, k))
    BY <1>2, <1>3, <1>5, <1>6 DEF Pieces
  <2>2. res.now.pair = {rows[k].striker, rows[k].other}
    BY <1>3
  <2>3. /\ Len(res.done) = Cardinality(FallsIn(rows, k))
        /\ \A i \in FallsIn(rows, k) :
              PairsTo(res.done, Cardinality(FallsIn(rows, i))) = Scored(rows, 1 .. i)
    BY <1>3, <1>4 DEF Pieces
  <2>4. QED
    BY <1>3, <1>7, <2>1, <2>2, <2>3 DEF Pieces
<1>9. QED
  BY <1>8 DEF res, e

\* So it is for the whole innings.
LEMMA PiecesAlways ==
    ASSUME NEW rows \in Seq(Event), Written(rows), NobodyRetired(rows), NEW f, FoldOf(f, rows)
    PROVE  \A k \in 0 .. Len(rows) : Pieces(f[k], rows, k)
<1> DEFINE N == Len(rows)
           T == {k \in 0 .. N : Pieces(f[k], rows, k)}
<1>1. N \in Nat
  BY RowsFacts
<1>2. 0 \in T
  <2>1. FallsIn(rows, 0) = {} /\ Since(rows, 0) = {} /\ LegalSince(rows, 0) = {}
    BY DEF FallsIn, Since, LegalSince
  <2>2. Cardinality({}) = 0 /\ Len(<<>>) = 0 /\ f[0] = NoFold
    BY FS_EmptySet DEF FoldOf
  <2>3. Scored(rows, {}) = 0
    <3>1. IsFiniteSet({})
      BY FS_EmptySet
    <3>2. \A v : SumFunctionOnSet(v, {}) = 0
      BY <3>1, SumZero
    <3>3. QED
      BY <3>2 DEF Scored
  <2>4. NoFold.done = <<>> /\ NoFold.open = FALSE /\ NoFold.now = NoPair
    BY DEF NoFold
  <2>5. Pieces(f[0], rows, 0)
    <3>1. ~(0 > 0)
      OBVIOUS
    <3>2. /\ Len(NoFold.done) = Cardinality(FallsIn(rows, 0))
          /\ NoFold.now.runs = Scored(rows, Since(rows, 0))
          /\ NoFold.now.balls = Cardinality(LegalSince(rows, 0))
      BY <2>1, <2>2, <2>3, <2>4, NoPairTyped
    <3>3. \A i \in FallsIn(rows, 0) :
             PairsTo(NoFold.done, Cardinality(FallsIn(rows, i))) = Scored(rows, 1 .. i)
      BY <2>1
    <3>4. Pieces(NoFold, rows, 0)
      BY <2>4, <3>1, <3>2, <3>3 DEF Pieces
    <3>5. QED
      BY <2>2, <3>4
  <2>6. QED
    BY <1>1, <2>5
<1>3. ASSUME NEW k \in 1 .. N, k - 1 \in T
      PROVE  k \in T
  <2>1. f[k] = Partnership(f[k - 1], rows[k]) /\ f[k - 1] \in Folded
    <3>1. k - 1 \in 0 .. N
      BY <1>1
    <3>2. QED
      BY <1>1, <3>1 DEF FoldOf
  <2>2. Pieces(f[k - 1], rows, k - 1)
    BY <1>3
  <2>3. Shared(f[k], rows, k)
    <3>1. k \in 0 .. N
      BY <1>1
    <3>2. QED
      BY <3>1, SharedAlways
  <2>4. PICK now : /\ now.pair = {rows[k].striker, rows[k].other}
                   /\ Joined(f[k - 1], rows[k], now, Partnership(f[k - 1], rows[k]))
    BY <2>1, <2>2, AlwaysJoined
  <2> DEFINE acc == f[k - 1]
  <2>5. /\ acc \in Folded /\ Pieces(acc, rows, k - 1) /\ Joined(acc, rows[k], now, Partnership(acc, rows[k]))
        /\ now.pair = {rows[k].striker, rows[k].other} /\ Shared(Partnership(acc, rows[k]), rows, k)
        /\ k \in 1 .. Len(rows)
    BY <2>1, <2>2, <2>3, <2>4
  <2>6. f[k] = Partnership(acc, rows[k])
    BY <2>1
  <2> HIDE DEF acc
  <2>7. CASE CountsAsWicket(rows[k])
    BY <2>5, <2>6, <2>7, PiecesWicket
  <2>8. CASE ~CountsAsWicket(rows[k])
    BY <2>5, <2>6, <2>8, PiecesJoined
  <2>9. QED
    BY <1>1, <2>7, <2>8
<1> HIDE DEF T
<1>4. \A k \in 0 .. N : k \in T
  BY <1>1, <1>2, <1>3, UpTo
<1>5. QED
  BY <1>4 DEF T

\* The website's partnerships share out the score and the legal deliveries.
LEMMA PartnershipsShare ==
    ASSUME NEW rows \in Seq(Event)
    PROVE  /\ PairRuns(Partnerships(rows)) = Summary(rows).runs
           /\ PairBalls(Partnerships(rows)) = Summary(rows).legal
<1> DEFINE acc == PartnershipFold(rows)
           N == Len(rows)
<1>1. PICK f : FoldOf(f, rows)
  BY FoldFacts
<1>2. N \in Nat /\ DOMAIN rows = 1 .. N
  BY RowsFacts
<1>3. N \in 0 .. N
  BY <1>2
<1>4. acc = f[N] /\ acc \in Folded
  BY <1>1, <1>3 DEF FoldOf
<1>5. Shared(acc, rows, N)
  BY <1>1, <1>3, <1>4, SharedAlways
<1>6. Scored(rows, 1 .. N) = Summary(rows).runs /\ Cardinality(Legals(rows, N)) = Summary(rows).legal
  <2>1. Summary(rows).runs = Total(rows, DOMAIN rows, EventRuns)
    BY DEF Summary
  <2>2. Summary(rows).legal = Cardinality({i \in DOMAIN rows : rows[i].legal})
    BY DEF Summary, Number
  <2>3. Legals(rows, N) = {i \in DOMAIN rows : rows[i].legal}
    BY <1>2 DEF Legals
  <2>4. QED
    BY <1>2, <2>1, <2>2, <2>3 DEF Scored, Total
<1>7. Partnerships(rows) = IF acc.open THEN Append(acc.done, acc.now) ELSE acc.done
  BY DEF Partnerships
<1>8. acc.done \in Seq(PairRow) /\ acc.now \in PairRow /\ (~acc.open => acc.now = NoPair) /\ acc.open \in BOOLEAN
  BY <1>4 DEF Folded
<1>9. /\ PairRuns(Append(acc.done, acc.now)) = PairRuns(acc.done) + acc.now.runs
      /\ PairBalls(Append(acc.done, acc.now)) = PairBalls(acc.done) + acc.now.balls
      /\ PairRuns(acc.done) \in Nat /\ PairBalls(acc.done) \in Nat
  BY <1>8, PairAppended
<1> HIDE DEF acc, N
<1>10. CASE acc.open
  BY <1>5, <1>6, <1>7, <1>9, <1>10 DEF Shared
<1>11. CASE ~acc.open
  <2>1. acc.now.runs = 0 /\ acc.now.balls = 0
    BY <1>8, <1>11, NoPairTyped
  <2>2. QED
    BY <1>5, <1>6, <1>7, <1>9, <1>11, <2>1 DEF Shared
<1>12. QED
  BY <1>10, <1>11

\* Without retirements each wicket falls at the end of a partnership, and the
\* partnership the screen shows is the last of the website's.
LEMMA PartnershipsFall ==
    ASSUME NEW rows \in Seq(Event), Written(rows), NobodyRetired(rows)
    PROVE  /\ Len(PartnershipFold(rows).done) = Cardinality(DOMAIN FallOfWickets(rows))
           /\ \A i \in DOMAIN FallOfWickets(rows) :
                 FallOfWickets(rows)[i].runs = PairsTo(PartnershipFold(rows).done, FallOfWickets(rows)[i].wicket)
           /\ LivePartnership(rows).balls = PartnershipFold(rows).now.balls
           /\ LivePartnership(rows).runs - PartnershipFold(rows).now.runs \in 0 .. Penalised(rows)
<1> DEFINE acc == PartnershipFold(rows)
           N == Len(rows)
           falls == FallsIn(rows, N)
           since == Since(rows, N)
<1>1. PICK f : FoldOf(f, rows)
  BY FoldFacts
<1>2. N \in Nat /\ DOMAIN rows = 1 .. N /\ \A i \in DOMAIN rows : rows[i] \in Event
  BY RowsFacts
<1>3. N \in 0 .. N
  BY <1>2
<1>4. acc = f[N]
  BY <1>1 DEF FoldOf
<1>5. Pieces(acc, rows, N)
  BY <1>1, <1>3, <1>4, PiecesAlways
<1>6. falls = {i \in DOMAIN rows : CountsAsWicket(rows[i])}
  BY <1>2 DEF FallsIn
<1>7. since = {i \in DOMAIN rows : \A w \in falls : w < i}
  BY <1>2 DEF Since
<1>8. FallOfWickets(rows) =
        [i \in falls |->
            [wicket |-> Cardinality({w \in falls : w <= i}),
             runs |-> Total(rows, 1 .. i, EventRuns), player |-> rows[i].out,
             over |-> rows[i].over, ball |-> rows[i].ball]]
  BY <1>6 DEF FallOfWickets
<1>9. \A i \in falls : {w \in falls : w <= i} = FallsIn(rows, i)
  <2> SUFFICES ASSUME NEW i \in falls PROVE {w \in falls : w <= i} = FallsIn(rows, i)
    OBVIOUS
  <2>1. i \in 1 .. N
    BY <1>2, <1>6
  <2>2. \A w : w \in 1 .. i <=> w \in 1 .. N /\ w <= i
    BY <1>2, <2>1
  <2>3. FallsIn(rows, i) = {w \in 1 .. i : CountsAsWicket(rows[w])}
    BY DEF FallsIn
  <2> HIDE DEF falls, N
  <2>4. QED
    BY <1>2, <1>6, <2>2, <2>3
<1>10. \A i \in falls : Total(rows, 1 .. i, EventRuns) = Scored(rows, 1 .. i)
  BY DEF Total, Scored
<1>11. /\ DOMAIN FallOfWickets(rows) = falls
       /\ \A i \in falls : /\ FallOfWickets(rows)[i].wicket = Cardinality(FallsIn(rows, i))
                           /\ FallOfWickets(rows)[i].runs = Scored(rows, 1 .. i)
  <2> HIDE DEF falls
  <2>1. QED
    BY <1>8, <1>9, <1>10
<1>12. LivePartnership(rows) = [runs |-> Total(rows, since, EventRunsTotal), balls |-> Number(rows, since, Counts)]
  BY <1>6, <1>7 DEF LivePartnership
<1>13. Number(rows, since, Counts) = Cardinality(LegalSince(rows, N))
  <2>1. \A i \in since : Counts(rows[i]) <=> rows[i].legal
    BY <1>2, <1>7, Counted
  <2>2. {i \in since : Counts(rows[i])} = LegalSince(rows, N)
    BY <2>1 DEF LegalSince
  <2>3. QED
    BY <2>2 DEF Number
<1>14. Total(rows, since, EventRunsTotal) - Scored(rows, since) \in 0 .. Penalised(rows)
  <2> DEFINE D == DOMAIN rows
             v == [i \in D |-> EventRuns(rows[i])]
             w == [i \in D |-> rows[i].forFielding]
             u == [i \in D |-> EventRunsTotal(rows[i])]
             S(g, at) == SumFunctionOnSet(g, at)
             rest == D \ since
  <2>1. /\ Total(rows, since, EventRunsTotal) = S(u, since) /\ Scored(rows, since) = S(v, since)
        /\ Penalised(rows) = S(w, D)
    BY DEF Total, Scored, Penalised
  <2>2. IsFiniteSet(since) /\ IsFiniteSet(rest) /\ since \cap rest = {} /\ D = since \cup rest
    <3>1. since \in SUBSET D /\ rest \in SUBSET D
      BY <1>7
    <3>2. QED
      BY <3>1, RowsFacts
  <2>3. ASSUME NEW i \in D
        PROVE  v[i] \in Nat /\ w[i] \in Nat /\ u[i] = v[i] + w[i]
    <3>1. rows[i] \in Event
      BY <1>2
    <3>2. EventRuns(rows[i]) \in Nat /\ rows[i].forFielding \in Nat
      BY <3>1, EventFacts, Readings
    <3>3. EventRunsTotal(rows[i]) = EventRuns(rows[i]) + rows[i].forFielding
      BY DEF EventRunsTotal
    <3>4. QED
      BY <3>2, <3>3
  <2> HIDE DEF D, v, w, u, since, rest
  <2>4. S(u, since) = S(v, since) + S(w, since)
    <3>1. /\ \A i \in since : v[i] \in Int
          /\ \A i \in since : w[i] \in Int
          /\ \A i \in since : u[i] = v[i] + w[i]
      BY <2>2, <2>3
    <3>2. QED
      BY <2>2, <3>1, SumPlus
  <2>5. S(w, D) = S(w, since) + S(w, rest)
    <3>1. \A i \in since \cup rest : w[i] \in Int
      BY <2>2, <2>3
    <3>2. S(w, since \cup rest) = S(w, since) + S(w, rest)
      BY <2>2, <3>1, SumUnion
    <3>3. QED
      BY <2>2, <3>2
  <2>6. S(w, since) \in Nat /\ S(w, rest) \in Nat /\ S(v, since) \in Nat
    <3>1. /\ \A i \in since : w[i] \in Nat
          /\ \A i \in rest : w[i] \in Nat
          /\ \A i \in since : v[i] \in Nat
      BY <2>2, <2>3
    <3>2. QED
      BY <2>2, <3>1, SumNat
  <2> HIDE DEF S
  <2>7. QED
    BY <2>1, <2>4, <2>5, <2>6
<1> HIDE DEF acc, N, falls, since
<1>15. Len(acc.done) = Cardinality(DOMAIN FallOfWickets(rows))
  BY <1>5, <1>11 DEF Pieces, falls
<1>16. \A i \in DOMAIN FallOfWickets(rows) :
          FallOfWickets(rows)[i].runs = PairsTo(acc.done, FallOfWickets(rows)[i].wicket)
  BY <1>5, <1>11 DEF Pieces, falls
<1>17. LivePartnership(rows).balls = acc.now.balls
  BY <1>5, <1>12, <1>13 DEF Pieces
<1>18. LivePartnership(rows).runs - acc.now.runs \in 0 .. Penalised(rows)
  <2>1. acc.now.runs = Scored(rows, since)
    BY <1>5 DEF Pieces, since
  <2>2. LivePartnership(rows).runs = Total(rows, since, EventRunsTotal)
    BY <1>12
  <2>3. QED
    BY <1>14, <2>1, <2>2
<1>19. QED
  BY <1>15, <1>16, <1>17, <1>18 DEF acc

\* The last point of the website's chart of overs is the score.
LEMMA LastOverPoint ==
    ASSUME NEW rows \in Seq(Event), NEW o \in DOMAIN OverStatPoints(rows),
           \A p \in DOMAIN OverStatPoints(rows) : p <= o
    PROVE  /\ OverStatPoints(rows)[o].score = Summary(rows).runs
           /\ OverStatPoints(rows)[o].wickets = Summary(rows).wickets
           /\ OverStatPoints(rows)[o].legal = Summary(rows).legal
<1> DEFINE D == DOMAIN rows
           in == {i \in D : rows[i].over <= o}
           overs == {rows[i].over : i \in D}
<1>1. /\ DOMAIN OverStatPoints(rows) = overs
      /\ OverStatPoints(rows)[o] = [score   |-> Total(rows, in, EventRuns),
                                    wickets |-> Number(rows, in, SiteWicketCounts),
                                    legal   |-> Number(rows, in, Counts)]
  BY DEF OverStatPoints, Names
<1>2. in = D
  BY <1>1
<1>3. \A i \in D : /\ SiteWicketCounts(rows[i]) <=> CountsAsWicket(rows[i])
                   /\ Counts(rows[i]) <=> rows[i].legal
  BY RowsFacts, Counted
<1>4. /\ {i \in D : SiteWicketCounts(rows[i])} = {i \in D : CountsAsWicket(rows[i])}
      /\ {i \in D : Counts(rows[i])} = {i \in D : rows[i].legal}
  BY <1>3
<1>5. /\ Summary(rows).runs = Total(rows, D, EventRuns)
      /\ Summary(rows).wickets = Cardinality({i \in D : CountsAsWicket(rows[i])})
      /\ Summary(rows).legal = Cardinality({i \in D : rows[i].legal})
  BY DEF Summary, Number
<1>6. /\ Number(rows, D, SiteWicketCounts) = Cardinality({i \in D : SiteWicketCounts(rows[i])})
      /\ Number(rows, D, Counts) = Cardinality({i \in D : Counts(rows[i])})
  BY DEF Number
<1>7. OverStatPoints(rows)[o] = [score   |-> Total(rows, D, EventRuns),
                                 wickets |-> Number(rows, D, SiteWicketCounts),
                                 legal   |-> Number(rows, D, Counts)]
  BY <1>1, <1>2
<1> DEFINE p == OverStatPoints(rows)[o]
           runs == Total(rows, D, EventRuns)
           fell == Number(rows, D, SiteWicketCounts)
           legal == Number(rows, D, Counts)
<1>8. p = [score |-> runs, wickets |-> fell, legal |-> legal]
  BY <1>7
<1>9. runs = Summary(rows).runs /\ fell = Summary(rows).wickets /\ legal = Summary(rows).legal
  BY <1>4, <1>5, <1>6
<1> HIDE DEF runs, fell, legal, p
<1>10. p.score = runs /\ p.wickets = fell /\ p.legal = legal
  BY <1>8
<1>11. QED
  BY <1>9, <1>10 DEF p

\* The two phases of the innings make up the score.
LEMMA PhasesShare ==
    ASSUME NEW rows \in Seq(Event)
    PROVE  /\ Breakdown(rows).inside.runs + Breakdown(rows).outside.runs = Summary(rows).runs
           /\ Breakdown(rows).inside.wickets + Breakdown(rows).outside.wickets = Summary(rows).wickets
<1> DEFINE D == DOMAIN rows
           inside == {i \in D : Number(rows, 1 .. (i - 1), Counts) < PowerplayOvers(Overs) * BallsPerOver}
           outside == D \ inside
           v == [i \in D |-> EventRuns(rows[i])]
           Falls(at) == {i \in at : SiteWicketCounts(rows[i])}
<1>1. /\ Breakdown(rows).inside.runs = SumFunctionOnSet(v, inside)
      /\ Breakdown(rows).outside.runs = SumFunctionOnSet(v, outside)
      /\ Breakdown(rows).inside.wickets = Cardinality(Falls(inside))
      /\ Breakdown(rows).outside.wickets = Cardinality(Falls(outside))
  BY DEF Breakdown, Total, Number
<1>2. /\ Summary(rows).runs = SumFunctionOnSet(v, D)
      /\ Summary(rows).wickets = Cardinality({i \in D : CountsAsWicket(rows[i])})
  BY DEF Summary, Total, Number
<1>3. IsFiniteSet(inside) /\ IsFiniteSet(outside) /\ inside \cap outside = {} /\ D = inside \cup outside
  <2>1. inside \in SUBSET D /\ outside \in SUBSET D
    OBVIOUS
  <2> HIDE DEF inside
  <2>2. QED
    BY <2>1, RowsFacts
<1>4. \A i \in D : v[i] \in Int /\ (SiteWicketCounts(rows[i]) <=> CountsAsWicket(rows[i]))
  <2> SUFFICES ASSUME NEW i \in D
               PROVE  v[i] \in Int /\ (SiteWicketCounts(rows[i]) <=> CountsAsWicket(rows[i]))
    OBVIOUS
  <2>1. rows[i] \in Event
    BY RowsFacts
  <2>2. EventRuns(rows[i]) \in Nat
    BY <2>1, Readings
  <2>3. QED
    BY <2>1, <2>2, Counted
<1>5. Falls(D) = {i \in D : CountsAsWicket(rows[i])}
  BY <1>4
<1>6. /\ Falls(inside) \in SUBSET Falls(D) /\ Falls(outside) \in SUBSET Falls(D)
      /\ Falls(inside) \cap Falls(outside) = {} /\ Falls(D) = Falls(inside) \cup Falls(outside)
  <2> HIDE DEF inside
  <2>1. QED
    BY <1>3
<1>7. IsFiniteSet(Falls(D))
  <2>1. Falls(D) \in SUBSET D
    OBVIOUS
  <2>2. QED
    BY <2>1, RowsFacts
<1>8. Cardinality(Falls(D)) = Cardinality(Falls(inside)) + Cardinality(Falls(outside))
  <2> HIDE DEF Falls
  <2>1. QED
    BY <1>6, <1>7, CountedApart
<1> HIDE DEF inside, outside, v, D, Falls
<1>9. SumFunctionOnSet(v, inside \cup outside) = SumFunctionOnSet(v, inside) + SumFunctionOnSet(v, outside)
  <2>1. \A i \in inside \cup outside : v[i] \in Int
    BY <1>3, <1>4
  <2>2. QED
    BY <1>3, <2>1, SumUnion
<1>10. QED
  BY <1>1, <1>2, <1>3, <1>5, <1>8, <1>9

\* The partnerships add up to the score and the balls; without retirements they
\* are cut at the falls of wickets, and the open one is the screen's
\* (computeMiniDashboard, livePartnership, liveFallOfWickets, overStatPoints,
\* liveScoringBreakdown).
THEOREM PartnershipsAddUp == Spec => []PartnershipsAccounted
<1>1. SheetInv => PartnershipsAccounted
  <2> SUFFICES ASSUME NEW rows \in Seq(Event), Written(rows) PROVE PartnershipsAddUpTo(rows)
    BY InningsWritten DEF PartnershipsAccounted
  <2> DEFINE pairs == Partnerships(rows)
             falls == FallOfWickets(rows)
             overs == OverStatPoints(rows)
             open == PartnershipFold(rows)
  <2>1. rows \in Seq(Event) /\ Written(rows)
    OBVIOUS
  <2>2. /\ Total(pairs, DOMAIN pairs, LAMBDA p : p.runs) = Summary(rows).runs
        /\ Total(pairs, DOMAIN pairs, LAMBDA p : p.balls) = Summary(rows).legal
    BY <2>1, PartnershipsShare DEF PairRuns, PairBalls
  <2>3. (\A k \in DOMAIN rows : ~Retired(rows[k])) =>
          /\ Len(open.done) = Cardinality(DOMAIN falls)
          /\ \A i \in DOMAIN falls :
                falls[i].runs = Total(open.done, 1 .. falls[i].wicket, LAMBDA p : p.runs)
          /\ LivePartnership(rows).balls = open.now.balls
          /\ LivePartnership(rows).runs - open.now.runs \in 0 .. Penalised(rows)
    <3> SUFFICES ASSUME NobodyRetired(rows)
                 PROVE  /\ Len(open.done) = Cardinality(DOMAIN falls)
                        /\ \A i \in DOMAIN falls :
                              falls[i].runs = Total(open.done, 1 .. falls[i].wicket, LAMBDA p : p.runs)
                        /\ LivePartnership(rows).balls = open.now.balls
                        /\ LivePartnership(rows).runs - open.now.runs \in 0 .. Penalised(rows)
      BY DEF NobodyRetired
    <3>1. \A i \in DOMAIN falls : falls[i].runs = PairsTo(open.done, falls[i].wicket)
      BY <2>1, PartnershipsFall
    <3>2. QED
      BY <2>1, <3>1, PartnershipsFall DEF PairsTo
  <2>4. \A o \in DOMAIN overs : (\A p \in DOMAIN overs : p <= o) =>
          /\ overs[o].score = Summary(rows).runs
          /\ overs[o].wickets = Summary(rows).wickets
          /\ overs[o].legal = Summary(rows).legal
    BY <2>1, LastOverPoint
  <2>5. /\ Breakdown(rows).inside.runs + Breakdown(rows).outside.runs = Summary(rows).runs
        /\ Breakdown(rows).inside.wickets + Breakdown(rows).outside.wickets = Summary(rows).wickets
    BY <2>1, PhasesShare
  <2>6. QED
    BY <2>2, <2>3, <2>4, <2>5 DEF PartnershipsAddUpTo
<1>2. QED
  BY <1>1, SheetInvariant, PTL DEF Spec
=============================================================================
