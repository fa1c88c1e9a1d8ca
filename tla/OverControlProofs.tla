------------------------- MODULE OverControlProofs -------------------------
(***************************************************************************)
(* Labels, bowlers and strike of an innings, for every squad, length of an *)
(* over and number of overs, and any number of events of each kind.        *)
(***************************************************************************)
EXTENDS OverControl, NatLemmas

\* Who comes in for a batter who is out is a batter.
Ball == {e \in Event : e.kind = "out" => e.next \in BatterSet}
Place == [over : Nat, balls : Nat]
Ends == [striker : BatterSet, other : BatterSet, place : Place]

-----------------------------------------------------------------------------
(* What the operators of the model return *)

LEMMA FirstPlayers ==
    /\ Batters[1] \in BatterSet /\ Batters[2] \in BatterSet
    /\ Bowlers[1] \in BowlerSet
<1>1. 1 \in DOMAIN Batters /\ 2 \in DOMAIN Batters /\ 1 \in DOMAIN Bowlers
  BY SideAssumption
<1>2. QED
  BY <1>1 DEF BatterSet, BowlerSet

LEMMA AfterType ==
    ASSUME NEW p \in Place, NEW e \in Ball
    PROVE  After(p, e) \in Place
<1>1. BallsWith(p.balls, e) \in Nat
  BY DEF BallsWith, Place
<1>2. QED
  BY <1>1 DEF After, Place

\* The place after each delivery comes from the place before it.
LEMMA PlacesFacts ==
    ASSUME NEW s \in Seq(Ball)
    PROVE  /\ Places(s) \in [0 .. Len(s) -> Place]
           /\ Places(s)[0] = Start
           /\ \A n \in 1 .. Len(s) : Places(s)[n] = After(Places(s)[n - 1], s[n])
<1> DEFINE N == Len(s)
           Is(g) == g = [n \in 0 .. N |-> IF n = 0 THEN Start ELSE After(g[n - 1], s[n])]
           F == CHOOSE g : Is(g)
<1>1. N \in Nat /\ \A n \in 1 .. N : s[n] \in Ball
  OBVIOUS
<1>2. Places(s) = F
  BY DEF Places
<1>3. Start \in Place
  BY DEF Start, Place
<1>4. \E g : Is(g)
  <2> DEFINE step == [p \in (1 .. N) \X Place |-> After(p[2], s[p[1]])]
  <2>1. step \in [(1 .. N) \X Place -> Place]
    BY <1>1, AfterType
  <2>2. \A i \in 1 .. N : \A p \in Place : step[<<i, p>>] = After(p, s[i])
    OBVIOUS
  <2> HIDE DEF step, N
  <2>3. PICK f \in Recursive(N, Place, Start, step) : TRUE
    BY <1>1, <1>3, <2>1, Recursion
  <2>4. f \in [0 .. N -> Place] /\ f[0] = Start /\ \A i \in 1 .. N : f[i] = step[<<i, f[i - 1]>>]
    BY DEF Recursive
  <2>5. \A i \in 1 .. N : i - 1 \in 0 .. N
    BY <1>1
  <2>6. \A i \in 0 .. N : f[i] = IF i = 0 THEN Start ELSE After(f[i - 1], s[i])
    <3>1. \A i \in 1 .. N : f[i - 1] \in Place /\ f[i] = step[<<i, f[i - 1]>>]
      BY <2>5, <2>4
    <3>2. \A i \in 1 .. N : f[i] = After(f[i - 1], s[i])
      BY <2>2, <3>1
    <3>3. QED
      BY <1>1, <2>4, <3>2
  <2>7. f = [i \in 0 .. N |-> f[i]]
    BY <2>4
  <2>8. Is(f)
    BY <2>6, <2>7
  <2>9. QED
    BY <2>8
<1> HIDE DEF Is
<1>5. Is(F)
  BY <1>4
<1> HIDE DEF F
<1>6. F = [n \in 0 .. N |-> IF n = 0 THEN Start ELSE After(F[n - 1], s[n])]
  BY <1>5 DEF Is
<1> HIDE DEF N
<1>7. F[0] = Start
  BY <1>1, <1>6
<1>8. \A n \in 1 .. N : F[n] = After(F[n - 1], s[n])
  BY <1>1, <1>6
<1>9. \A n \in 0 .. N : F[n] \in Place
  <2> DEFINE T == {n \in 0 .. N : F[n] \in Place}
  <2>1. 0 \in T
    BY <1>1, <1>3, <1>7
  <2>2. ASSUME NEW n \in 1 .. N, n - 1 \in T
        PROVE  n \in T
    <3>1. F[n] = After(F[n - 1], s[n]) /\ F[n - 1] \in Place /\ s[n] \in Ball /\ n \in 0 .. N
      BY <1>1, <1>8, <2>2
    <3>2. F[n] \in Place
      BY <3>1, AfterType
    <3>3. QED
      BY <3>1, <3>2
  <2> HIDE DEF T
  <2>3. \A n \in 0 .. N : n \in T
    BY <1>1, <2>1, <2>2, UpTo
  <2>4. QED
    BY <2>3 DEF T
<1>10. F \in [0 .. N -> Place]
  BY <1>6, <1>9
<1>11. QED
  BY <1>2, <1>7, <1>8, <1>10 DEF N

\* Two lists that agree up to a delivery, as far as overs are concerned, have
\* the same places up to it.
LEMMA PlacesSame ==
    ASSUME NEW s \in Seq(Ball), NEW t \in Seq(Ball), NEW N \in Nat, N =< Len(s), N =< Len(t),
           \A i \in 1 .. N : \A p \in Place : After(p, s[i]) = After(p, t[i])
    PROVE  \A n \in 0 .. N : Places(s)[n] = Places(t)[n]
<1> DEFINE P == Places(s)
           Q == Places(t)
           T == {n \in 0 .. N : P[n] = Q[n]}
<1>1. /\ P \in [0 .. Len(s) -> Place]
      /\ P[0] = Start
      /\ \A n \in 1 .. Len(s) : P[n] = After(P[n - 1], s[n])
      /\ Q[0] = Start
      /\ \A n \in 1 .. Len(t) : Q[n] = After(Q[n - 1], t[n])
  BY PlacesFacts
<1>2. Len(s) \in Nat /\ Len(t) \in Nat
  OBVIOUS
<1> HIDE DEF P, Q
<1>3. 0 \in T
  BY <1>1
<1>4. ASSUME NEW n \in 1 .. N, n - 1 \in T
      PROVE  n \in T
  <2>1. n \in 1 .. Len(s) /\ n \in 1 .. Len(t) /\ n - 1 \in 0 .. Len(s)
    BY <1>2
  <2>2. P[n] = After(P[n - 1], s[n]) /\ Q[n] = After(Q[n - 1], t[n]) /\ P[n - 1] \in Place
    BY <1>1, <2>1
  <2>3. P[n - 1] = Q[n - 1]
    BY <1>4
  <2>4. P[n] = Q[n]
    BY <2>2, <2>3
  <2>5. QED
    BY <2>4
<1> HIDE DEF T
<1>5. \A n \in 0 .. N : n \in T
  BY <1>3, <1>4, UpTo
<1>6. QED
  BY <1>5 DEF T, P, Q

\* An over is never taken back by a later delivery.
LEMMA OversOnlyGrow ==
    ASSUME NEW s \in Seq(Ball)
    PROVE  \A n \in 0 .. Len(s) : \A i \in 0 .. n : Places(s)[i].over =< Places(s)[n].over
<1> DEFINE N == Len(s)
           P == Places(s)
           T == {n \in 0 .. N : \A i \in 0 .. n : P[i].over =< P[n].over}
<1>1. /\ N \in Nat
      /\ P \in [0 .. N -> Place]
      /\ \A n \in 1 .. N : P[n] = After(P[n - 1], s[n])
  BY PlacesFacts
<1>2. \A p \in Place : \A e \in Ball : After(p, e).over \in {p.over, p.over + 1}
  BY DEF After, Place
<1>3. \A n \in 1 .. N : s[n] \in Ball
  OBVIOUS
<1>4. \A n \in 0 .. N : P[n].over \in Nat
  BY <1>1 DEF Place
<1> HIDE DEF P, N
<1>5. 0 \in T
  BY <1>1, <1>4
<1>6. ASSUME NEW n \in 1 .. N, n - 1 \in T
      PROVE  n \in T
  <2>1. n - 1 \in 0 .. N /\ n \in 0 .. N
    BY <1>1
  <2>2. P[n].over \in {P[n - 1].over, P[n - 1].over + 1}
    BY <1>1, <1>2, <1>3, <2>1
  <2>3. P[n - 1].over =< P[n].over
    BY <1>4, <2>1, <2>2
  <2>4. ASSUME NEW i \in 0 .. n
        PROVE  P[i].over =< P[n].over
    <3>1. CASE i = n
      BY <3>1, <1>4, <2>1
    <3>2. CASE i # n
      <4>1. i \in 0 .. (n - 1) /\ i \in 0 .. N
        BY <3>2, <1>1
      <4>2. P[i].over =< P[n - 1].over
        BY <1>6, <4>1
      <4>3. QED
        BY <1>4, <2>1, <2>3, <4>1, <4>2
    <3>3. QED
      BY <3>1, <3>2
  <2>5. QED
    BY <2>1, <2>4
<1> HIDE DEF T
<1>7. \A n \in 0 .. N : n \in T
  BY <1>1, <1>5, <1>6, UpTo
<1>8. QED
  BY <1>7 DEF T, P, N

LEMMA FaceType ==
    ASSUME NEW p \in Ends, NEW e \in Ball
    PROVE  Face(p, e) \in Ends /\ Face(p, e).place = After(p.place, e)
<1>1. p.place \in Place /\ p.striker \in BatterSet /\ p.other \in BatterSet
  BY DEF Ends
<1>2. After(p.place, e) \in Place
  BY <1>1, AfterType
<1>3. e.striker \in BatterSet /\ (e.kind = "out" => e.next \in BatterSet)
  BY DEF Ball, Event
<1>4. QED
  BY <1>1, <1>2, <1>3 DEF Face, Ends

\* The same for the batters.
LEMMA FacesFacts ==
    ASSUME NEW s \in Seq(Ball)
    PROVE  /\ Faces(s) \in [0 .. Len(s) -> Ends]
           /\ Faces(s)[0] = [striker |-> Batters[1], other |-> Batters[2], place |-> Start]
           /\ \A n \in 1 .. Len(s) : Faces(s)[n] = Face(Faces(s)[n - 1], s[n])
<1> DEFINE N == Len(s)
           first == [striker |-> Batters[1], other |-> Batters[2], place |-> Start]
           Is(g) == g = [n \in 0 .. N |-> IF n = 0 THEN first ELSE Face(g[n - 1], s[n])]
           F == CHOOSE g : Is(g)
<1>1. N \in Nat /\ \A n \in 1 .. N : s[n] \in Ball
  OBVIOUS
<1>2. Faces(s) = F
  BY DEF Faces
<1>3. first \in Ends
  BY FirstPlayers DEF Start, Place, Ends
<1> HIDE DEF first
<1>4. \E g : Is(g)
  <2> DEFINE step == [p \in (1 .. N) \X Ends |-> Face(p[2], s[p[1]])]
  <2>1. step \in [(1 .. N) \X Ends -> Ends]
    BY <1>1, FaceType
  <2>2. \A i \in 1 .. N : \A p \in Ends : step[<<i, p>>] = Face(p, s[i])
    OBVIOUS
  <2> HIDE DEF step, N
  <2>3. PICK f \in Recursive(N, Ends, first, step) : TRUE
    BY <1>1, <1>3, <2>1, Recursion
  <2>4. f \in [0 .. N -> Ends] /\ f[0] = first /\ \A i \in 1 .. N : f[i] = step[<<i, f[i - 1]>>]
    BY DEF Recursive
  <2>5. \A i \in 1 .. N : i - 1 \in 0 .. N
    BY <1>1
  <2>6. \A i \in 1 .. N : f[i - 1] \in Ends /\ f[i] = step[<<i, f[i - 1]>>]
    BY <2>4, <2>5
  <2>7. \A i \in 1 .. N : f[i] = Face(f[i - 1], s[i])
    BY <2>2, <2>6
  <2>8. \A i \in 0 .. N : f[i] = IF i = 0 THEN first ELSE Face(f[i - 1], s[i])
    BY <1>1, <2>4, <2>7
  <2>9. f = [i \in 0 .. N |-> f[i]]
    BY <2>4
  <2>10. Is(f)
    BY <2>8, <2>9
  <2>11. QED
    BY <2>10
<1> HIDE DEF Is
<1>5. Is(F)
  BY <1>4
<1> HIDE DEF F
<1>6. F = [n \in 0 .. N |-> IF n = 0 THEN first ELSE Face(F[n - 1], s[n])]
  BY <1>5 DEF Is
<1> HIDE DEF N
<1>7. F[0] = first
  BY <1>1, <1>6
<1>8. \A n \in 1 .. N : F[n] = Face(F[n - 1], s[n])
  BY <1>1, <1>6
<1>9. \A n \in 0 .. N : F[n] \in Ends
  <2> DEFINE T == {n \in 0 .. N : F[n] \in Ends}
  <2>1. 0 \in T
    BY <1>1, <1>3, <1>7
  <2>2. ASSUME NEW n \in 1 .. N, n - 1 \in T
        PROVE  n \in T
    <3>1. F[n] = Face(F[n - 1], s[n]) /\ F[n - 1] \in Ends /\ s[n] \in Ball /\ n \in 0 .. N
      BY <1>1, <1>8, <2>2
    <3>2. F[n] \in Ends
      BY <3>1, FaceType
    <3>3. QED
      BY <3>1, <3>2
  <2> HIDE DEF T
  <2>3. \A n \in 0 .. N : n \in T
    BY <1>1, <2>1, <2>2, UpTo
  <2>4. QED
    BY <2>3 DEF T
<1>10. F \in [0 .. N -> Ends]
  BY <1>6, <1>9
<1>11. QED
  BY <1>2, <1>7, <1>8, <1>10 DEF N, first

LEMMA FacesSame ==
    ASSUME NEW s \in Seq(Ball), NEW t \in Seq(Ball), NEW N \in Nat, N =< Len(s), N =< Len(t),
           \A i \in 1 .. N : \A p \in Ends : Face(p, s[i]) = Face(p, t[i])
    PROVE  \A n \in 0 .. N : Faces(s)[n] = Faces(t)[n]
<1> DEFINE P == Faces(s)
           Q == Faces(t)
           T == {n \in 0 .. N : P[n] = Q[n]}
<1>1. /\ P \in [0 .. Len(s) -> Ends]
      /\ \A n \in 1 .. Len(s) : P[n] = Face(P[n - 1], s[n])
      /\ P[0] = Q[0]
      /\ \A n \in 1 .. Len(t) : Q[n] = Face(Q[n - 1], t[n])
  BY FacesFacts
<1>2. Len(s) \in Nat /\ Len(t) \in Nat
  OBVIOUS
<1> HIDE DEF P, Q
<1>3. 0 \in T
  BY <1>1
<1>4. ASSUME NEW n \in 1 .. N, n - 1 \in T
      PROVE  n \in T
  <2>1. n \in 1 .. Len(s) /\ n \in 1 .. Len(t) /\ n - 1 \in 0 .. Len(s)
    BY <1>2
  <2>2. P[n] = Face(P[n - 1], s[n]) /\ Q[n] = Face(Q[n - 1], t[n]) /\ P[n - 1] \in Ends
    BY <1>1, <2>1
  <2>3. P[n - 1] = Q[n - 1]
    BY <1>4
  <2>4. P[n] = Q[n]
    BY <2>2, <2>3
  <2>5. QED
    BY <2>4
<1> HIDE DEF T
<1>5. \A n \in 0 .. N : n \in T
  BY <1>3, <1>4, UpTo
<1>6. QED
  BY <1>5 DEF T, P, Q

\* The place that goes with the batters is the place of the overs.
LEMMA FacesHavePlaces ==
    ASSUME NEW s \in Seq(Ball)
    PROVE  \A n \in 0 .. Len(s) : Faces(s)[n].place = Places(s)[n]
<1> DEFINE N == Len(s)
           P == Places(s)
           F == Faces(s)
           T == {n \in 0 .. N : F[n].place = P[n]}
<1>1. /\ N \in Nat
      /\ F \in [0 .. N -> Ends]
      /\ F[0].place = Start
      /\ \A n \in 1 .. N : F[n] = Face(F[n - 1], s[n])
  BY FacesFacts
<1>2. P[0] = Start /\ \A n \in 1 .. N : P[n] = After(P[n - 1], s[n])
  BY PlacesFacts
<1>3. \A n \in 1 .. N : s[n] \in Ball
  OBVIOUS
<1> HIDE DEF P, F, N
<1>4. 0 \in T
  BY <1>1, <1>2
<1>5. ASSUME NEW n \in 1 .. N, n - 1 \in T
      PROVE  n \in T
  <2>1. n - 1 \in 0 .. N /\ n \in 0 .. N
    BY <1>1
  <2>2. F[n].place = After(F[n - 1].place, s[n])
    BY <1>1, <1>3, <2>1, FaceType
  <2>3. QED
    BY <1>2, <1>5, <2>1, <2>2
<1> HIDE DEF T
<1>6. \A n \in 0 .. N : n \in T
  BY <1>1, <1>4, <1>5, UpTo
<1>7. QED
  BY <1>6 DEF T, F, P, N

-----------------------------------------------------------------------------
(* Numbering the deliveries again *)

\* Labels that the server would leave as they are, and labels of the screen.
Numbered(s) ==
    \A i \in DOMAIN s : LET place == Places(CallsCounted(s))[i - 1]
                        IN  s[i].over = place.over /\ s[i].ball = place.balls + 1

\* One delivery under two labels, and perhaps of two bowlers.
Alike(e, f) ==
    /\ e.id = f.id /\ e.kind = f.kind /\ e.override = f.override
    /\ e.striker = f.striker /\ e.other = f.other /\ e.next = f.next

\* One delivery under two labels.
Same(e, f) == Alike(e, f) /\ e.bowler = f.bowler

\* What a delivery does to overs and batters does not depend on its label.
LEMMA SameEffect ==
    ASSUME NEW e \in Ball, NEW f \in Ball, Alike(e, f)
    PROVE  /\ \A p \in Place : After(p, e) = After(p, f)
           /\ \A p \in Ends : Face(p, e) = Face(p, f)
<1>1. /\ e.kind = f.kind /\ e.override = f.override
      /\ e.striker = f.striker /\ e.other = f.other /\ e.next = f.next
  BY DEF Alike
<1>2. ASSUME NEW p \in Place
      PROVE  After(p, e) = After(p, f)
  <2>1. IsLegal(e) <=> IsLegal(f)
    BY <1>1 DEF IsLegal
  <2>2. BallsWith(p.balls, e) = BallsWith(p.balls, f)
    BY <2>1 DEF BallsWith
  <2>3. ClosesOver(e, BallsWith(p.balls, e)) <=> ClosesOver(f, BallsWith(p.balls, f))
    BY <1>1, <2>1, <2>2 DEF ClosesOver, IsDead
  <2>4. QED
    BY <2>2, <2>3 DEF After
<1>3. ASSUME NEW p \in Ends
      PROVE  Face(p, e) = Face(p, f)
  <2>1. p.place \in Place
    BY DEF Ends
  <2>2. After(p.place, e) = After(p.place, f)
    BY <1>2, <2>1
  <2>3. QED
    BY <1>1, <2>2 DEF Face
<1>4. QED
  BY <1>2, <1>3

LEMMA LabelledFacts ==
    ASSUME NEW e \in Ball, NEW p \in Place
    PROVE  /\ Labelled(e, p) \in Ball
           /\ Same(Labelled(e, p), e)
           /\ Labelled(e, p).over = p.over /\ Labelled(e, p).ball = p.balls + 1
           /\ e.over = p.over /\ e.ball = p.balls + 1 => Labelled(e, p) = e
<1> DEFINE at == [e EXCEPT !.over = p.over, !.ball = p.balls + 1]
           up == [at EXCEPT !.updated = @ + 1]
<1>1. e \in Event /\ p.over \in Nat /\ p.balls + 1 \in Nat /\ (e.kind = "out" => e.next \in BatterSet)
  BY DEF Ball, Place
<1>2. at \in Event /\ at.over = p.over /\ at.ball = p.balls + 1 /\ Same(at, e)
  BY <1>1 DEF Event, Same, Alike
<1>3. e.over = p.over /\ e.ball = p.balls + 1 => at = e
  BY <1>1 DEF Event
<1>4. Labelled(e, p) = IF at = e THEN e ELSE up
  BY DEF Labelled
<1> HIDE DEF at
<1>5. up \in Event /\ up.over = at.over /\ up.ball = at.ball /\ Same(up, at)
  BY <1>2 DEF Event, Same, Alike
<1> HIDE DEF up
<1>6. Same(up, e) /\ up.over = p.over /\ up.ball = p.balls + 1
  BY <1>2, <1>5 DEF Same, Alike
<1>7. CASE at = e
  BY <1>1, <1>2, <1>4, <1>7 DEF Ball
<1>8. CASE at # e
  <2>1. Labelled(e, p) = up
    BY <1>4, <1>8
  <2>2. up \in Ball
    BY <1>1, <1>5, <1>6 DEF Ball, Same, Alike
  <2>3. QED
    BY <1>3, <1>6, <1>8, <2>1, <2>2
<1>9. QED
  BY <1>7, <1>8

LEMMA CallsCountedFacts ==
    ASSUME NEW s \in Seq(Ball)
    PROVE  /\ CallsCounted(s) \in Seq(Ball)
           /\ Len(CallsCounted(s)) = Len(s)
           /\ \A i \in 1 .. Len(s) :
                 CallsCounted(s)[i] = IF IsLegal(s[i]) THEN s[i] ELSE [s[i] EXCEPT !.override = "none"]
<1> DEFINE N == Len(s)
           t == CallsCounted(s)
<1>1. N \in Nat /\ DOMAIN s = 1 .. N /\ \A i \in 1 .. N : s[i] \in Ball
  OBVIOUS
<1>2. \A e \in Ball : [e EXCEPT !.override = "none"] \in Ball
  BY DEF Ball, Event, Override
<1>3. t = [i \in 1 .. N |-> IF IsLegal(s[i]) THEN s[i] ELSE [s[i] EXCEPT !.override = "none"]]
  BY <1>1 DEF CallsCounted
<1> HIDE DEF t, N
<1>4. \A i \in 1 .. N : t[i] \in Ball
  BY <1>1, <1>2, <1>3
<1>5. t \in Seq(Ball) /\ Len(t) = N
  BY <1>1, <1>3, <1>4
<1>6. QED
  BY <1>3, <1>5 DEF t, N

\* The server's places for two lists of the same deliveries.
LEMMA CountedSame ==
    ASSUME NEW s \in Seq(Ball), NEW t \in Seq(Ball), NEW N \in Nat, N =< Len(s), N =< Len(t),
           \A i \in 1 .. N : Same(s[i], t[i])
    PROVE  \A n \in 0 .. N : Places(CallsCounted(s))[n] = Places(CallsCounted(t))[n]
<1> DEFINE u == CallsCounted(s)
           v == CallsCounted(t)
<1>1. /\ u \in Seq(Ball) /\ Len(u) = Len(s)
      /\ v \in Seq(Ball) /\ Len(v) = Len(t)
  BY CallsCountedFacts
<1>2. ASSUME NEW i \in 1 .. N
      PROVE  u[i] \in Ball /\ v[i] \in Ball /\ Same(u[i], v[i])
  <2>1. i \in 1 .. Len(s) /\ i \in 1 .. Len(t)
    OBVIOUS
  <2>2. /\ u[i] = IF IsLegal(s[i]) THEN s[i] ELSE [s[i] EXCEPT !.override = "none"]
        /\ v[i] = IF IsLegal(t[i]) THEN t[i] ELSE [t[i] EXCEPT !.override = "none"]
    BY <2>1, CallsCountedFacts
  <2>3. s[i] \in Ball /\ t[i] \in Ball /\ Same(s[i], t[i]) /\ s[i] \in Event /\ t[i] \in Event
    BY <2>1 DEF Ball
  <2>4. IsLegal(s[i]) <=> IsLegal(t[i])
    BY <2>3 DEF IsLegal, Same, Alike
  <2> HIDE DEF u, v
  <2>5. CASE IsLegal(s[i])
    BY <2>2, <2>3, <2>4, <2>5
  <2>6. CASE ~IsLegal(s[i])
    <3>1. Same([s[i] EXCEPT !.override = "none"], [t[i] EXCEPT !.override = "none"])
      BY <2>3 DEF Event, Same, Alike
    <3>2. u[i] \in Ball /\ v[i] \in Ball
      BY <1>1, <2>1
    <3>3. QED
      BY <2>2, <2>4, <2>6, <3>1, <3>2
  <2>7. QED
    BY <2>5, <2>6
<1> HIDE DEF u, v
<1>3. \A i \in 1 .. N : \A p \in Place : After(p, u[i]) = After(p, v[i])
  BY <1>2, SameEffect DEF Same
<1>4. \A n \in 0 .. N : Places(u)[n] = Places(v)[n]
  BY <1>1, <1>3, PlacesSame
<1>5. QED
  BY <1>4 DEF u, v

\* Without a call that ends an over after a delivery which is not legal, the
\* places of the server are those of the screen.
LEMMA CountedAsShown ==
    ASSUME NEW s \in Seq(Ball), NEW N \in Nat, N =< Len(s),
           \A i \in 1 .. N : ~IsLegal(s[i]) => s[i].override # "end"
    PROVE  \A n \in 0 .. N : Places(CallsCounted(s))[n] = Places(s)[n]
<1> DEFINE u == CallsCounted(s)
<1>1. u \in Seq(Ball) /\ Len(u) = Len(s)
  BY CallsCountedFacts
<1>2. ASSUME NEW i \in 1 .. N, NEW p \in Place
      PROVE  After(p, u[i]) = After(p, s[i])
  <2>1. i \in 1 .. Len(s)
    OBVIOUS
  <2>2. u[i] = IF IsLegal(s[i]) THEN s[i] ELSE [s[i] EXCEPT !.override = "none"]
    BY <2>1, CallsCountedFacts
  <2>3. s[i] \in Event
    BY <2>1 DEF Ball
  <2> HIDE DEF u
  <2>4. CASE IsLegal(s[i])
    BY <2>2, <2>4
  <2>5. CASE ~IsLegal(s[i])
    <3>1. u[i].kind = s[i].kind /\ u[i].override = "none" /\ s[i].override # "end"
      BY <2>2, <2>3, <2>5 DEF Event
    <3>2. ~IsLegal(u[i])
      BY <2>5, <3>1 DEF IsLegal
    <3>3. BallsWith(p.balls, u[i]) = p.balls /\ BallsWith(p.balls, s[i]) = p.balls
      BY <2>5, <3>2 DEF BallsWith
    <3>4. ~ClosesOver(u[i], p.balls) /\ ~ClosesOver(s[i], p.balls)
      BY <2>5, <3>1, <3>2 DEF ClosesOver
    <3>5. QED
      BY <3>3, <3>4 DEF After
  <2>6. QED
    BY <2>4, <2>5
<1> HIDE DEF u
<1>3. \A n \in 0 .. N : Places(u)[n] = Places(s)[n]
  BY <1>1, <1>2, PlacesSame
<1>4. QED
  BY <1>3 DEF u

LEMMA RenumberedFacts ==
    ASSUME NEW s \in Seq(Ball)
    PROVE  LET t == RenumberLiveEvents(s)
           IN  /\ t \in Seq(Ball) /\ Len(t) = Len(s)
               /\ \A i \in 1 .. Len(s) : Same(t[i], s[i])
               /\ Numbered(t)
               /\ \A i \in 1 .. Len(s) :
                     LET place == Places(CallsCounted(s))[i - 1]
                     IN  /\ t[i].over = place.over /\ t[i].ball = place.balls + 1
                         /\ s[i].over = place.over /\ s[i].ball = place.balls + 1 => t[i] = s[i]
<1> DEFINE N == Len(s)
           t == RenumberLiveEvents(s)
           P == Places(CallsCounted(s))
           Q == Places(CallsCounted(t))
<1>1. N \in Nat /\ DOMAIN s = 1 .. N /\ \A i \in 1 .. N : s[i] \in Ball
  OBVIOUS
<1>2. P \in [0 .. N -> Place]
  BY CallsCountedFacts, PlacesFacts
<1>3. t = [i \in 1 .. N |-> Labelled(s[i], P[i - 1])]
  BY <1>1 DEF RenumberLiveEvents
<1> HIDE DEF P, t, N
<1>4. ASSUME NEW i \in 1 .. N
      PROVE  /\ t[i] \in Ball
             /\ Same(t[i], s[i])
             /\ t[i].over = P[i - 1].over /\ t[i].ball = P[i - 1].balls + 1
             /\ s[i].over = P[i - 1].over /\ s[i].ball = P[i - 1].balls + 1 => t[i] = s[i]
  <2>1. t[i] = Labelled(s[i], P[i - 1]) /\ P[i - 1] \in Place /\ s[i] \in Ball
    BY <1>1, <1>2, <1>3
  <2>2. QED
    BY <2>1, LabelledFacts
<1>5. t \in Seq(Ball) /\ Len(t) = N /\ DOMAIN t = 1 .. N
  BY <1>1, <1>3, <1>4
<1>6. \A n \in 0 .. N : Q[n] = P[n]
  BY <1>1, <1>4, <1>5, CountedSame DEF P, N
<1>7. Numbered(t)
  <2> HIDE DEF Q
  <2>1. \A i \in 1 .. N : Q[i - 1] = P[i - 1]
    BY <1>1, <1>6
  <2>2. \A i \in 1 .. N : t[i].over = Q[i - 1].over /\ t[i].ball = Q[i - 1].balls + 1
    BY <1>4, <2>1
  <2>3. QED
    BY <1>5, <2>2 DEF Numbered, Q
<1>8. QED
  BY <1>4, <1>5, <1>7 DEF N, t, P

\* A delivery that comes last leaves the others as they are.
LEMMA AppendNumbered ==
    ASSUME NEW s \in Seq(Ball), Numbered(s), NEW e \in Ball
    PROVE  LET t == RenumberLiveEvents(Append(s, e))
               place == Places(CallsCounted(Append(s, e)))[Len(s)]
           IN  /\ t = Append(s, Last(t))
               /\ Last(t) \in Ball /\ Same(Last(t), e)
               /\ Last(t).over = place.over /\ Last(t).ball = place.balls + 1
<1> DEFINE N == Len(s)
           u == Append(s, e)
           t == RenumberLiveEvents(u)
           P == Places(CallsCounted(u))
           Q == Places(CallsCounted(s))
<1>1. /\ N \in Nat /\ DOMAIN s = 1 .. N /\ u \in Seq(Ball) /\ Len(u) = N + 1 /\ u[N + 1] = e
      /\ \A i \in 1 .. N : u[i] = s[i]
  OBVIOUS
<1> HIDE DEF u
<1>2. /\ t \in Seq(Ball) /\ Len(t) = N + 1
      /\ \A i \in 1 .. N + 1 : Same(t[i], u[i])
      /\ \A i \in 1 .. N + 1 :
            /\ t[i].over = P[i - 1].over /\ t[i].ball = P[i - 1].balls + 1
            /\ u[i].over = P[i - 1].over /\ u[i].ball = P[i - 1].balls + 1 => t[i] = u[i]
  BY <1>1, RenumberedFacts
<1>3. \A n \in 0 .. N : P[n] = Q[n]
  <2>1. \A i \in 1 .. N : Same(u[i], s[i])
    BY <1>1 DEF Same, Alike
  <2>2. QED
    BY <1>1, <2>1, CountedSame
<1>4. \A i \in 1 .. N : s[i].over = Q[i - 1].over /\ s[i].ball = Q[i - 1].balls + 1
  BY <1>1 DEF Numbered
<1> HIDE DEF P, Q, t, N
<1>5. ASSUME NEW i \in 1 .. N
      PROVE  t[i] = s[i]
  <2>1. i - 1 \in 0 .. N /\ i \in 1 .. N + 1
    BY <1>1
  <2>2. P[i - 1] = Q[i - 1] /\ u[i] = s[i]
    BY <1>1, <1>3, <2>1
  <2>3. s[i].over = Q[i - 1].over /\ s[i].ball = Q[i - 1].balls + 1
    BY <1>4
  <2>4. QED
    BY <1>2, <2>1, <2>2, <2>3
<1>6. Last(t) = t[N + 1] /\ t[N + 1] \in Ball
  BY <1>1, <1>2 DEF Last
<1>7. t = Append(s, t[N + 1])
  BY <1>1, <1>2, <1>5, <1>6 DEF N
<1>8. Same(t[N + 1], e) /\ t[N + 1].over = P[N].over /\ t[N + 1].ball = P[N].balls + 1
  <2>1. N + 1 \in 1 .. N + 1 /\ (N + 1) - 1 = N
    BY <1>1
  <2>2. QED
    BY <1>1, <1>2, <2>1
<1>9. QED
  BY <1>6, <1>7, <1>8 DEF t, u, P, N

LEMMA FrontFacts ==
    ASSUME NEW S, NEW s \in Seq(S), s # <<>>
    PROVE  /\ Len(s) - 1 \in Nat /\ Len(s) \in Nat
           /\ Front(s) \in Seq(S) /\ Len(Front(s)) = Len(s) - 1
           /\ \A i \in 1 .. (Len(s) - 1) : Front(s)[i] = s[i]
           /\ Last(s) = s[Len(s)] /\ Last(s) \in S
<1>1. Len(s) \in Nat /\ Len(s) >= 1
  OBVIOUS
<1>2. Front(s) = SubSeq(s, 1, Len(s) - 1) /\ Last(s) = s[Len(s)]
  BY DEF Front, Last
<1>3. s[Len(s)] \in S
  BY <1>1
<1> DEFINE u == SubSeq(s, 1, Len(s) - 1)
<1>4. u = [i \in 1 .. (Len(s) - 1) |-> s[i]]
  BY <1>1
<1>5. \A i \in 1 .. (Len(s) - 1) : s[i] \in S
  BY <1>1
<1> HIDE DEF u
<1>6. u \in Seq(S) /\ Len(u) = Len(s) - 1 /\ \A i \in 1 .. (Len(s) - 1) : u[i] = s[i]
  BY <1>1, <1>4, <1>5
<1>7. QED
  BY <1>1, <1>2, <1>3, <1>6 DEF u

\* So does the removal of the last one.
LEMMA FrontNumbered ==
    ASSUME NEW s \in Seq(Ball), s # <<>>, Numbered(s)
    PROVE  RenumberLiveEvents(Front(s)) = Front(s)
<1> DEFINE N == Len(s) - 1
           u == Front(s)
           t == RenumberLiveEvents(u)
           P == Places(CallsCounted(u))
           Q == Places(CallsCounted(s))
<1>1. /\ N \in Nat /\ N =< Len(s) /\ u \in Seq(Ball) /\ Len(u) = N
      /\ \A i \in 1 .. N : u[i] = s[i] /\ i \in DOMAIN s
  BY FrontFacts
<1> HIDE DEF u, N
<1>2. /\ t \in Seq(Ball) /\ Len(t) = N
      /\ \A i \in 1 .. N :
            u[i].over = P[i - 1].over /\ u[i].ball = P[i - 1].balls + 1 => t[i] = u[i]
  BY <1>1, RenumberedFacts
<1>3. \A n \in 0 .. N : P[n] = Q[n]
  <2>1. \A i \in 1 .. N : Same(u[i], s[i])
    BY <1>1 DEF Same, Alike
  <2>2. N =< Len(u)
    BY <1>1
  <2>3. QED
    BY <1>1, <2>1, <2>2, CountedSame
<1>4. \A i \in 1 .. N : s[i].over = Q[i - 1].over /\ s[i].ball = Q[i - 1].balls + 1
  BY <1>1 DEF Numbered
<1> HIDE DEF P, Q, t, N
<1>5. ASSUME NEW i \in 1 .. N
      PROVE  t[i] = u[i]
  <2>1. i - 1 \in 0 .. N
    BY <1>1
  <2>2. P[i - 1] = Q[i - 1] /\ u[i] = s[i]
    BY <1>1, <1>3, <2>1
  <2>3. s[i].over = Q[i - 1].over /\ s[i].ball = Q[i - 1].balls + 1
    BY <1>4
  <2>4. QED
    BY <1>2, <2>2, <2>3
<1>6. t = u
  BY <1>1, <1>2, <1>5
<1>7. QED
  BY <1>6 DEF t, u

-----------------------------------------------------------------------------
(* The list of deliveries that the screen shows *)

\* Every delivery has a name of its own, up to this number.
OnceEach(s, n) ==
    /\ \A i, j \in DOMAIN s : s[i].id = s[j].id => i = j
    /\ \A i \in DOMAIN s : s[i].id =< n

LEMMA GluedFacts ==
    ASSUME NEW S, NEW s \in Seq(S), NEW t \in Seq(S)
    PROVE  /\ s \o t \in Seq(S)
           /\ Len(s) \in Nat /\ Len(t) \in Nat
           /\ Len(s \o t) = Len(s) + Len(t)
           /\ DOMAIN (s \o t) = 1 .. (Len(s) + Len(t))
           /\ \A i \in 1 .. Len(s) : (s \o t)[i] = s[i]
           /\ \A i \in 1 .. Len(t) : (s \o t)[Len(s) + i] = t[i]
           /\ \A i \in 1 .. (Len(s) + Len(t)) : i > Len(s) => (s \o t)[i] = t[i - Len(s)]
OBVIOUS

LEMMA GluedToNothing == ASSUME NEW S, NEW s \in Seq(S) PROVE s \o <<>> = s
OBVIOUS

LEMMA AppendFacts ==
    ASSUME NEW S, NEW s \in Seq(S), NEW e \in S
    PROVE  /\ Append(s, e) \in Seq(S)
           /\ Len(s) \in Nat
           /\ Len(Append(s, e)) = Len(s) + 1
           /\ Append(s, e)[Len(s) + 1] = e
           /\ \A i \in 1 .. Len(s) : Append(s, e)[i] = s[i]
OBVIOUS

\* The deliveries are shown in the order ledger, outbox; one that the server
\* has already is not shown twice.
LEMMA ShownFacts ==
    ASSUME NEW l \in Seq(Ball), NEW q \in Seq(Ball)
    PROVE  /\ WithQueuedBalls(l, q) \in Seq(Ball)
           /\ (\E n : OnceEach(l \o q, n)) => WithQueuedBalls(l, q) = l \o q
<1> DEFINE N == Len(q)
           D == Seq(Ball)
           Is(g) == g = [n \in 0 .. N |-> IF n = 0 THEN l ELSE AppendOptimisticBall(g[n - 1], q[n])]
           F == CHOOSE g : Is(g)
<1>1. N \in Nat /\ \A n \in 1 .. N : q[n] \in Ball
  OBVIOUS
<1>2. WithQueuedBalls(l, q) = F[N]
  BY DEF WithQueuedBalls
<1>3. \A s \in D : \A e \in Ball : AppendOptimisticBall(s, e) \in D
  BY DEF AppendOptimisticBall
<1>4. l \in D
  OBVIOUS
<1> HIDE DEF D
<1>5. \E g : Is(g)
  <2> DEFINE step == [p \in (1 .. N) \X D |-> AppendOptimisticBall(p[2], q[p[1]])]
  <2>1. step \in [(1 .. N) \X D -> D]
    BY <1>1, <1>3
  <2>2. \A i \in 1 .. N : \A x \in D : step[<<i, x>>] = AppendOptimisticBall(x, q[i])
    OBVIOUS
  <2> HIDE DEF step, N
  <2>3. PICK f \in Recursive(N, D, l, step) : TRUE
    BY <1>1, <1>4, <2>1, Recursion
  <2>4. f \in [0 .. N -> D] /\ f[0] = l /\ \A i \in 1 .. N : f[i] = step[<<i, f[i - 1]>>]
    BY DEF Recursive
  <2>5. \A i \in 1 .. N : i - 1 \in 0 .. N
    BY <1>1
  <2>6. \A i \in 1 .. N : f[i - 1] \in D /\ f[i] = step[<<i, f[i - 1]>>]
    BY <2>4, <2>5
  <2>7. \A i \in 1 .. N : f[i] = AppendOptimisticBall(f[i - 1], q[i])
    BY <2>2, <2>6
  <2>8. \A i \in 0 .. N : f[i] = IF i = 0 THEN l ELSE AppendOptimisticBall(f[i - 1], q[i])
    BY <1>1, <2>4, <2>7
  <2>9. f = [i \in 0 .. N |-> f[i]]
    BY <2>4
  <2>10. Is(f)
    BY <2>8, <2>9
  <2>11. QED
    BY <2>10
<1> HIDE DEF Is
<1>6. Is(F)
  BY <1>5
<1> HIDE DEF F
<1>7. F = [n \in 0 .. N |-> IF n = 0 THEN l ELSE AppendOptimisticBall(F[n - 1], q[n])]
  BY <1>6 DEF Is
<1> HIDE DEF N
<1>8. F[0] = l
  BY <1>1, <1>7
<1>9. \A n \in 1 .. N : F[n] = AppendOptimisticBall(F[n - 1], q[n])
  BY <1>1, <1>7
<1>10. \A n \in 0 .. N : F[n] \in D
  <2> DEFINE T == {n \in 0 .. N : F[n] \in D}
  <2>1. 0 \in T
    BY <1>1, <1>4, <1>8
  <2>2. ASSUME NEW n \in 1 .. N, n - 1 \in T
        PROVE  n \in T
    BY <1>1, <1>3, <1>9, <2>2
  <2> HIDE DEF T
  <2>3. \A n \in 0 .. N : n \in T
    BY <1>1, <2>1, <2>2, UpTo
  <2>4. QED
    BY <2>3 DEF T
<1>11. ASSUME NEW m, OnceEach(l \o q, m)
       PROVE  F[N] = l \o q
  <2> DEFINE L == Len(l)
             r == l \o q
             Upto(n) == Len(F[n]) = L + n /\ \A i \in 1 .. (L + n) : F[n][i] = r[i]
             T == {n \in 0 .. N : Upto(n)}
  <2>1. /\ L \in Nat /\ r \in Seq(Ball) /\ Len(r) = L + N /\ DOMAIN r = 1 .. (L + N)
        /\ \A i \in 1 .. L : r[i] = l[i]
        /\ \A i \in 1 .. N : r[L + i] = q[i]
    BY GluedFacts DEF N
  <2>2. \A i, j \in 1 .. (L + N) : r[i].id = r[j].id => i = j
    BY <1>11, <2>1 DEF OnceEach
  <2> HIDE DEF r, L
  <2>3. 0 \in T
    BY <1>1, <1>8, <2>1 DEF L
  <2>4. ASSUME NEW n \in 1 .. N, n - 1 \in T
        PROVE  n \in T
    <3> DEFINE s == F[n - 1]
    <3>1. n - 1 \in 0 .. N /\ n \in 0 .. N /\ n - 1 \in Nat /\ L + (n - 1) \in Nat
      BY <1>1, <2>1
    <3>2. s \in Seq(Ball) /\ Len(s) = L + (n - 1) /\ \A i \in 1 .. (L + (n - 1)) : s[i] = r[i]
      BY <1>10, <2>4, <3>1 DEF D
    <3>3. F[n] = AppendOptimisticBall(s, q[n]) /\ q[n] \in Ball /\ q[n] = r[L + n]
      BY <1>1, <1>9, <2>1
    <3> HIDE DEF s
    <3>4. q[n].id \notin Ids(s)
      <4>1. ASSUME NEW i \in DOMAIN s
            PROVE  s[i].id # q[n].id
        <5>1. i \in 1 .. (L + (n - 1)) /\ i \in 1 .. (L + N) /\ L + n \in 1 .. (L + N) /\ i # L + n
          BY <1>1, <2>1, <3>1, <3>2
        <5>2. s[i] = r[i]
          BY <3>2, <5>1
        <5>3. QED
          BY <2>2, <3>3, <5>1, <5>2
      <4>2. QED
        BY <4>1 DEF Ids
    <3>5. F[n] = Append(s, q[n])
      BY <3>3, <3>4 DEF AppendOptimisticBall
    <3>6. /\ Len(F[n]) = Len(s) + 1 /\ F[n][Len(s) + 1] = q[n]
          /\ \A i \in 1 .. Len(s) : F[n][i] = s[i]
      <4> DEFINE e == q[n]
      <4>1. s \in Seq(Ball) /\ e \in Ball
        BY <3>2, <3>3
      <4> HIDE DEF e
      <4>2. /\ Len(Append(s, e)) = Len(s) + 1 /\ Append(s, e)[Len(s) + 1] = e
            /\ \A i \in 1 .. Len(s) : Append(s, e)[i] = s[i]
        BY <4>1
      <4>3. QED
        BY <3>5, <4>2 DEF e
    <3>7. Len(F[n]) = L + n
      BY <2>1, <3>2, <3>6
    <3>8. ASSUME NEW i \in 1 .. (L + n)
          PROVE  F[n][i] = r[i]
      <4>1. CASE i = L + n
        <5>1. Len(s) + 1 = L + n
          BY <2>1, <3>1, <3>2
        <5>2. F[n][i] = q[n]
          BY <3>6, <4>1, <5>1
        <5>3. QED
          BY <3>3, <4>1, <5>2
      <4>2. CASE i # L + n
        <5>1. i \in 1 .. (L + (n - 1)) /\ i \in 1 .. Len(s)
          BY <2>1, <3>2, <4>2
        <5>2. QED
          BY <3>2, <3>6, <5>1
      <4>3. QED
        BY <4>1, <4>2
    <3>9. QED
      BY <3>1, <3>7, <3>8
  <2> HIDE DEF T
  <2>5. N \in T
    <3>1. \A n \in 0 .. N : n \in T
      BY <1>1, <2>3, <2>4, UpTo
    <3>2. QED
      BY <1>1, <3>1
  <2>6. F[N] \in Seq(Ball) /\ Len(F[N]) = L + N /\ \A i \in 1 .. (L + N) : F[N][i] = r[i]
    BY <1>1, <1>10, <2>5 DEF D, T
  <2>7. F[N] = r
    BY <2>1, <2>6
  <2>8. QED
    BY <2>7 DEF r
<1>12. F[N] \in Seq(Ball)
  BY <1>1, <1>10 DEF D
<1>13. QED
  BY <1>2, <1>11, <1>12

-----------------------------------------------------------------------------
(* Lists of the same deliveries *)

LEMMA PrefixSame ==
    ASSUME NEW s \in Seq(Ball), NEW t \in Seq(Ball), NEW N \in Nat, N =< Len(s), N =< Len(t),
           \A i \in 1 .. N : Alike(s[i], t[i])
    PROVE  \A n \in 0 .. N : Places(s)[n] = Places(t)[n] /\ Faces(s)[n] = Faces(t)[n]
<1>1. \A i \in 1 .. N : s[i] \in Ball /\ t[i] \in Ball
  OBVIOUS
<1>2. /\ \A i \in 1 .. N : \A p \in Place : After(p, s[i]) = After(p, t[i])
      /\ \A i \in 1 .. N : \A p \in Ends : Face(p, s[i]) = Face(p, t[i])
  BY <1>1, SameEffect
<1>3. \A n \in 0 .. N : Places(s)[n] = Places(t)[n]
  BY <1>2, PlacesSame
<1>4. \A n \in 0 .. N : Faces(s)[n] = Faces(t)[n]
  BY <1>2, FacesSame
<1>5. QED
  BY <1>3, <1>4

\* A list with one delivery more.
LEMMA LongerBy ==
    ASSUME NEW s \in Seq(Ball), NEW t \in Seq(Ball), Len(t) = Len(s) + 1,
           \A i \in 1 .. Len(s) : Alike(s[i], t[i])
    PROVE  /\ \A n \in 0 .. Len(s) : Places(t)[n] = Places(s)[n] /\ Faces(t)[n] = Faces(s)[n]
           /\ OversLabel(t) = After(OversLabel(s), t[Len(t)])
           /\ Facing(t) = Face(Facing(s), t[Len(t)])
<1> DEFINE N == Len(s)
<1>1. N \in Nat /\ N + 1 \in Nat /\ N =< Len(s) /\ N =< Len(t) /\ Len(t) = N + 1
  OBVIOUS
<1> HIDE DEF N
<1>2. \A n \in 0 .. N : Places(s)[n] = Places(t)[n] /\ Faces(s)[n] = Faces(t)[n]
  BY <1>1, PrefixSame DEF N
<1>3. Places(t)[N + 1] = After(Places(t)[(N + 1) - 1], t[N + 1])
  BY <1>1, PlacesFacts
<1>4. Faces(t)[N + 1] = Face(Faces(t)[(N + 1) - 1], t[N + 1])
  BY <1>1, FacesFacts
<1>5. (N + 1) - 1 = N /\ N \in 0 .. N
  BY <1>1
<1>6. Places(t)[N] = Places(s)[N] /\ Faces(t)[N] = Faces(s)[N]
  BY <1>2, <1>5
<1>7. OversLabel(t) = After(OversLabel(s), t[Len(t)])
  BY <1>1, <1>3, <1>5, <1>6 DEF OversLabel, N
<1>8. Facing(t) = Face(Facing(s), t[Len(t)])
  BY <1>1, <1>4, <1>5, <1>6 DEF Facing, N
<1>9. QED
  BY <1>2, <1>7, <1>8 DEF N

\* Where a delivery stands in its over, without a call that was not counted.
AtPlace(e, place) == e.over = place.over /\ e.ball = place.balls + 1

\* The labels of the deliveries after the first n.
LabelledFrom(s, n) == \A i \in DOMAIN s : i > n => AtPlace(s[i], Places(s)[i - 1])

\* Only a legal delivery carries a call of the umpire.
OnLegalOnly(s) == \A i \in DOMAIN s : ~IsLegal(s[i]) => s[i].override = "none"

NoCalls(s) == \A i \in DOMAIN s : s[i].override = "none"

AlikeLists(s, t) ==
    /\ s \in Seq(Ball) /\ t \in Seq(Ball) /\ Len(s) = Len(t)
    /\ \A i \in 1 .. Len(s) : Alike(s[i], t[i])

LEMMA AlikeFacts ==
    ASSUME NEW s, NEW t, AlikeLists(s, t)
    PROVE  /\ \A n \in 0 .. Len(s) : Places(s)[n] = Places(t)[n] /\ Faces(s)[n] = Faces(t)[n]
           /\ OversLabel(s) = OversLabel(t) /\ Facing(s) = Facing(t)
           /\ OnLegalOnly(s) => OnLegalOnly(t)
           /\ NoCalls(s) => NoCalls(t)
           /\ \A n : OnceEach(s, n) => OnceEach(t, n)
<1>1. /\ s \in Seq(Ball) /\ t \in Seq(Ball) /\ Len(s) = Len(t) /\ Len(s) \in Nat
      /\ DOMAIN s = 1 .. Len(s) /\ DOMAIN t = 1 .. Len(s)
      /\ \A i \in 1 .. Len(s) : Alike(s[i], t[i])
  BY DEF AlikeLists
<1>2. \A n \in 0 .. Len(s) : Places(s)[n] = Places(t)[n] /\ Faces(s)[n] = Faces(t)[n]
  BY <1>1, PrefixSame
<1>3. Len(s) \in 0 .. Len(s)
  BY <1>1
<1>4. OversLabel(s) = OversLabel(t) /\ Facing(s) = Facing(t)
  BY <1>1, <1>2, <1>3 DEF OversLabel, Facing
<1>5. \A i \in 1 .. Len(s) : /\ s[i].id = t[i].id /\ s[i].override = t[i].override
                             /\ IsLegal(s[i]) <=> IsLegal(t[i])
  BY <1>1 DEF Alike, IsLegal
<1>6. /\ OnLegalOnly(s) => OnLegalOnly(t)
      /\ NoCalls(s) => NoCalls(t)
  BY <1>1, <1>5 DEF OnLegalOnly, NoCalls
<1>7. \A n : OnceEach(s, n) => OnceEach(t, n)
  BY <1>1, <1>5 DEF OnceEach
<1>8. QED
  BY <1>2, <1>4, <1>6, <1>7

LEMMA GluedAppend ==
    ASSUME NEW S, NEW s \in Seq(S), NEW t \in Seq(S), NEW e \in S
    PROVE  s \o Append(t, e) = Append(s \o t, e)
OBVIOUS

\* The first of the second list joins the first list.
LEMMA GluedMove ==
    ASSUME NEW S, NEW s \in Seq(S), NEW t \in Seq(S), t # <<>>, NEW e \in S
    PROVE  LET r == s \o t
               u == Append(s, e) \o Tail(t)
           IN  /\ Len(s) + 1 \in 1 .. Len(r)
               /\ Tail(t) \in Seq(S)
               /\ u \in Seq(S) /\ Len(u) = Len(r) /\ Len(r) \in Nat
               /\ r[Len(s) + 1] = Head(t) /\ Head(t) \in S
               /\ u[Len(s) + 1] = e
               /\ \A i \in 1 .. Len(r) : i # Len(s) + 1 => u[i] = r[i]
<1> DEFINE L == Len(s)
           M == Len(t)
           a == Append(s, e)
           b == Tail(t)
           r == s \o t
           u == a \o b
<1>1. /\ L \in Nat /\ M \in Nat /\ M >= 1 /\ Head(t) = t[1] /\ t[1] \in S
      /\ b \in Seq(S) /\ Len(b) = M - 1 /\ \A i \in 1 .. (M - 1) : b[i] = t[i + 1]
      /\ a \in Seq(S) /\ Len(a) = L + 1 /\ a[L + 1] = e /\ \A i \in 1 .. L : a[i] = s[i]
  OBVIOUS
<1>2. /\ Len(r) = L + M
      /\ \A i \in 1 .. L : r[i] = s[i]
      /\ \A i \in 1 .. (L + M) : i > L => r[i] = t[i - L]
  BY GluedFacts
<1> HIDE DEF a, b, r
<1>3. /\ u \in Seq(S) /\ Len(u) = (L + 1) + (M - 1)
      /\ \A i \in 1 .. (L + 1) : u[i] = a[i]
      /\ \A i \in 1 .. ((L + 1) + (M - 1)) : i > L + 1 => u[i] = b[i - (L + 1)]
  <2>1. a \in Seq(S) /\ b \in Seq(S) /\ Len(a) = L + 1 /\ Len(b) = M - 1
    BY <1>1
  <2>2. /\ u \in Seq(S) /\ Len(u) = Len(a) + Len(b)
        /\ \A i \in 1 .. Len(a) : u[i] = a[i]
        /\ \A i \in 1 .. (Len(a) + Len(b)) : i > Len(a) => u[i] = b[i - Len(a)]
    <3>1. a \in Seq(S) /\ b \in Seq(S)
      BY <2>1
    <3> HIDE DEF L, M
    <3>2. u \in Seq(S) /\ Len(u) = Len(a) + Len(b)
      BY <3>1, GluedFacts
    <3>3. \A i \in 1 .. Len(a) : u[i] = a[i]
      BY <3>1, GluedFacts
    <3>4. \A i \in 1 .. (Len(a) + Len(b)) : i > Len(a) => u[i] = b[i - Len(a)]
      BY <3>1, GluedFacts
    <3>5. QED
      BY <3>2, <3>3, <3>4
  <2>3. QED
    BY <2>1, <2>2
<1> HIDE DEF u, L, M
<1>4. L + 1 \in 1 .. (L + M) /\ (L + 1) + (M - 1) = L + M /\ (L + 1) - L = 1
  BY <1>1
<1>5. r[L + 1] = t[1] /\ u[L + 1] = e
  BY <1>1, <1>2, <1>3, <1>4
<1>6. ASSUME NEW i \in 1 .. (L + M), i # L + 1
      PROVE  u[i] = r[i]
  <2>1. CASE i =< L
    <3>1. i \in 1 .. L /\ i \in 1 .. (L + 1)
      BY <1>1, <2>1
    <3>2. QED
      BY <1>1, <1>2, <1>3, <3>1
  <2>2. CASE ~ (i =< L)
    <3>1. i > L /\ i > L + 1 /\ i - (L + 1) \in 1 .. (M - 1) /\ (i - (L + 1)) + 1 = i - L
      BY <1>1, <1>6, <2>2
    <3>2. u[i] = b[i - (L + 1)] /\ r[i] = t[i - L]
      BY <1>2, <1>3, <1>4, <3>1
    <3>3. QED
      BY <1>1, <3>1, <3>2
  <2>3. QED
    BY <2>1, <2>2
<1>7. QED
  BY <1>1, <1>2, <1>3, <1>4, <1>5, <1>6 DEF L, M, a, b, r, u

-----------------------------------------------------------------------------
(* What every step keeps *)

\* The deliveries of the innings, stored or not.
Recorded == ledger \o queue

Picks == [striker : BatterSet, other : BatterSet, bowler : BowlerSet]
Dialogs == [open : BOOLEAN, over : Nat, previous : BowlerSet \cup {NoPlayer}, note : BOOLEAN]

Counts ==
    /\ history \in [Counted -> Nat]
    /\ \A f \in Counted : history[f] =< Limits[f]

Screen ==
    /\ loaded \in BOOLEAN /\ key \in Nat \X Nat /\ pick \in Picks
    /\ ruling \in {"normal", "end", "continue"}
    /\ dialog \in Dialogs /\ paused \in BOOLEAN /\ reset \in BOOLEAN

\* Nothing is shown twice, and what is shown is what is recorded.
Listed ==
    /\ ledger \in Seq(Ball) /\ queue \in Seq(Ball) /\ data \in Seq(Ball)
    /\ OnceEach(Recorded, history.balls)
    /\ loaded => data = Recorded
    /\ dialog.open => loaded

Labels ==
    /\ Numbered(ledger)
    /\ history.blind = 0 => LabelledFrom(Recorded, Len(ledger))
    /\ history.calls = 0 /\ history.corrections = 0 => OnLegalOnly(Recorded)

Kept == Counts /\ Screen /\ Listed /\ Labels

LEMMA BallsAreEvents == ASSUME NEW s \in Seq(Ball) PROVE s \in Seq(Event)
BY DEF Ball

LEMMA KeptIsTyped == Kept => TypeOK
BY BallsAreEvents DEF Kept, Counts, Screen, Listed, TypeOK, Picks, Dialogs

LEMMA CountsKept == Counts /\ [Next]_vars => Counts'
<1> SUFFICES ASSUME Counts, [Next]_vars
             PROVE  Counts'
  OBVIOUS
<1>1. \A f \in Counted : May(f) => history[f] < Limits[f]
  BY DEF May
<1>2. Limits \in [Counted -> Nat] /\ {"balls", "blind", "calls", "undos", "corrections", "choices", "reloads"} = Counted
  BY LengthAssumption DEF Counted
<1>3. ASSUME NEW f \in Counted, May(f), Count(f)
      PROVE  Counts'
  BY <1>1, <1>2, <1>3 DEF Counts, Count
<1>4. CASE UNCHANGED history
  BY <1>4 DEF Counts
<1>5. ASSUME NEW kind \in Keypad, NEW next \in BatterSet \cup {NoPlayer}, RecordBall(kind, next)
      PROVE  Counts'
  <2>1. May("balls") /\ (~loaded => May("blind"))
    BY <1>5 DEF RecordBall
  <2>2. history["balls"] < Limits["balls"] /\ (~loaded => history["blind"] < Limits["blind"])
    BY <1>1, <1>2, <2>1
  <2>3. history' = [history EXCEPT !["balls"] = @ + 1, !["blind"] = IF loaded THEN @ ELSE @ + 1]
    BY <1>5 DEF RecordBall
  <2>4. history \in [Counted -> Nat] /\ \A f \in Counted : history[f] =< Limits[f]
    BY DEF Counts
  <2>5. /\ history'["balls"] = history["balls"] + 1
        /\ history'["blind"] \in {history["blind"], history["blind"] + 1}
        /\ loaded => history'["blind"] = history["blind"]
        /\ \A f \in Counted : f # "balls" /\ f # "blind" => history'[f] = history[f]
        /\ DOMAIN history' = Counted /\ history' = [f \in Counted |-> history'[f]]
    BY <1>2, <2>3, <2>4
  <2>6. ASSUME NEW f \in Counted
        PROVE  history'[f] \in Nat /\ history'[f] =< Limits[f]
    <3>1. history[f] \in Nat /\ history[f] =< Limits[f] /\ Limits[f] \in Nat
      BY <1>2, <2>4
    <3>2. CASE f = "balls"
      BY <2>2, <2>5, <3>1, <3>2
    <3>3. CASE f = "blind"
      BY <2>2, <2>5, <3>1, <3>3
    <3>4. CASE f # "balls" /\ f # "blind"
      BY <2>5, <3>1, <3>4
    <3>5. QED
      BY <3>2, <3>3, <3>4
  <2>7. history' \in [Counted -> Nat]
    BY <2>5, <2>6
  <2>8. QED
    BY <2>6, <2>7 DEF Counts
<1>6. CASE SyncBall \/ Refetch \/ TypeNote \/ \E b \in BowlerSet : ConfirmNewOverBowler(b)
  BY <1>4, <1>6 DEF SyncBall, Refetch, TypeNote, ConfirmNewOverBowler
<1>7. CASE \/ \E s, o \in BatterSet, b \in BowlerSet : ChoosePlayers(s, o, b)
           \/ \E r \in {"normal", "end", "continue"} : ChooseRuling(r)
           \/ \E i \in DOMAIN queue, b \in BowlerSet : CorrectQueuedBowler(i, b)
  <2>1. May("choices") /\ Count("choices")
    BY <1>7 DEF ChoosePlayers, ChooseRuling, CorrectQueuedBowler
  <2>2. QED
    BY <1>2, <1>3, <2>1
<1>8. CASE EndOverNow \/ ContinueOver
  <2>1. May("calls") /\ Count("calls")
    BY <1>8 DEF EndOverNow, ContinueOver
  <2>2. QED
    BY <1>2, <1>3, <2>1
<1>9. CASE UndoLastBall
  <2>1. May("undos") /\ Count("undos")
    BY <1>9 DEF UndoLastBall
  <2>2. QED
    BY <1>2, <1>3, <2>1
<1>10. CASE \/ \E i \in DOMAIN ledger, kind \in Kind : EditBall(i, kind)
            \/ \E i \in DOMAIN ledger : DeleteBall(i)
  <2>1. May("corrections") /\ Count("corrections")
    BY <1>10 DEF EditBall, DeleteBall
  <2>2. QED
    BY <1>2, <1>3, <2>1
<1>11. CASE Reload
  <2>1. May("reloads") /\ Count("reloads")
    BY <1>11 DEF Reload
  <2>2. QED
    BY <1>2, <1>3, <2>1
<1>12. CASE UNCHANGED vars
  BY <1>4, <1>12 DEF vars
<1>13. QED
  BY <1>5, <1>6, <1>7, <1>8, <1>9, <1>10, <1>11, <1>12 DEF Next

-----------------------------------------------------------------------------
(* The parts of the steps *)

LEMMA SelectionTypes ==
    ASSUME NEW e \in Ball
    PROVE  /\ SelectionAfter(e) \in Picks /\ SelectionBefore(e) \in Picks
           /\ KeyOf(e) \in Nat \X Nat
<1>1. /\ e.striker \in BatterSet /\ e.other \in BatterSet /\ e.bowler \in BowlerSet
      /\ e.kind = "out" => e.next \in BatterSet
      /\ e.id \in Nat /\ e.updated \in Nat
  BY DEF Ball, Event
<1>2. SelectionAfter(e) \in Picks
  BY <1>1 DEF SelectionAfter, Picks
<1>3. SelectionBefore(e) \in Picks
  BY <1>1 DEF SelectionBefore, Picks
<1>4. QED
  BY <1>1, <1>2, <1>3 DEF KeyOf

\* A fetch shows the deliveries of the server and the outbox.
LEMMA ShowFacts ==
    ASSUME NEW server \in Seq(Ball), NEW entries \in Seq(Ball), NEW seen \in Nat \X Nat,
           NEW n, OnceEach(server \o entries, n),
           pick \in Picks, Show(server, entries, seen)
    PROVE  /\ data' = server \o entries
           /\ key' \in Nat \X Nat /\ pick' \in Picks
           /\ \/ pick' = pick
              \/ data' # <<>> /\ pick' = SelectionAfter(Last(data'))
<1> DEFINE shown == WithQueuedBalls(server, entries)
<1>1. shown \in Seq(Ball) /\ shown = server \o entries
  BY ShownFacts
<1>2. data' = shown /\ Hydrate(shown, server, seen)
  BY DEF Show
<1> HIDE DEF shown
<1>3. CASE key' = seen /\ pick' = pick
  BY <1>1, <1>2, <1>3
<1>4. CASE shown # <<>> /\ key' = KeyOf(Last(shown)) /\ pick' = SelectionAfter(Last(shown))
  <2>1. Last(shown) \in Ball
    BY <1>1, <1>4, FrontFacts
  <2>2. key' \in Nat \X Nat /\ pick' \in Picks
    BY <1>4, <2>1, SelectionTypes
  <2>3. QED
    BY <1>1, <1>2, <1>4, <2>2
<1>5. QED
  BY <1>2, <1>3, <1>4 DEF Hydrate

\* Which list is written back, when the outbox is empty.
LEMMA RewriteFacts ==
    ASSUME Listed, CanCorrect, NEW u \in Seq(Ball), \A n : OnceEach(ledger, n) => OnceEach(u, n),
           ledger' = RenumberLiveEvents(u), queue' = queue, history'.balls = history.balls
    PROVE  /\ queue = <<>> /\ Recorded = ledger /\ data = ledger /\ loaded
           /\ ledger' \in Seq(Ball) /\ AlikeLists(u, ledger') /\ Recorded' = ledger'
           /\ OnceEach(Recorded', history'.balls)
           /\ Numbered(ledger')
           /\ LabelledFrom(Recorded', Len(ledger'))
<1>1. queue = <<>> /\ queue' = <<>> /\ data = ledger /\ loaded /\ ledger \in Seq(Ball)
  BY DEF CanCorrect, Listed
<1>2. Recorded = ledger
  BY <1>1, GluedToNothing DEF Recorded
<1>3. /\ ledger' \in Seq(Ball) /\ Len(ledger') = Len(u)
      /\ \A i \in 1 .. Len(u) : Same(ledger'[i], u[i])
      /\ Numbered(ledger')
  BY RenumberedFacts
<1>4. AlikeLists(u, ledger')
  BY <1>3 DEF AlikeLists, Same, Alike
<1>5. Recorded' = ledger'
  BY <1>1, <1>3, GluedToNothing DEF Recorded
<1>6. OnceEach(u, history.balls)
  BY <1>2 DEF Listed
<1>7. OnceEach(Recorded', history'.balls)
  BY <1>4, <1>5, <1>6, AlikeFacts
<1>8. LabelledFrom(ledger', Len(ledger'))
  BY <1>3 DEF LabelledFrom
<1>9. QED
  BY <1>1, <1>2, <1>3, <1>4, <1>5, <1>7, <1>8

\* One delivery changes, and keeps its name.
LEMMA ChangedFacts ==
    ASSUME NEW s \in Seq(Ball), NEW i \in DOMAIN s, NEW e \in Ball, e.id = s[i].id
    PROVE  LET u == [s EXCEPT ![i] = IF e = @ THEN @ ELSE [e EXCEPT !.updated = @ + 1]]
           IN  /\ u \in Seq(Ball) /\ Len(u) = Len(s)
               /\ \A n : OnceEach(s, n) => OnceEach(u, n)
               /\ \A j \in 1 .. Len(s) : j # i => u[j] = s[j]
               /\ u[i].kind = e.kind /\ u[i].override = e.override
<1> DEFINE new == IF e = s[i] THEN s[i] ELSE [e EXCEPT !.updated = @ + 1]
           u == [s EXCEPT ![i] = new]
<1>1. new \in Ball /\ new.id = s[i].id /\ new.kind = e.kind /\ new.override = e.override
  <2> DEFINE up == [e EXCEPT !.updated = @ + 1]
  <2>1. e \in Event /\ (e.kind = "out" => e.next \in BatterSet)
    BY DEF Ball
  <2>2. up \in Event /\ up.id = e.id /\ up.kind = e.kind /\ up.override = e.override /\ up.next = e.next
    BY <2>1 DEF Event
  <2> HIDE DEF up
  <2>3. up \in Ball
    BY <2>1, <2>2 DEF Ball
  <2>4. s[i] \in Ball
    OBVIOUS
  <2>5. new = IF e = s[i] THEN s[i] ELSE up
    BY DEF up
  <2> HIDE DEF new
  <2>6. QED
    BY <2>3, <2>4, <2>5, <2>2
<1> HIDE DEF new
<1>2. /\ u \in Seq(Ball) /\ Len(u) = Len(s) /\ u[i] = new
      /\ \A j \in 1 .. Len(s) : j # i => u[j] = s[j]
      /\ DOMAIN u = DOMAIN s
  BY <1>1
<1> HIDE DEF u
<1>3. \A j \in DOMAIN s : u[j].id = s[j].id
  BY <1>1, <1>2
<1>4. \A n : OnceEach(s, n) => OnceEach(u, n)
  BY <1>2, <1>3 DEF OnceEach
<1>5. QED
  BY <1>1, <1>2, <1>4 DEF u, new

\* One delivery is taken out.
LEMMA RemovedFacts ==
    ASSUME NEW s \in Seq(Ball), NEW i \in DOMAIN s
    PROVE  /\ RemoveAt(s, i) \in Seq(Ball)
           /\ \A n : OnceEach(s, n) => OnceEach(RemoveAt(s, i), n)
<1> DEFINE N == Len(s)
           a == SubSeq(s, 1, i - 1)
           b == SubSeq(s, i + 1, N)
           u == a \o b
<1>1. N \in Nat /\ i \in 1 .. N /\ DOMAIN s = 1 .. N /\ \A j \in 1 .. N : s[j] \in Ball
  OBVIOUS
<1>2. a = [j \in 1 .. (i - 1) |-> s[j]]
  BY <1>1
<1>3. b = [j \in 1 .. (N - i) |-> s[j + i]]
  BY <1>1
<1> HIDE DEF N, a, b
<1>4. a \in Seq(Ball) /\ Len(a) = i - 1 /\ \A j \in 1 .. (i - 1) : a[j] = s[j]
  <2>1. \A j \in 1 .. (i - 1) : s[j] \in Ball
    BY <1>1
  <2>2. i - 1 \in Nat
    BY <1>1
  <2>3. QED
    BY <1>2, <2>1, <2>2
<1>5. b \in Seq(Ball) /\ Len(b) = N - i /\ \A j \in 1 .. (N - i) : b[j] = s[j + i]
  <2>1. \A j \in 1 .. (N - i) : s[j + i] \in Ball
    BY <1>1
  <2>2. N - i \in Nat
    BY <1>1
  <2>3. QED
    BY <1>3, <2>1, <2>2
<1>6. /\ u \in Seq(Ball) /\ DOMAIN u = 1 .. (Len(a) + Len(b))
      /\ \A j \in 1 .. Len(a) : u[j] = a[j]
      /\ \A j \in 1 .. (Len(a) + Len(b)) : j > Len(a) => u[j] = b[j - Len(a)]
  <2>1. a \in Seq(Ball) /\ b \in Seq(Ball)
    BY <1>4, <1>5
  <2>2. QED
    BY <2>1, GluedFacts
<1>7. Len(a) + Len(b) = N - 1
  BY <1>1, <1>4, <1>5
<1> HIDE DEF u
<1>8. \A j \in 1 .. (N - 1) : u[j] = IF j < i THEN s[j] ELSE s[j + 1]
  <2>1. ASSUME NEW j \in 1 .. (N - 1)
        PROVE  u[j] = IF j < i THEN s[j] ELSE s[j + 1]
    <3>1. CASE j < i
      <4>1. j \in 1 .. (i - 1)
        BY <1>1, <3>1
      <4>2. u[j] = a[j] /\ a[j] = s[j]
        BY <1>4, <1>6, <4>1
      <4>3. QED
        BY <3>1, <4>2
    <3>2. CASE ~ (j < i)
      <4>1. j > Len(a) /\ j - Len(a) \in 1 .. (N - i) /\ (j - Len(a)) + i = j + 1
        BY <1>1, <1>4, <3>2
      <4>2. u[j] = b[j - Len(a)]
        BY <1>6, <1>7, <4>1
      <4>3. b[j - Len(a)] = s[j + 1]
        BY <1>5, <4>1
      <4>4. QED
        BY <3>2, <4>2, <4>3
    <3>3. QED
      BY <3>1, <3>2
  <2>2. QED
    BY <2>1
<1>9. ASSUME NEW n, OnceEach(s, n)
      PROVE  OnceEach(u, n)
  <2>1. DOMAIN u = 1 .. (N - 1)
    BY <1>6, <1>7
  <2>2. \A j \in 1 .. (N - 1) : s[IF j < i THEN j ELSE j + 1].id = u[j].id
    BY <1>8
  <2>3. \A j \in 1 .. (N - 1) : (IF j < i THEN j ELSE j + 1) \in 1 .. N
    BY <1>1
  <2>4. \A j \in 1 .. (N - 1) : u[j].id =< n
    BY <1>1, <1>9, <2>2, <2>3 DEF OnceEach
  <2>5. ASSUME NEW j \in 1 .. (N - 1), NEW k \in 1 .. (N - 1), u[j].id = u[k].id
        PROVE  j = k
    <3> DEFINE x == IF j < i THEN j ELSE j + 1
               y == IF k < i THEN k ELSE k + 1
    <3>1. x \in 1 .. N /\ y \in 1 .. N /\ s[x].id = s[y].id
      BY <2>2, <2>3, <2>5
    <3> HIDE DEF x, y
    <3>2. x = y
      BY <1>1, <1>9, <3>1 DEF OnceEach
    <3>3. QED
      BY <1>1, <3>2 DEF x, y
  <2>6. QED
    BY <2>1, <2>4, <2>5 DEF OnceEach
<1>10. RemoveAt(s, i) = u
  BY DEF RemoveAt, u, a, b, N
<1>11. QED
  BY <1>6, <1>9, <1>10

-----------------------------------------------------------------------------
(* Each step keeps them *)

\* The delivery that is recorded stands where the next one belongs.
LEMMA BodyFacts ==
    ASSUME Kept, NEW kind \in Keypad, NEW next \in BatterSet \cup {NoPlayer},
           IF kind = "out" THEN next \in NewBatters ELSE next = NoPlayer
    PROVE  LET body == BodyFor(kind, next)
           IN  /\ body \in Ball
               /\ body.id = history.balls + 1
               /\ body.kind = kind /\ body.override = OverrideFor(kind)
               /\ body.striker = pick.striker /\ body.other = pick.other
               /\ body.bowler = pick.bowler
               /\ AtPlace(body, OversLabel(data))
               /\ ~IsLegal(body) => body.override = "none"
<1> DEFINE body == BodyFor(kind, next)
           place == OversLabel(data)
<1>1. /\ data \in Seq(Ball) /\ pick \in Picks /\ history.balls \in Nat
      /\ kind \in Kind
  BY LengthAssumption DEF Kept, Counts, Screen, Listed, Counted
<1>2. place \in Place
  <2>1. Len(data) \in 0 .. Len(data)
    BY <1>1
  <2>2. QED
    BY <1>1, <2>1, PlacesFacts DEF OversLabel
<1>3. OverrideFor(kind) \in Override /\ (kind \notin {"dot", "single", "out"} => OverrideFor(kind) = "none")
  BY DEF OverrideFor, Override
<1>4. NextDeliveryPosition(data) = [over |-> place.over, ball |-> place.balls + 1]
  BY DEF NextDeliveryPosition
<1> HIDE DEF place
<1>5. kind = "out" => next \in BatterSet
  BY DEF NewBatters
<1>6. /\ pick.striker \in BatterSet /\ pick.other \in BatterSet /\ pick.bowler \in BowlerSet
      /\ place.over \in Nat /\ place.balls + 1 \in Nat
  BY <1>1, <1>2 DEF Picks, Place
<1>7. body = [id |-> history.balls + 1, kind |-> kind, override |-> OverrideFor(kind),
              over |-> place.over, ball |-> place.balls + 1,
              striker |-> pick.striker, other |-> pick.other, next |-> next,
              bowler |-> pick.bowler, note |-> FALSE, updated |-> 0]
  BY <1>4 DEF BodyFor
<1> HIDE DEF body
<1>8. body \in Event
  BY <1>1, <1>3, <1>6, <1>7 DEF Event
<1>9. /\ body.id = history.balls + 1
      /\ body.kind = kind /\ body.override = OverrideFor(kind) /\ body.next = next
      /\ body.striker = pick.striker /\ body.other = pick.other
      /\ body.bowler = pick.bowler
      /\ body.over = place.over /\ body.ball = place.balls + 1
  BY <1>7
<1>10. body \in Ball
  BY <1>5, <1>8, <1>9 DEF Ball
<1>11. ~IsLegal(body) => body.override = "none"
  BY <1>3, <1>9 DEF IsLegal
<1>12. QED
  BY <1>9, <1>10, <1>11 DEF AtPlace, body, place

\* What recording a delivery does.
LEMMA RecordFacts ==
    ASSUME Kept, NEW kind \in Keypad, NEW next \in BatterSet \cup {NoPlayer}, RecordBall(kind, next)
    PROVE  LET body == BodyFor(kind, next)
           IN  /\ queue' = Append(queue, body) /\ ledger' = ledger
               /\ Recorded' = Append(Recorded, body)
               /\ Recorded \in Seq(Ball) /\ Recorded' \in Seq(Ball)
               /\ Len(Recorded) \in Nat /\ Len(Recorded') = Len(Recorded) + 1
               /\ Recorded'[Len(Recorded) + 1] = body
               /\ \A i \in 1 .. Len(Recorded) : Recorded'[i] = Recorded[i]
               /\ history'.balls = history.balls + 1
               /\ history'.blind = IF loaded THEN history.blind ELSE history.blind + 1
               /\ \A f \in Counted : f # "balls" /\ f # "blind" => history'[f] = history[f]
<1> DEFINE body == BodyFor(kind, next)
           r == Recorded
<1>1. body \in Ball
  BY BodyFacts DEF RecordBall
<1>2. ledger \in Seq(Ball) /\ queue \in Seq(Ball) /\ history \in [Counted -> Nat]
  BY DEF Kept, Listed, Counts
<1>3. queue' = Append(queue, body) /\ ledger' = ledger
  BY DEF RecordBall, QueueBallForDelivery
<1>4. history' = [history EXCEPT !["balls"] = @ + 1, !["blind"] = IF loaded THEN @ ELSE @ + 1]
  BY DEF RecordBall
<1> HIDE DEF body
<1>5. r \in Seq(Ball)
  BY <1>2, GluedFacts DEF Recorded
<1>6. Recorded' = Append(r, body)
  BY <1>1, <1>2, <1>3, GluedAppend DEF Recorded
<1> HIDE DEF r
<1>7. /\ Append(r, body) \in Seq(Ball) /\ Len(r) \in Nat
      /\ Len(Append(r, body)) = Len(r) + 1
      /\ Append(r, body)[Len(r) + 1] = body
      /\ \A i \in 1 .. Len(r) : Append(r, body)[i] = r[i]
  BY <1>1, <1>5, AppendFacts
<1>8. /\ history'["balls"] = history["balls"] + 1
      /\ history'["blind"] = IF loaded THEN history["blind"] ELSE history["blind"] + 1
      /\ \A f \in Counted : f # "balls" /\ f # "blind" => history'[f] = history[f]
  BY <1>2, <1>4 DEF Counted
<1>9. QED
  BY <1>3, <1>5, <1>6, <1>7, <1>8 DEF body, r

LEMMA RecordKeeps ==
    ASSUME Kept, NEW kind \in Keypad, NEW next \in BatterSet \cup {NoPlayer}, RecordBall(kind, next)
    PROVE  Screen' /\ Listed' /\ Labels'
<1> DEFINE body == BodyFor(kind, next)
           r == Recorded
           t == Recorded'
           N == Len(r)
<1>1. /\ body \in Ball /\ body.id = history.balls + 1 /\ AtPlace(body, OversLabel(data))
      /\ ~IsLegal(body) => body.override = "none"
      /\ body.bowler = pick.bowler
  BY BodyFacts DEF RecordBall
<1>2. /\ queue' = Append(queue, body) /\ ledger' = ledger
      /\ t = Append(r, body)
      /\ r \in Seq(Ball) /\ t \in Seq(Ball) /\ N \in Nat /\ Len(t) = N + 1 /\ t[N + 1] = body
      /\ \A i \in 1 .. N : t[i] = r[i]
      /\ history'.balls = history.balls + 1
      /\ history'.blind = IF loaded THEN history.blind ELSE history.blind + 1
      /\ history'.calls = history.calls /\ history'.corrections = history.corrections
  BY RecordFacts DEF Counted
<1>3. ledger \in Seq(Ball) /\ queue \in Seq(Ball) /\ data \in Seq(Ball) /\ (loaded => data = r)
      /\ history.balls \in Nat /\ history.blind \in Nat
  BY DEF Kept, Listed, Counts, Counted
<1>4. /\ loaded' = loaded /\ paused' = paused /\ reset' = reset
      /\ IF loaded THEN data' = Append(data, body) /\ ApplyAcceptedBallUi(body)
         ELSE UNCHANGED <<data, key, pick, ruling, dialog>>
  BY DEF RecordBall, QueueBallForDelivery
<1>5. Screen'
  <2>1. CASE ~loaded
    BY <1>4, <2>1 DEF Kept, Screen
  <2>2. CASE loaded
    <3>1. ApplyAcceptedBallUi(body) /\ pick \in Picks /\ dialog \in Dialogs
      BY <1>4, <2>2 DEF Kept, Screen
    <3>2. body.over + 1 \in Nat /\ body.bowler \in BowlerSet /\ pick.bowler \in BowlerSet
      BY <1>1, <3>1 DEF Ball, Event, Picks
    <3> HIDE DEF body
    <3>3. key' \in Nat \X Nat
      BY <1>1, <3>1, SelectionTypes DEF ApplyAcceptedBallUi
    <3>4. pick' \in Picks
      <4>1. pick' = [SelectionAfter(body) EXCEPT !.bowler = pick.bowler]
        BY <3>1 DEF ApplyAcceptedBallUi, ApplyPostBallState
      <4>2. SelectionAfter(body) \in Picks
        BY <1>1, SelectionTypes
      <4>3. QED
        BY <3>2, <4>1, <4>2 DEF Picks
    <3>5. ruling' \in {"normal", "end", "continue"}
      BY <3>1 DEF ApplyAcceptedBallUi, Kept, Screen
    <3>6. dialog' \in Dialogs
      <4>1. CASE AsksForBowler(body)
        <5>1. dialog' = [open |-> TRUE, over |-> body.over + 1, previous |-> body.bowler, note |-> FALSE]
          BY <3>1, <4>1 DEF ApplyAcceptedBallUi
        <5>2. QED
          BY <3>2, <5>1 DEF Dialogs
      <4>2. CASE ~AsksForBowler(body)
        BY <3>1, <4>2 DEF ApplyAcceptedBallUi
      <4>3. QED
        BY <4>1, <4>2
    <3>7. QED
      BY <1>4, <3>3, <3>4, <3>5, <3>6 DEF Screen, Kept
  <2>3. QED
    BY <2>1, <2>2
<1> HIDE DEF body, r, t, N
<1>6. OnceEach(t, history'.balls)
  <2>1. OnceEach(r, history.balls)
    BY DEF Kept, Listed, r
  <2>2. DOMAIN r = 1 .. N /\ DOMAIN t = 1 .. (N + 1)
    BY <1>2 DEF N
  <2>3. \A i \in 1 .. N : r[i].id =< history.balls /\ r[i].id \in Nat
    <3>1. \A i \in 1 .. N : r[i] \in Ball
      BY <1>2, <2>2
    <3>2. QED
      BY <2>1, <2>2, <3>1 DEF OnceEach, Ball, Event
  <2>4. \A i \in 1 .. (N + 1) : i # N + 1 => i \in 1 .. N
    BY <1>2
  <2>5. \A i \in 1 .. (N + 1) : t[i].id =< history'.balls
    BY <1>1, <1>2, <1>3, <2>3, <2>4
  <2>6. \A i, j \in 1 .. N : t[i].id = t[j].id => i = j
    BY <1>2, <2>1, <2>2 DEF OnceEach
  <2>7. \A i \in 1 .. N : t[i].id # t[N + 1].id
    BY <1>1, <1>2, <1>3, <2>3
  <2>8. \A i, j \in 1 .. (N + 1) : t[i].id = t[j].id => i = j
    BY <2>4, <2>6, <2>7
  <2>9. QED
    BY <2>2, <2>5, <2>8 DEF OnceEach
<1>7. Listed'
  <2>1. ledger' \in Seq(Ball) /\ queue' \in Seq(Ball)
    BY <1>1, <1>2, <1>3, AppendFacts
  <2>2. CASE loaded
    <3>1. data' = t
      BY <1>2, <1>3, <1>4, <2>2
    <3>2. QED
      BY <1>2, <1>4, <1>6, <2>1, <2>2, <3>1 DEF Listed, t
  <2>3. CASE ~loaded
    <3>1. ~dialog.open
      BY <2>3 DEF Kept, Listed
    <3>2. QED
      BY <1>3, <1>4, <1>6, <2>1, <2>3, <3>1 DEF Listed, t
  <2>4. QED
    BY <2>2, <2>3
<1>8. Labels'
  <2>1. Numbered(ledger)'
    BY <1>2 DEF Kept, Labels, Numbered
  <2>2. ASSUME history'.blind = 0
        PROVE  LabelledFrom(t, Len(ledger'))
    <3>1. loaded /\ history.blind = 0 /\ data = r
      BY <1>2, <1>3, <2>2
    <3>2. LabelledFrom(r, Len(ledger))
      BY <3>1 DEF Kept, Labels, r
    <3>3. /\ \A n \in 0 .. N : Places(t)[n] = Places(r)[n]
      <4>1. \A i \in 1 .. N : Alike(r[i], t[i])
        BY <1>2 DEF Alike
      <4>2. Len(t) = Len(r) + 1
        BY <1>2 DEF N
      <4>3. QED
        BY <1>2, <4>1, <4>2, LongerBy DEF N
    <3>4. AtPlace(body, Places(r)[N])
      BY <1>1, <3>1 DEF OversLabel, N
    <3>5. ASSUME NEW i \in DOMAIN t, i > Len(ledger)
          PROVE  AtPlace(t[i], Places(t)[i - 1])
      <4>1. i \in 1 .. (N + 1)
        BY <1>2
      <4>2. CASE i = N + 1
        <5>1. i - 1 = N /\ N \in 0 .. N
          BY <1>2, <4>2
        <5>2. QED
          BY <1>2, <3>3, <3>4, <4>2, <5>1
      <4>3. CASE i # N + 1
        <5>1. i \in 1 .. N /\ i - 1 \in 0 .. N /\ i \in DOMAIN r
          BY <1>2, <4>1, <4>3 DEF N
        <5>2. AtPlace(r[i], Places(r)[i - 1])
          BY <3>2, <3>5, <5>1 DEF LabelledFrom
        <5>3. QED
          BY <1>2, <3>3, <5>1, <5>2
      <4>4. QED
        BY <4>2, <4>3
    <3>6. QED
      BY <1>2, <3>5 DEF LabelledFrom
  <2>3. ASSUME history'.calls = 0, history'.corrections = 0
        PROVE  OnLegalOnly(t)
    <3>1. OnLegalOnly(r)
      BY <1>2, <2>3 DEF Kept, Labels, r
    <3>2. ASSUME NEW i \in DOMAIN t, ~IsLegal(t[i])
          PROVE  t[i].override = "none"
      <4>1. i \in 1 .. (N + 1)
        BY <1>2
      <4>2. CASE i = N + 1
        BY <1>1, <1>2, <3>2, <4>2
      <4>3. CASE i # N + 1
        <5>1. i \in 1 .. N /\ i \in DOMAIN r
          BY <1>2, <4>1, <4>3 DEF N
        <5>2. QED
          BY <1>2, <3>1, <3>2, <5>1 DEF OnLegalOnly
      <4>4. QED
        BY <4>2, <4>3
    <3>3. QED
      BY <3>2 DEF OnLegalOnly
  <2>4. QED
    BY <2>1, <2>2, <2>3 DEF Labels, t
<1>9. QED
  BY <1>5, <1>7, <1>8

\* What the answer to a delivery does: the first of the outbox joins the ledger,
\* and nothing else about the deliveries changes than its label.
LEMMA SyncFacts ==
    ASSUME Kept, SyncBall, BowlerAllowed(ledger, Head(queue))
    PROVE  /\ queue # <<>>
           /\ Head(queue) \in Ball /\ Head(queue) = Recorded[Len(ledger) + 1]
           /\ Len(ledger) + 1 \in 1 .. Len(Recorded) /\ Len(Recorded) \in Nat
           /\ \E saved \in Ball :
                 /\ Same(saved, Head(queue))
                 /\ ledger' = Append(ledger, saved)
                 /\ Recorded'[Len(ledger) + 1] = saved
                 /\ \A i \in 1 .. Len(Recorded) : i # Len(ledger) + 1 => Recorded'[i] = Recorded[i]
                 /\ key' = key \/ key' = KeyOf(saved)
                 /\ data' = [i \in DOMAIN data |-> IF data[i].id = saved.id THEN saved ELSE data[i]]
           /\ queue' = Tail(queue)
           /\ AlikeLists(Recorded, Recorded')
           /\ Recorded \in Seq(Ball)
           /\ ledger' \in Seq(Ball) /\ queue' \in Seq(Ball)
           /\ Numbered(ledger')
           /\ UNCHANGED <<loaded, pick, ruling, dialog, paused, history, reset>>
<1> DEFINE body == Head(queue)
           sent == [body EXCEPT !.updated = 1]
           after == RenumberLiveEvents(Append(ledger, sent))
           saved == Last(after)
           L == Len(ledger)
           r == Recorded
           t == Recorded'
<1>1. ledger \in Seq(Ball) /\ queue \in Seq(Ball) /\ Numbered(ledger)
  BY DEF Kept, Listed, Labels
<1>2. /\ queue # <<>>
      /\ ledger' = after /\ queue' = Tail(queue)
      /\ key' = IF data # <<>> /\ Last(data).id = body.id THEN KeyOf(saved) ELSE key
      /\ data' = [i \in DOMAIN data |-> IF data[i].id = body.id THEN saved ELSE data[i]]
      /\ UNCHANGED <<loaded, pick, ruling, dialog, paused, history, reset>>
  BY DEF SyncBall
<1>3. body \in Ball
  BY <1>1, <1>2
<1>4. sent \in Ball /\ Same(sent, body)
  <2>1. body \in Event /\ (body.kind = "out" => body.next \in BatterSet)
    BY <1>3 DEF Ball
  <2> HIDE DEF body
  <2>2. sent \in Event /\ Same(sent, body)
    BY <2>1 DEF Event, Same, Alike
  <2> HIDE DEF sent
  <2>3. QED
    BY <2>1, <2>2 DEF Ball, Same, Alike
<1> HIDE DEF sent, body
<1>5. after = Append(ledger, saved) /\ saved \in Ball /\ Same(saved, sent)
  BY <1>1, <1>4, AppendNumbered
<1>6. Numbered(after)
  BY <1>1, <1>4, AppendFacts, RenumberedFacts
<1> HIDE DEF saved, after
<1>7. Same(saved, body) /\ saved.id = body.id
  BY <1>4, <1>5 DEF Same, Alike
<1>8. t = Append(ledger, saved) \o Tail(queue)
  BY <1>2, <1>5 DEF Recorded
<1>9. r = ledger \o queue
  BY DEF Recorded
<1> HIDE DEF t, r
<1>10. /\ L + 1 \in 1 .. Len(r) /\ Tail(queue) \in Seq(Ball)
       /\ t \in Seq(Ball) /\ Len(t) = Len(r) /\ Len(r) \in Nat
       /\ r[L + 1] = body /\ t[L + 1] = saved
       /\ \A i \in 1 .. Len(r) : i # L + 1 => t[i] = r[i]
  BY <1>1, <1>2, <1>5, <1>8, <1>9, GluedMove DEF body
<1>11. r \in Seq(Ball)
  BY <1>1, <1>9, GluedFacts
<1>12. AlikeLists(r, t)
  <2>1. \A i \in 1 .. Len(r) : Alike(r[i], t[i])
    BY <1>7, <1>10 DEF Same, Alike
  <2>2. QED
    BY <1>10, <1>11, <2>1 DEF AlikeLists
<1>13. ledger' \in Seq(Ball)
  BY <1>1, <1>2, <1>5, AppendFacts
<1>14. QED
  BY <1>2, <1>3, <1>5, <1>6, <1>7, <1>10, <1>11, <1>12, <1>13 DEF body, r, t

LEMMA SyncKeeps ==
    ASSUME Kept, SyncBall
    PROVE  Screen' /\ Listed' /\ Labels'
<1>1. CASE ledger' = ledger /\ UNCHANGED <<queue, key, data>> /\ paused' \in BOOLEAN
  <2>1. UNCHANGED <<loaded, pick, ruling, dialog, history, reset>>
    BY DEF SyncBall
  <2>2. Screen'
    BY <1>1, <2>1 DEF Kept, Screen
  <2>3. Recorded' = Recorded
    BY <1>1 DEF Recorded
  <2>4. Listed'
    BY <1>1, <2>1, <2>3 DEF Kept, Listed
  <2>5. Labels'
    BY <1>1, <2>1, <2>3 DEF Kept, Labels, Numbered
  <2>6. QED
    BY <2>2, <2>4, <2>5
<1>2. CASE BowlerAllowed(ledger, Head(queue))
  <2> DEFINE r == Recorded
             t == Recorded'
             L == Len(ledger)
  <2>1. /\ queue # <<>> /\ Head(queue) \in Ball /\ Head(queue) = r[L + 1]
        /\ L + 1 \in 1 .. Len(r) /\ Len(r) \in Nat
        /\ AlikeLists(r, t) /\ r \in Seq(Ball)
        /\ ledger' \in Seq(Ball) /\ queue' \in Seq(Ball)
        /\ Numbered(ledger')
        /\ UNCHANGED <<loaded, pick, ruling, dialog, paused, history, reset>>
    BY <1>2, SyncFacts
  <2>2. PICK saved \in Ball :
                 /\ Same(saved, Head(queue))
                 /\ ledger' = Append(ledger, saved)
                 /\ t[L + 1] = saved
                 /\ \A i \in 1 .. Len(r) : i # L + 1 => t[i] = r[i]
                 /\ key' = key \/ key' = KeyOf(saved)
                 /\ data' = [i \in DOMAIN data |-> IF data[i].id = saved.id THEN saved ELSE data[i]]
    BY <1>2, SyncFacts
  <2>3. Screen'
    <3>1. key' \in Nat \X Nat
      BY <2>2, SelectionTypes DEF Kept, Screen
    <3>2. QED
      BY <2>1, <3>1 DEF Kept, Screen
  <2>4. ledger \in Seq(Ball) /\ data \in Seq(Ball) /\ OnceEach(r, history.balls) /\ (loaded => data = r)
        /\ (dialog.open => loaded)
    BY DEF Kept, Listed
  <2>5. Len(ledger') = L + 1 /\ L \in Nat
    BY <2>2, <2>4, AppendFacts
  <2>6. saved.id = r[L + 1].id
    BY <2>1, <2>2 DEF Same, Alike
  <2> HIDE DEF r, t, L
  <2>7. OnceEach(t, history'.balls)
    BY <2>1, <2>4, AlikeFacts
  <2>8. data' \in Seq(Ball)
    <3>1. \A i \in DOMAIN data : (IF data[i].id = saved.id THEN saved ELSE data[i]) \in Ball
      BY <2>4
    <3>2. DOMAIN data = 1 .. Len(data) /\ Len(data) \in Nat
      BY <2>4
    <3>3. QED
      BY <2>2, <3>1, <3>2
  <2>9. ASSUME loaded
        PROVE  data' = t
    <3>1. data = r /\ DOMAIN r = 1 .. Len(r) /\ t \in Seq(Ball) /\ Len(t) = Len(r)
      BY <2>1, <2>4, <2>9 DEF AlikeLists
    <3>2. \A i \in 1 .. Len(r) : r[i].id = saved.id <=> i = L + 1
      BY <2>1, <2>4, <2>6, <3>1 DEF OnceEach
    <3>3. data' = [i \in 1 .. Len(r) |-> IF r[i].id = saved.id THEN saved ELSE r[i]]
      BY <2>2, <3>1
    <3>4. \A i \in 1 .. Len(r) : data'[i] = t[i]
      BY <2>2, <3>2, <3>3
    <3>5. t = [i \in 1 .. Len(r) |-> t[i]]
      BY <3>1
    <3>6. QED
      BY <3>3, <3>4, <3>5
  <2>10. Listed'
    BY <2>1, <2>4, <2>7, <2>8, <2>9 DEF Listed, t
  <2>11. ASSUME history.blind = 0
         PROVE  LabelledFrom(t, Len(ledger'))
    <3>1. LabelledFrom(r, L)
      BY <2>11 DEF Kept, Labels, r, L
    <3>2. ASSUME NEW i \in DOMAIN t, i > L + 1
          PROVE  AtPlace(t[i], Places(t)[i - 1])
      <4>1. i \in DOMAIN r /\ i \in 1 .. Len(r) /\ i > L /\ i # L + 1 /\ i - 1 \in 0 .. Len(r)
        BY <2>1, <2>5, <3>2 DEF AlikeLists
      <4>2. AtPlace(r[i], Places(r)[i - 1])
        BY <3>1, <4>1 DEF LabelledFrom
      <4>3. Places(r)[i - 1] = Places(t)[i - 1]
        BY <2>1, <4>1, AlikeFacts
      <4>4. QED
        BY <2>2, <4>1, <4>2, <4>3
    <3>3. QED
      BY <2>5, <3>2 DEF LabelledFrom
  <2>12. history.calls = 0 /\ history.corrections = 0 => OnLegalOnly(t)
    BY <2>1, AlikeFacts DEF Kept, Labels, r
  <2>13. Labels'
    BY <2>1, <2>11, <2>12 DEF Labels, t
  <2>14. QED
    BY <2>3, <2>10, <2>13
<1>3. QED
  BY <1>1, <1>2 DEF SyncBall

LEMMA RefetchKeeps ==
    ASSUME Kept, Refetch
    PROVE  Screen' /\ Listed' /\ Labels'
<1>1. /\ loaded' = TRUE /\ Show(ledger, queue, key) /\ reset' = (reset \/ pick' # pick)
      /\ UNCHANGED <<ledger, queue, ruling, dialog, paused, history>>
  BY DEF Refetch
<1>2. /\ ledger \in Seq(Ball) /\ queue \in Seq(Ball) /\ key \in Nat \X Nat /\ pick \in Picks
      /\ OnceEach(ledger \o queue, history.balls)
  BY DEF Kept, Screen, Listed, Recorded
<1>3. data' = ledger \o queue /\ key' \in Nat \X Nat /\ pick' \in Picks
  BY <1>1, <1>2, ShowFacts
<1>4. Recorded' = Recorded /\ data' = Recorded'
  BY <1>1, <1>3 DEF Recorded
<1>5. data' \in Seq(Ball)
  BY <1>2, <1>3, GluedFacts
<1>6. Screen'
  <2>1. reset' \in BOOLEAN
    BY <1>1
  <2>2. QED
    BY <1>1, <1>3, <2>1 DEF Kept, Screen
<1>7. Listed'
  BY <1>1, <1>2, <1>4, <1>5 DEF Kept, Listed
<1>8. Labels'
  BY <1>1, <1>4 DEF Kept, Labels, Numbered
<1>9. QED
  BY <1>6, <1>7, <1>8

\* What is chosen and typed does not change the deliveries.
LEMMA ChoicesKeep ==
    ASSUME Kept,
           \/ TypeNote
           \/ \E s, o \in BatterSet, b \in BowlerSet : ChoosePlayers(s, o, b)
           \/ \E r \in {"normal", "end", "continue"} : ChooseRuling(r)
    PROVE  Screen' /\ Listed' /\ Labels'
<1>1. UNCHANGED <<ledger, queue, data, loaded>>
  BY DEF TypeNote, ChoosePlayers, ChooseRuling
<1>2. /\ history'.balls = history.balls /\ history'.blind = history.blind
      /\ history'.calls = history.calls /\ history'.corrections = history.corrections
  BY DEF TypeNote, ChoosePlayers, ChooseRuling, Count, Kept, Counts, Counted
<1>3. Recorded' = Recorded
  BY <1>1 DEF Recorded
<1>4. Screen' /\ dialog'.open = dialog.open
  <2>1. CASE TypeNote
    <3>1. dialog \in Dialogs
      BY DEF Kept, Screen
    <3>2. dialog' \in Dialogs /\ dialog'.open = dialog.open
      BY <2>1, <3>1 DEF TypeNote, Dialogs
    <3>3. QED
      BY <2>1, <3>2 DEF TypeNote, Kept, Screen
  <2>2. CASE \E s, o \in BatterSet, b \in BowlerSet : ChoosePlayers(s, o, b)
    BY <2>2 DEF ChoosePlayers, Count, Kept, Screen, Picks
  <2>3. CASE \E r \in {"normal", "end", "continue"} : ChooseRuling(r)
    BY <2>3 DEF ChooseRuling, Count, Kept, Screen
  <2>4. QED
    BY <2>1, <2>2, <2>3
<1>5. Listed'
  BY <1>1, <1>2, <1>3, <1>4 DEF Kept, Listed
<1>6. Labels'
  BY <1>1, <1>2, <1>3 DEF Kept, Labels, Numbered
<1>7. QED
  BY <1>4, <1>5, <1>6

LEMMA CountFacts ==
    ASSUME Counts, NEW f \in Counted, Count(f)
    PROVE  /\ history'[f] = history[f] + 1 /\ history[f] \in Nat /\ history'[f] # 0
           /\ \A g \in Counted : g # f => history'[g] = history[g]
           /\ reset' = reset
<1>1. history \in [Counted -> Nat] /\ history' = [history EXCEPT ![f] = @ + 1] /\ reset' = reset
  BY DEF Counts, Count
<1>2. QED
  BY <1>1

\* Some positions of a list have a last one.
LEMMA LastPosition ==
    ASSUME NEW N \in Nat, NEW S \in SUBSET (1 .. N), S # {}
    PROVE  Max(S) \in S
<1> DEFINE HasLast(U) == \E m \in U : \A y \in U : m >= y
           T == {n \in 0 .. N : \A U \in SUBSET (1 .. n) : U # {} => HasLast(U)}
<1>1. 0 \in T
  <2>1. 1 .. 0 = {} /\ 0 \in 0 .. N
    OBVIOUS
  <2>2. \A U \in SUBSET (1 .. 0) : U = {}
    BY <2>1
  <2>3. QED
    BY <2>1, <2>2
<1>2. ASSUME NEW n \in 1 .. N, n - 1 \in T
      PROVE  n \in T
  <2>1. SUFFICES ASSUME NEW U \in SUBSET (1 .. n), U # {}
                 PROVE  HasLast(U)
    OBVIOUS
  <2>2. CASE n \in U
    BY <2>2
  <2>3. CASE n \notin U
    <3>1. U \in SUBSET (1 .. (n - 1))
      BY <2>3
    <3>2. QED
      BY <1>2, <2>1, <3>1
  <2>4. QED
    BY <2>2, <2>3
<1> HIDE DEF T
<1>3. \A n \in 0 .. N : n \in T
  BY <1>1, <1>2, UpTo
<1>4. N \in T
  BY <1>3
<1>5. HasLast(S)
  BY <1>4 DEF T
<1>6. QED
  BY <1>5 DEF Max

\* A note changes nothing that overs, batters or bowlers depend on, and the
\* labels stay when the deliveries are numbered again.
LEMMA NotedFacts ==
    ASSUME NEW s \in Seq(Ball), Numbered(s), NEW x \in DOMAIN s
    PROVE  LET e == [s[x] EXCEPT !.note = TRUE]
               t == RenumberLiveEvents([s EXCEPT ![x] = IF e = @ THEN @ ELSE [e EXCEPT !.updated = @ + 1]])
           IN  /\ t \in Seq(Ball) /\ Len(t) = Len(s)
               /\ \A i \in 1 .. Len(s) : /\ Same(t[i], s[i]) /\ Same(s[i], t[i])
                                         /\ t[i].over = s[i].over /\ t[i].ball = s[i].ball
               /\ Numbered(t)
<1> DEFINE N == Len(s)
           e == [s[x] EXCEPT !.note = TRUE]
           new == IF e = s[x] THEN s[x] ELSE [e EXCEPT !.updated = @ + 1]
           u == [s EXCEPT ![x] = new]
           t == RenumberLiveEvents(u)
           P == Places(CallsCounted(u))
           Q == Places(CallsCounted(s))
           Still(f, g) == /\ f \in Event /\ Alike(f, g) /\ f.bowler = g.bowler
                          /\ f.over = g.over /\ f.ball = g.ball
<1>1. N \in Nat /\ DOMAIN s = 1 .. N /\ \A i \in 1 .. N : s[i] \in Ball
  OBVIOUS
<1>2. s[x] \in Event /\ (s[x].kind = "out" => s[x].next \in BatterSet)
  BY <1>1 DEF Ball
<1>3. Still(s[x], s[x])
  BY <1>2 DEF Alike
<1>4. Still(e, s[x])
  BY <1>2 DEF Event, Alike
<1> DEFINE c == [e EXCEPT !.updated = @ + 1]
<1> HIDE DEF e
<1>5. Still(c, s[x])
  <2>1. e \in Event
    BY <1>4
  <2>2. Still(c, e)
    BY <2>1 DEF Event, Alike
  <2> HIDE DEF c
  <2>3. QED
    BY <1>4, <2>2 DEF Alike
<1>6. new = s[x] \/ new = c
  OBVIOUS
<1> HIDE DEF new, c
<1>7. Still(new, s[x])
  BY <1>3, <1>5, <1>6
<1>8. new \in Ball
  BY <1>2, <1>7 DEF Ball, Alike
<1>9. u \in Seq(Ball) /\ Len(u) = N /\ u[x] = new /\ \A i \in 1 .. N : i # x => u[i] = s[i]
  BY <1>1, <1>8
<1> HIDE DEF u, t, N
<1>10. ASSUME NEW i \in 1 .. N
       PROVE  Same(u[i], s[i]) /\ u[i].over = s[i].over /\ u[i].ball = s[i].ball
  <2>1. CASE i = x
    BY <1>7, <1>9, <2>1 DEF Same
  <2>2. CASE i # x
    BY <1>9, <2>2 DEF Same, Alike
  <2>3. QED
    BY <2>1, <2>2
<1>11. \A n \in 0 .. N : P[n] = Q[n]
  BY <1>1, <1>9, <1>10, CountedSame DEF N
<1>12. /\ t \in Seq(Ball) /\ Len(t) = N /\ Numbered(t)
       /\ \A i \in 1 .. N : Same(t[i], u[i]) /\ t[i].over = P[i - 1].over /\ t[i].ball = P[i - 1].balls + 1
  BY <1>9, RenumberedFacts DEF t
<1>13. \A i \in 1 .. N : s[i].over = Q[i - 1].over /\ s[i].ball = Q[i - 1].balls + 1
  BY <1>1 DEF Numbered
<1> HIDE DEF P, Q
<1>14. ASSUME NEW i \in 1 .. N
       PROVE  Same(t[i], s[i]) /\ Same(s[i], t[i]) /\ t[i].over = s[i].over /\ t[i].ball = s[i].ball
  <2>1. Same(t[i], u[i]) /\ Same(u[i], s[i])
    BY <1>10, <1>12
  <2>2. P[i - 1] = Q[i - 1]
    BY <1>1, <1>11
  <2>3. t[i].over = s[i].over /\ t[i].ball = s[i].ball
    BY <1>12, <1>13, <2>2
  <2>4. QED
    BY <2>1, <2>3 DEF Same, Alike
<1>15. QED
  BY <1>12, <1>14 DEF t, u, new, e, N

\* What the choice of the bowler does.
LEMMA ConfirmFacts ==
    ASSUME Kept, NEW b \in BowlerSet, ConfirmNewOverBowler(b)
    PROVE  /\ dialog.open /\ b # dialog.previous /\ dialog' = Closed /\ loaded
           /\ UNCHANGED <<queue, loaded, ruling, paused, history, reset>>
           /\ ledger' \in Seq(Ball) /\ data' = Recorded'
           /\ Recorded \in Seq(Ball) /\ Recorded' \in Seq(Ball)
           /\ Len(Recorded') = Len(Recorded) /\ Len(ledger') = Len(ledger)
           /\ \A i \in 1 .. Len(Recorded) : /\ Same(Recorded'[i], Recorded[i])
                                            /\ Recorded'[i].over = Recorded[i].over
                                            /\ Recorded'[i].ball = Recorded[i].ball
           /\ AlikeLists(Recorded, Recorded')
           /\ Numbered(ledger')
           /\ key' \in Nat \X Nat /\ pick'.bowler = b /\ pick' \in Picks
           /\ \/ pick'.striker = pick.striker /\ pick'.other = pick.other
              \/ /\ Recorded # <<>>
                 /\ pick'.striker = SelectionAfter(Last(Recorded')).striker
                 /\ pick'.other = SelectionAfter(Last(Recorded')).other
           /\ ledger' = ledger \/ Recorded' = ledger'
           /\ ledger' # ledger => queue = <<>>
<1> DEFINE found == NotedEvents(data)
           write == found # {} /\ dialog.note
           x == Max(found)
           after == Updated(x, [ledger[x] EXCEPT !.note = TRUE])
<1>1. /\ ledger \in Seq(Ball) /\ queue \in Seq(Ball) /\ data = Recorded /\ loaded
      /\ dialog.open /\ b # dialog.previous /\ dialog' = Closed
      /\ UNCHANGED <<queue, loaded, ruling, paused, history, reset>>
      /\ Numbered(ledger)
      /\ pick \in Picks /\ key \in Nat \X Nat
  BY DEF ConfirmNewOverBowler, Kept, Screen, Listed, Labels
<1>2. Recorded \in Seq(Ball) /\ Len(Recorded) \in Nat
  BY <1>1, GluedFacts DEF Recorded
<1>3. CASE ~write
  <2>1. /\ pick' = [pick EXCEPT !.bowler = b]
        /\ UNCHANGED <<ledger, data, key>>
    BY <1>3 DEF ConfirmNewOverBowler
  <2>2. Recorded' = Recorded
    BY <1>1, <2>1 DEF Recorded
  <2>3. pick'.striker = pick.striker /\ pick'.other = pick.other /\ pick'.bowler = b /\ pick' \in Picks
    BY <1>1, <2>1 DEF Picks
  <2>4. \A i \in 1 .. Len(Recorded) : Same(Recorded[i], Recorded[i])
    BY DEF Same, Alike
  <2>5. AlikeLists(Recorded, Recorded')
    BY <1>2, <2>2, <2>4 DEF AlikeLists, Same
  <2>6. QED
    BY <1>1, <1>2, <2>1, <2>2, <2>3, <2>4, <2>5
<1>4. CASE write
  <2>1. /\ CanCorrect /\ ledger' = after /\ data' = after
        /\ key' = KeyOf(Last(after))
        /\ pick' = [SelectionAfter(Last(after)) EXCEPT !.bowler = b]
    BY <1>4 DEF ConfirmNewOverBowler
  <2>2. queue = <<>> /\ queue' = <<>> /\ data = ledger
    BY <1>1, <2>1 DEF CanCorrect
  <2>3. Recorded = ledger
    BY <1>1, <2>2, GluedToNothing DEF Recorded
  <2>4. x \in DOMAIN ledger
    <3>1. found # {} /\ found \in SUBSET (1 .. Len(ledger)) /\ Len(ledger) \in Nat
          /\ DOMAIN ledger = 1 .. Len(ledger)
      BY <1>1, <1>4, <2>2 DEF NotedEvents
    <3> HIDE DEF found
    <3>2. QED
      BY <3>1, LastPosition
  <2> HIDE DEF x
  <2>5. /\ after \in Seq(Ball) /\ Len(after) = Len(ledger)
        /\ \A i \in 1 .. Len(ledger) : /\ Same(after[i], ledger[i]) /\ Same(ledger[i], after[i])
                                       /\ after[i].over = ledger[i].over /\ after[i].ball = ledger[i].ball
        /\ Numbered(after)
    BY <1>1, <2>4, NotedFacts DEF Updated
  <2> HIDE DEF after
  <2>6. Recorded' = after
    BY <2>1, <2>2, <2>5, GluedToNothing DEF Recorded
  <2>7. after # <<>> /\ ledger # <<>>
    <3>1. Len(ledger) # 0
      BY <1>1, <2>4
    <3>2. QED
      BY <2>5, <3>1
  <2>8. Last(after) \in Ball
    BY <2>5, <2>7, FrontFacts
  <2>9. SelectionAfter(Last(after)) \in Picks /\ KeyOf(Last(after)) \in Nat \X Nat
    BY <2>8, SelectionTypes
  <2>10. /\ pick'.striker = SelectionAfter(Last(after)).striker
         /\ pick'.other = SelectionAfter(Last(after)).other
         /\ pick'.bowler = b /\ pick' \in Picks
    BY <2>1, <2>9 DEF Picks
  <2>11. AlikeLists(Recorded, Recorded')
    <3>1. \A i \in 1 .. Len(ledger) : Alike(ledger[i], after[i])
      BY <2>5 DEF Same
    <3>2. QED
      BY <1>1, <2>3, <2>5, <2>6, <3>1 DEF AlikeLists
  <2>12. QED
    BY <1>1, <1>2, <2>1, <2>2, <2>3, <2>5, <2>6, <2>7, <2>9, <2>10, <2>11
<1>5. QED
  BY <1>3, <1>4

LEMMA ConfirmKeeps ==
    ASSUME Kept, NEW b \in BowlerSet, ConfirmNewOverBowler(b)
    PROVE  Screen' /\ Listed' /\ Labels'
<1> DEFINE r == Recorded
           t == Recorded'
<1>1. /\ dialog' = Closed /\ loaded
      /\ UNCHANGED <<queue, loaded, ruling, paused, history, reset>>
      /\ ledger' \in Seq(Ball) /\ data' = t
      /\ r \in Seq(Ball) /\ t \in Seq(Ball)
      /\ Len(t) = Len(r) /\ Len(ledger') = Len(ledger)
      /\ \A i \in 1 .. Len(r) : t[i].over = r[i].over /\ t[i].ball = r[i].ball
      /\ AlikeLists(r, t)
      /\ Numbered(ledger')
      /\ key' \in Nat \X Nat /\ pick' \in Picks
  BY ConfirmFacts
<1> HIDE DEF r, t
<1>2. Screen'
  <2>1. Closed \in Dialogs
    BY DEF Closed, Dialogs
  <2>2. QED
    BY <1>1, <2>1 DEF Kept, Screen
<1>3. OnceEach(t, history'.balls)
  BY <1>1, AlikeFacts DEF Kept, Listed, r
<1>4. Listed'
  BY <1>1, <1>3 DEF Kept, Listed, t
<1>5. ASSUME history.blind = 0
      PROVE  LabelledFrom(t, Len(ledger'))
  <2>1. LabelledFrom(r, Len(ledger))
    BY <1>5 DEF Kept, Labels, r
  <2>2. ASSUME NEW i \in DOMAIN t, i > Len(ledger)
        PROVE  AtPlace(t[i], Places(t)[i - 1])
    <3>1. i \in DOMAIN r /\ i \in 1 .. Len(r) /\ i - 1 \in 0 .. Len(r)
      BY <1>1
    <3>2. AtPlace(r[i], Places(r)[i - 1])
      BY <2>1, <2>2, <3>1 DEF LabelledFrom
    <3>3. Places(r)[i - 1] = Places(t)[i - 1]
      BY <1>1, <3>1, AlikeFacts
    <3>4. QED
      BY <1>1, <3>1, <3>2, <3>3 DEF AtPlace
  <2>3. QED
    BY <1>1, <2>2 DEF LabelledFrom
<1>6. history.calls = 0 /\ history.corrections = 0 => OnLegalOnly(t)
  BY <1>1, AlikeFacts DEF Kept, Labels, r
<1>7. Labels'
  BY <1>1, <1>5, <1>6 DEF Labels, t
<1>8. QED
  BY <1>2, <1>4, <1>7

LEMMA UpdatedIs ==
    ASSUME NEW i \in DOMAIN ledger, NEW e
    PROVE  Updated(i, e) = RenumberLiveEvents([ledger EXCEPT ![i] = IF e = @ THEN @ ELSE [e EXCEPT !.updated = @ + 1]])
BY DEF Updated

\* A delivery is changed and the ledger numbered again.
LEMMA UpdateFacts ==
    ASSUME Kept, CanCorrect, NEW i \in DOMAIN ledger, NEW e \in Ball, e.id = ledger[i].id,
           ledger' = Updated(i, e), queue' = queue, history'.balls = history.balls
    PROVE  /\ queue = <<>> /\ Recorded = ledger /\ data = ledger /\ loaded
           /\ ledger' \in Seq(Ball) /\ ledger' # <<>> /\ i \in DOMAIN ledger' /\ Recorded' = ledger'
           /\ OnceEach(Recorded', history'.balls)
           /\ Numbered(ledger')
           /\ LabelledFrom(Recorded', Len(ledger'))
<1> DEFINE u == [ledger EXCEPT ![i] = IF e = @ THEN @ ELSE [e EXCEPT !.updated = @ + 1]]
<1>1. Listed /\ ledger \in Seq(Ball)
  BY DEF Kept, Listed
<1>2. u \in Seq(Ball) /\ Len(u) = Len(ledger) /\ \A n : OnceEach(ledger, n) => OnceEach(u, n)
  BY <1>1, ChangedFacts
<1>3. ledger' = RenumberLiveEvents(u)
  BY DEF Updated
<1> HIDE DEF u
<1>4. /\ queue = <<>> /\ Recorded = ledger /\ data = ledger /\ loaded
      /\ ledger' \in Seq(Ball) /\ AlikeLists(u, ledger') /\ Recorded' = ledger'
      /\ OnceEach(Recorded', history'.balls)
      /\ Numbered(ledger')
      /\ LabelledFrom(Recorded', Len(ledger'))
  BY <1>1, <1>2, <1>3, RewriteFacts
<1>5. Len(ledger') = Len(ledger) /\ DOMAIN ledger' = DOMAIN ledger
  <2>1. Len(ledger') = Len(ledger)
    BY <1>2, <1>4 DEF AlikeLists
  <2>2. DOMAIN ledger = 1 .. Len(ledger)
    BY <1>1
  <2>3. DOMAIN ledger' = 1 .. Len(ledger')
    BY <1>4
  <2>4. QED
    BY <2>1, <2>2, <2>3
<1>6. QED
  BY <1>1, <1>4, <1>5

LEMMA NewOverride ==
    ASSUME NEW e \in Ball, NEW o \in Override
    PROVE  [e EXCEPT !.override = o] \in Ball /\ [e EXCEPT !.override = o].id = e.id
<1>1. e \in Event /\ (e.kind = "out" => e.next \in BatterSet)
  BY DEF Ball
<1> DEFINE c == [e EXCEPT !.override = o]
<1>2. c \in Event /\ c.id = e.id /\ c.kind = e.kind /\ c.next = e.next
  BY <1>1 DEF Event
<1> HIDE DEF c
<1>3. c \in Ball
  BY <1>1, <1>2 DEF Ball
<1>4. QED
  BY <1>2, <1>3 DEF c

LEMMA CallsKeep ==
    ASSUME Kept, EndOverNow \/ ContinueOver
    PROVE  Screen' /\ Listed' /\ Labels'
<1>1. PICK i \in DOMAIN ledger, o \in {"end", "go"}, d \in {"open", "closed"} :
        LET e == ledger[i]
            after == Updated(i, [e EXCEPT !.override = o])
        IN  /\ Count("calls")
            /\ CanCorrect
            /\ ledger' = after
            /\ data' = after
            /\ key' = KeyOf(Last(after))
            /\ pick' = SelectionAfter(Last(after))
            /\ ruling' \in {"normal", "end"}
            /\ dialog' = IF d = "open" THEN [open |-> TRUE, over |-> after[i].over + 1,
                                             previous |-> e.bowler, note |-> dialog.note]
                         ELSE [Closed EXCEPT !.note = dialog.note]
            /\ UNCHANGED <<queue, loaded, paused>>
  <2>1. CASE EndOverNow
    <3>1. "end" \in {"end", "go"} /\ "open" \in {"open", "closed"}
      OBVIOUS
    <3>2. QED
      BY <2>1, <3>1 DEF EndOverNow
  <2>2. CASE ContinueOver
    <3>1. "go" \in {"end", "go"} /\ "closed" \in {"open", "closed"} /\ "closed" # "open"
      OBVIOUS
    <3>2. QED
      BY <2>2, <3>1 DEF ContinueOver
  <2>3. QED
    BY <2>1, <2>2
<1> DEFINE e == [ledger[i] EXCEPT !.override = o]
           after == Updated(i, e)
<1>2. ledger \in Seq(Ball) /\ ledger[i] \in Ball /\ dialog \in Dialogs
  BY DEF Kept, Listed, Screen
<1>3. e \in Ball /\ e.id = ledger[i].id
  BY <1>2, NewOverride DEF Override
<1>4. /\ Counts /\ "calls" \in Counted
  BY DEF Kept, Counted
<1>5. /\ history'["calls"] # 0 /\ history'["balls"] = history["balls"] /\ reset' = reset
  BY <1>1, <1>4, CountFacts DEF Counted
<1> HIDE DEF e
<1>6. /\ CanCorrect /\ ledger' = after /\ queue' = queue
      /\ data' = after /\ loaded' = loaded
  BY <1>1 DEF e
<1>7. /\ queue = <<>> /\ loaded
      /\ ledger' \in Seq(Ball) /\ ledger' # <<>> /\ i \in DOMAIN ledger' /\ Recorded' = ledger'
      /\ OnceEach(Recorded', history'.balls)
      /\ Numbered(ledger')
      /\ LabelledFrom(Recorded', Len(ledger'))
  BY <1>3, <1>5, <1>6, UpdateFacts
<1>8. Last(ledger') \in Ball /\ ledger'[i] \in Ball
  BY <1>7, FrontFacts
<1>9. key' = KeyOf(Last(ledger')) /\ pick' = SelectionAfter(Last(ledger'))
  BY <1>1, <1>6 DEF e
<1>10. key' \in Nat \X Nat /\ pick' \in Picks
  BY <1>8, <1>9, SelectionTypes
<1>11. dialog' \in Dialogs
  <2>1. dialog.note \in BOOLEAN /\ ledger[i].bowler \in BowlerSet /\ ledger'[i].over + 1 \in Nat
    <3>1. dialog.note \in BOOLEAN
      BY <1>2 DEF Dialogs
    <3>2. \A b \in Ball : b.bowler \in BowlerSet /\ b.over + 1 \in Nat
      BY DEF Ball, Event
    <3>3. QED
      BY <1>2, <1>8, <3>1, <3>2
  <2>2. CASE d = "open"
    <3>1. dialog' = [open |-> TRUE, over |-> ledger'[i].over + 1,
                     previous |-> ledger[i].bowler, note |-> dialog.note]
      BY <1>1, <1>6, <2>2 DEF e
    <3>2. QED
      BY <2>1, <3>1 DEF Dialogs
  <2>3. CASE d # "open"
    <3>1. dialog' = [Closed EXCEPT !.note = dialog.note]
      BY <1>1, <2>3
    <3>2. QED
      BY <2>1, <3>1 DEF Dialogs, Closed
  <2>4. QED
    BY <2>2, <2>3
<1>12. Screen'
  BY <1>1, <1>5, <1>10, <1>11 DEF Kept, Screen
<1>13. Listed'
  BY <1>2, <1>6, <1>7 DEF Kept, Listed
<1>14. Labels'
  BY <1>5, <1>7 DEF Labels
<1>15. QED
  BY <1>12, <1>13, <1>14

\* Taking back the last delivery takes it off the list and changes nothing else.
LEMMA UndoFacts ==
    ASSUME Kept, UndoLastBall
    PROVE  /\ queue = <<>> /\ queue' = <<>> /\ ledger # <<>> /\ Recorded = ledger /\ data = ledger
           /\ loaded /\ loaded' = loaded
           /\ ledger \in Seq(Ball) /\ ledger' \in Seq(Ball) /\ ledger' = Front(ledger)
           /\ Recorded' = ledger' /\ data' = ledger'
           /\ Len(ledger) = Len(ledger') + 1 /\ Len(ledger') \in Nat
           /\ Last(ledger) = ledger[Len(ledger)] /\ Last(ledger) \in Ball
           /\ \A i \in 1 .. Len(ledger') : ledger'[i] = ledger[i]
           /\ pick' = SelectionBefore(Last(ledger))
           /\ ~dialog'.open
           /\ \A f \in Counted : f # "undos" => history'[f] = history[f]
           /\ UNCHANGED <<ruling, paused, reset>>
<1>1. /\ CanCorrect /\ ledger # <<>> /\ ledger \in Seq(Ball) /\ Numbered(ledger) /\ Counts
      /\ queue' = queue /\ loaded' = loaded
      /\ ledger' = RenumberLiveEvents(Front(ledger)) /\ data' = ledger'
      /\ pick' = SelectionBefore(Last(ledger))
      /\ dialog' = [Closed EXCEPT !.note = Last(ledger).note]
      /\ Count("undos")
      /\ UNCHANGED <<ruling, paused>>
  BY DEF UndoLastBall, Kept, Listed, Labels
<1>2. ledger' = Front(ledger)
  BY <1>1, FrontNumbered
<1>3. /\ Len(ledger) - 1 \in Nat /\ Len(ledger) \in Nat
      /\ Front(ledger) \in Seq(Ball) /\ Len(Front(ledger)) = Len(ledger) - 1
      /\ \A i \in 1 .. (Len(ledger) - 1) : Front(ledger)[i] = ledger[i]
      /\ Last(ledger) = ledger[Len(ledger)] /\ Last(ledger) \in Ball
  BY <1>1, FrontFacts
<1>4. queue = <<>> /\ loaded /\ data = ledger
  BY <1>1 DEF CanCorrect
<1>5. Recorded = ledger /\ Recorded' = ledger'
  BY <1>1, <1>2, <1>3, <1>4, GluedToNothing DEF Recorded
<1>6. ~dialog'.open
  BY <1>1 DEF Closed
<1>7. "undos" \in Counted
  BY DEF Counted
<1>8. reset' = reset /\ \A f \in Counted : f # "undos" => history'[f] = history[f]
  BY <1>1, <1>7, CountFacts
<1>9. QED
  BY <1>1, <1>2, <1>3, <1>4, <1>5, <1>6, <1>8

LEMMA UndoKeeps ==
    ASSUME Kept, UndoLastBall
    PROVE  Screen' /\ Listed' /\ Labels'
<1> DEFINE u == Front(ledger)
<1>1. /\ queue = <<>> /\ queue' = <<>> /\ ledger # <<>> /\ Recorded = ledger
      /\ loaded /\ loaded' = loaded
      /\ ledger \in Seq(Ball) /\ ledger' \in Seq(Ball) /\ ledger' = u
      /\ Recorded' = ledger' /\ data' = ledger'
      /\ Len(ledger) = Len(ledger') + 1 /\ Len(ledger') \in Nat
      /\ Last(ledger) \in Ball
      /\ \A i \in 1 .. Len(ledger') : ledger'[i] = ledger[i]
      /\ pick' = SelectionBefore(Last(ledger))
      /\ ~dialog'.open
      /\ history'.balls = history.balls /\ history'.calls = history.calls
      /\ history'.corrections = history.corrections
      /\ UNCHANGED <<ruling, paused, reset>>
  BY UndoFacts DEF Counted
<1>2. ledger' = RenumberLiveEvents(u)
  BY DEF UndoLastBall
<1> HIDE DEF u
<1>3. key' \in Nat \X Nat
  <2>1. key' = IF ledger' = <<>> THEN NoKey ELSE KeyOf(Last(ledger'))
    BY DEF UndoLastBall
  <2>2. NoKey \in Nat \X Nat
    BY DEF NoKey
  <2>3. ledger' # <<>> => Last(ledger') \in Ball
    BY <1>1, FrontFacts
  <2>4. QED
    BY <2>1, <2>2, <2>3, SelectionTypes
<1>4. dialog' \in Dialogs
  <2>1. Last(ledger).note \in BOOLEAN
    BY <1>1 DEF Ball, Event
  <2>2. dialog' = [Closed EXCEPT !.note = Last(ledger).note]
    BY DEF UndoLastBall
  <2>3. QED
    BY <2>1, <2>2 DEF Closed, Dialogs
<1>5. Screen'
  BY <1>1, <1>3, <1>4, SelectionTypes DEF Kept, Screen
<1>6. /\ DOMAIN ledger = 1 .. (Len(ledger') + 1) /\ DOMAIN ledger' = 1 .. Len(ledger')
      /\ \A i \in DOMAIN ledger' : i \in DOMAIN ledger
  BY <1>1
<1>7. OnceEach(Recorded', history'.balls)
  <2>1. OnceEach(ledger, history.balls)
    BY <1>1 DEF Kept, Listed
  <2>2. QED
    BY <1>1, <1>6, <2>1 DEF OnceEach
<1>8. Listed'
  BY <1>1, <1>7 DEF Listed
<1>9. Numbered(ledger')
  <2>1. u \in Seq(Ball)
    BY <1>1
  <2>2. QED
    BY <1>2, <2>1, RenumberedFacts
<1>10. LabelledFrom(Recorded', Len(ledger'))
  BY <1>1, <1>6 DEF LabelledFrom
<1>11. history'.calls = 0 /\ history'.corrections = 0 => OnLegalOnly(Recorded')
  BY <1>1, <1>6 DEF Kept, Labels, OnLegalOnly
<1>12. Labels'
  BY <1>9, <1>10, <1>11 DEF Labels
<1>13. QED
  BY <1>5, <1>8, <1>12

\* After a correction the list of the server is shown.
LEMMA CorrectionKeeps ==
    ASSUME Kept, CanCorrect, NEW u \in Seq(Ball), \A n : OnceEach(ledger, n) => OnceEach(u, n),
           ledger' = RenumberLiveEvents(u), Show(ledger', <<>>, NoKey), Count("corrections"),
           UNCHANGED <<queue, loaded, ruling, dialog, paused>>
    PROVE  Screen' /\ Listed' /\ Labels'
<1>1. Listed /\ Counts /\ pick \in Picks /\ "corrections" \in Counted
  BY DEF Kept, Screen, Counted
<1>2. /\ history'["corrections"] # 0 /\ history'["balls"] = history["balls"] /\ reset' = reset
  BY <1>1, CountFacts DEF Counted
<1>3. /\ queue = <<>> /\ loaded
      /\ ledger' \in Seq(Ball) /\ Recorded' = ledger'
      /\ OnceEach(Recorded', history'.balls)
      /\ Numbered(ledger')
      /\ LabelledFrom(Recorded', Len(ledger'))
  BY <1>1, <1>2, RewriteFacts
<1>4. ledger' \o <<>> = ledger' /\ <<>> \in Seq(Ball)
  BY <1>3, GluedToNothing
<1>5. NoKey \in Nat \X Nat
  BY DEF NoKey
<1>6. OnceEach(ledger' \o <<>>, history'.balls)
  BY <1>3, <1>4
<1>7. data' = ledger' \o <<>> /\ key' \in Nat \X Nat /\ pick' \in Picks
  BY <1>1, <1>3, <1>4, <1>5, <1>6, ShowFacts
<1>8. Screen'
  BY <1>2, <1>7 DEF Kept, Screen
<1>9. Listed'
  BY <1>3, <1>4, <1>7 DEF Listed
<1>10. Labels'
  BY <1>2, <1>3 DEF Labels
<1>11. QED
  BY <1>8, <1>9, <1>10

LEMMA EditKeeps ==
    ASSUME Kept, NEW i \in DOMAIN ledger, NEW kind \in Kind, EditBall(i, kind)
    PROVE  Screen' /\ Listed' /\ Labels'
<1> DEFINE e == [ledger[i] EXCEPT !.kind = kind]
           u == [ledger EXCEPT ![i] = IF e = @ THEN @ ELSE [e EXCEPT !.updated = @ + 1]]
<1>1. /\ CanCorrect /\ kind \in {"dot", "single", "wide"}
      /\ ledger' = RenumberLiveEvents(u) /\ Show(ledger', <<>>, NoKey) /\ Count("corrections")
      /\ UNCHANGED <<queue, loaded, ruling, dialog, paused>>
  BY DEF EditBall, Updated
<1>2. ledger \in Seq(Ball) /\ ledger[i] \in Ball /\ ledger[i] \in Event
  BY DEF Kept, Listed, Ball
<1>3. e \in Ball /\ e.id = ledger[i].id
  <2>1. e \in Event /\ e.id = ledger[i].id /\ e.kind = kind
    BY <1>2 DEF Event
  <2> HIDE DEF e
  <2>2. QED
    BY <1>1, <2>1 DEF Ball
<1> HIDE DEF e
<1>4. u \in Seq(Ball) /\ \A n : OnceEach(ledger, n) => OnceEach(u, n)
  BY <1>2, <1>3, ChangedFacts
<1> HIDE DEF u
<1>5. QED
  BY <1>1, <1>4, CorrectionKeeps

LEMMA DeleteKeeps ==
    ASSUME Kept, NEW i \in DOMAIN ledger, DeleteBall(i)
    PROVE  Screen' /\ Listed' /\ Labels'
<1> DEFINE u == RemoveAt(ledger, i)
<1>1. /\ CanCorrect
      /\ ledger' = RenumberLiveEvents(u) /\ Show(ledger', <<>>, NoKey) /\ Count("corrections")
      /\ UNCHANGED <<queue, loaded, ruling, dialog, paused>>
  BY DEF DeleteBall
<1>2. ledger \in Seq(Ball)
  BY DEF Kept, Listed
<1>3. u \in Seq(Ball) /\ \A n : OnceEach(ledger, n) => OnceEach(u, n)
  BY <1>2, RemovedFacts
<1> HIDE DEF u
<1>4. QED
  BY <1>1, <1>3, CorrectionKeeps

LEMMA GluedFollow ==
    ASSUME NEW s \in Seq(Ball), NEW t \in Seq(Ball), NEW q \in Seq(Ball), Len(q) = Len(t)
    PROVE  /\ s \o t \in Seq(Ball) /\ s \o q \in Seq(Ball)
           /\ Len(s \o q) = Len(s \o t) /\ Len(s \o t) \in Nat
           /\ \A j \in 1 .. Len(s \o t) :
                  \/ (s \o q)[j] = (s \o t)[j]
                  \/ \E k \in DOMAIN t : (s \o q)[j] = q[k] /\ (s \o t)[j] = t[k]
<1> DEFINE r == s \o t
           u == s \o q
           L == Len(s)
           M == Len(t)
<1>1. /\ r \in Seq(Ball) /\ Len(r) = L + M /\ L \in Nat /\ M \in Nat /\ DOMAIN t = 1 .. M
      /\ \A j \in 1 .. L : r[j] = s[j]
      /\ \A j \in 1 .. (L + M) : j > L => r[j] = t[j - L]
  BY GluedFacts
<1>2. /\ u \in Seq(Ball) /\ Len(u) = L + M
      /\ \A j \in 1 .. L : u[j] = s[j]
      /\ \A j \in 1 .. (L + M) : j > L => u[j] = q[j - L]
  <2>1. /\ u \in Seq(Ball) /\ Len(u) = L + Len(q)
        /\ \A j \in 1 .. L : u[j] = s[j]
        /\ \A j \in 1 .. (L + Len(q)) : j > L => u[j] = q[j - L]
    BY GluedFacts
  <2>2. QED
    BY <2>1
<1> HIDE DEF r, u, L, M
<1>3. ASSUME NEW j \in 1 .. (L + M)
      PROVE  u[j] = r[j] \/ \E k \in 1 .. M : u[j] = q[k] /\ r[j] = t[k]
  <2>1. CASE j > L
    <3>1. j - L \in 1 .. M
      BY <1>1, <2>1
    <3>2. QED
      BY <1>1, <1>2, <2>1, <3>1
  <2>2. CASE ~ (j > L)
    <3>1. j \in 1 .. L
      BY <1>1, <2>2
    <3>2. QED
      BY <1>1, <1>2, <3>1
  <2>3. QED
    BY <2>1, <2>2
<1>4. L + M \in Nat
  BY <1>1
<1>5. QED
  BY <1>1, <1>2, <1>3, <1>4 DEF r, u

\* A new bowler changes neither the place of a delivery nor who faces it.
LEMMA RebowledFacts ==
    ASSUME queue \in Seq(Ball), NEW i \in DOMAIN queue, NEW b \in BowlerSet
    PROVE  LET q == ReplaceQueuedScoringBall(i, b)
           IN  /\ q \in Seq(Ball) /\ Len(q) = Len(queue)
               /\ \A j \in DOMAIN queue : /\ Alike(queue[j], q[j])
                                         /\ q[j].over = queue[j].over
                                         /\ q[j].ball = queue[j].ball
<1> DEFINE q == ReplaceQueuedScoringBall(i, b)
           e(j) == [queue[j] EXCEPT !.bowler = b]
           New(j) == j = i \/ (j > i /\ queue[j].over = queue[i].over
                                    /\ queue[j].bowler = queue[i].bowler)
<1>1. DOMAIN queue = 1 .. Len(queue) /\ Len(queue) \in Nat
  OBVIOUS
<1>2. q = [j \in DOMAIN queue |-> IF New(j) THEN e(j) ELSE queue[j]]
  BY DEF ReplaceQueuedScoringBall
<1> HIDE DEF q, New
<1>3. ASSUME NEW j \in DOMAIN queue
      PROVE  /\ q[j] \in Ball /\ Alike(queue[j], q[j])
             /\ q[j].over = queue[j].over /\ q[j].ball = queue[j].ball
  <2>1. queue[j] \in Ball
    BY <1>3
  <2>2. queue[j] \in Event /\ (queue[j].kind = "out" => queue[j].next \in BatterSet)
    BY <2>1 DEF Ball
  <2>3. /\ e(j) \in Event /\ Alike(queue[j], e(j))
        /\ e(j).over = queue[j].over /\ e(j).ball = queue[j].ball
    BY <2>2 DEF Event, Alike
  <2>4. q[j] = e(j) \/ q[j] = queue[j]
    BY <1>2, <1>3
  <2> HIDE DEF e
  <2>5. e(j) \in Ball
    BY <2>2, <2>3 DEF Ball, Alike
  <2>6. Alike(queue[j], queue[j])
    BY DEF Alike
  <2>7. QED
    BY <2>1, <2>3, <2>4, <2>5, <2>6
<1>4. q \in [1 .. Len(queue) -> Ball]
  <2>1. q = [j \in 1 .. Len(queue) |-> q[j]]
    BY <1>1, <1>2
  <2>2. QED
    BY <1>1, <1>3, <2>1
<1>5. q \in Seq(Ball) /\ Len(q) = Len(queue)
  BY <1>1, <1>4
<1>6. QED
  BY <1>3, <1>5 DEF q

LEMMA QueuedKeeps ==
    ASSUME Kept, NEW i \in DOMAIN queue, NEW b \in BowlerSet, CorrectQueuedBowler(i, b)
    PROVE  Screen' /\ Listed' /\ Labels'
<1> DEFINE q == ReplaceQueuedScoringBall(i, b)
           r == Recorded
           t == Recorded'
           L == Len(ledger)
<1>1. /\ queue' = q
      /\ Show(ledger, queue', key) /\ paused' = FALSE /\ Count("choices")
      /\ UNCHANGED <<ledger, loaded, ruling, dialog>>
  BY DEF CorrectQueuedBowler
<1>2. /\ ledger \in Seq(Ball) /\ queue \in Seq(Ball) /\ key \in Nat \X Nat /\ pick \in Picks
      /\ Counts /\ "choices" \in Counted
  BY DEF Kept, Listed, Screen, Counted
<1>3. /\ history'["balls"] = history["balls"] /\ history'["calls"] = history["calls"]
      /\ history'["corrections"] = history["corrections"] /\ history'["blind"] = history["blind"]
      /\ reset' = reset
  BY <1>1, <1>2, CountFacts DEF Counted
<1>4. /\ q \in Seq(Ball) /\ Len(q) = Len(queue)
      /\ \A j \in DOMAIN queue : Alike(queue[j], q[j]) /\ q[j].over = queue[j].over
                                /\ q[j].ball = queue[j].ball
  BY <1>2, RebowledFacts
<1> HIDE DEF q
<1>5. t = ledger \o q /\ r = ledger \o queue
  BY <1>1 DEF Recorded
<1> HIDE DEF r, t
<1>6. /\ r \in Seq(Ball) /\ t \in Seq(Ball) /\ Len(t) = Len(r) /\ Len(r) \in Nat
      /\ \A j \in 1 .. Len(r) : \/ t[j] = r[j]
                              \/ \E k \in DOMAIN queue : t[j] = q[k] /\ r[j] = queue[k]
  <2>1. ledger \in Seq(Ball) /\ queue \in Seq(Ball) /\ q \in Seq(Ball) /\ Len(q) = Len(queue)
    BY <1>2, <1>4
  <2>2. /\ ledger \o queue \in Seq(Ball) /\ ledger \o q \in Seq(Ball)
        /\ Len(ledger \o q) = Len(ledger \o queue) /\ Len(ledger \o queue) \in Nat
        /\ \A j \in 1 .. Len(ledger \o queue) :
               \/ (ledger \o q)[j] = (ledger \o queue)[j]
               \/ \E k \in DOMAIN queue : /\ (ledger \o q)[j] = q[k]
                                          /\ (ledger \o queue)[j] = queue[k]
    BY <2>1, GluedFollow
  <2>3. QED
    BY <1>5, <2>2
<1>8. DOMAIN r = 1 .. Len(r) /\ DOMAIN t = 1 .. Len(r)
  BY <1>6
<1>9. \A j \in 1 .. Len(r) : Alike(r[j], t[j]) /\ t[j].over = r[j].over /\ t[j].ball = r[j].ball
  <2>1. \A e : Alike(e, e)
    BY DEF Alike
  <2>2. QED
    BY <1>4, <1>6, <2>1
<1>10. AlikeLists(r, t)
  BY <1>6, <1>9 DEF AlikeLists
<1>11. OnceEach(t, history'.balls)
  BY <1>3, <1>10, AlikeFacts DEF Kept, Listed, r
<1>12. queue' \in Seq(Ball) /\ t = ledger \o queue'
  BY <1>1, <1>4, <1>5
<1>13. data' = t /\ key' \in Nat \X Nat /\ pick' \in Picks
  BY <1>1, <1>2, <1>11, <1>12, ShowFacts
<1>14. Screen'
  BY <1>1, <1>3, <1>13 DEF Kept, Screen
<1>15. Listed'
  BY <1>1, <1>2, <1>6, <1>11, <1>12, <1>13 DEF Kept, Listed, t
<1>16. ASSUME history'.blind = 0
       PROVE  LabelledFrom(t, Len(ledger'))
  <2>1. LabelledFrom(r, Len(ledger))
    BY <1>3, <1>16 DEF Kept, Labels, r
  <2>2. ASSUME NEW j \in DOMAIN t, j > Len(ledger)
        PROVE  AtPlace(t[j], Places(t)[j - 1])
    <3>1. j \in DOMAIN r /\ j \in 1 .. Len(r) /\ j - 1 \in 0 .. Len(r)
      BY <1>6, <1>8
    <3>2. AtPlace(r[j], Places(r)[j - 1])
      BY <2>1, <2>2, <3>1 DEF LabelledFrom
    <3>3. Places(r)[j - 1] = Places(t)[j - 1]
      BY <1>10, <3>1, AlikeFacts
    <3>4. QED
      BY <1>9, <3>1, <3>2, <3>3 DEF AtPlace
  <2>3. QED
    BY <1>1, <2>2 DEF LabelledFrom
<1>17. history'.calls = 0 /\ history'.corrections = 0 => OnLegalOnly(t)
  BY <1>3, <1>10, AlikeFacts DEF Kept, Labels, r
<1>18. Labels'
  BY <1>1, <1>16, <1>17 DEF Kept, Labels, Numbered, t
<1>19. QED
  BY <1>14, <1>15, <1>18

LEMMA ReloadKeeps ==
    ASSUME Kept, Reload
    PROVE  Screen' /\ Listed' /\ Labels'
<1>1. /\ loaded' = FALSE /\ data' = <<>> /\ key' = NoKey
      /\ pick' = [striker |-> Batters[1], other |-> Batters[2], bowler |-> Bowlers[1]]
      /\ ruling' = "normal" /\ dialog' = Closed /\ paused' = FALSE
      /\ Count("reloads")
      /\ UNCHANGED <<ledger, queue>>
  BY DEF Reload
<1>2. Counts /\ "reloads" \in Counted
  BY DEF Kept, Counted
<1>3. /\ history'["balls"] = history["balls"] /\ history'["calls"] = history["calls"]
      /\ history'["corrections"] = history["corrections"] /\ history'["blind"] = history["blind"]
      /\ reset' = reset
  BY <1>1, <1>2, CountFacts DEF Counted
<1>4. Recorded' = Recorded
  BY <1>1 DEF Recorded
<1>5. Screen'
  <2>1. pick' \in Picks
    BY <1>1, FirstPlayers DEF Picks
  <2>2. NoKey \in Nat \X Nat /\ Closed \in Dialogs
    BY DEF NoKey, Closed, Dialogs
  <2>3. QED
    BY <1>1, <1>3, <2>1, <2>2 DEF Kept, Screen
<1>6. Listed'
  <2>1. <<>> \in Seq(Ball) /\ ~dialog'.open
    BY <1>1 DEF Closed
  <2>2. QED
    BY <1>1, <1>3, <1>4, <2>1 DEF Kept, Listed
<1>7. Labels'
  BY <1>1, <1>3, <1>4 DEF Kept, Labels, Numbered
<1>8. QED
  BY <1>5, <1>6, <1>7

LEMMA InitKept == Init => Kept
<1> SUFFICES ASSUME Init PROVE Kept
  OBVIOUS
<1>1. /\ ledger = <<>> /\ queue = <<>> /\ data = <<>> /\ loaded = TRUE /\ key = NoKey
      /\ pick = [striker |-> Batters[1], other |-> Batters[2], bowler |-> Bowlers[1]]
      /\ ruling = "normal" /\ dialog = Closed /\ paused = FALSE
      /\ history = [f \in Counted |-> 0] /\ reset = FALSE
  BY DEF Init
<1>2. Counts
  BY <1>1, LengthAssumption DEF Counts
<1>3. Screen
  <2>1. pick \in Picks
    BY <1>1, FirstPlayers DEF Picks
  <2>2. NoKey \in Nat \X Nat /\ Closed \in Dialogs
    BY DEF NoKey, Closed, Dialogs
  <2>3. QED
    BY <1>1, <2>1, <2>2 DEF Screen
<1>4. <<>> \in Seq(Ball) /\ <<>> \o <<>> = <<>> /\ DOMAIN <<>> = {}
  <2>1. <<>> \in Seq(Ball)
    OBVIOUS
  <2>2. QED
    BY <2>1, GluedToNothing
<1>5. Recorded = <<>>
  BY <1>1, <1>4 DEF Recorded
<1>6. Listed
  <2>1. OnceEach(<<>>, history.balls)
    BY <1>4 DEF OnceEach
  <2>2. QED
    BY <1>1, <1>4, <1>5, <2>1 DEF Listed
<1>7. Labels
  BY <1>1, <1>4, <1>5 DEF Labels, Numbered, LabelledFrom, OnLegalOnly
<1>8. QED
  BY <1>2, <1>3, <1>6, <1>7 DEF Kept

LEMMA NextKeeps == Kept /\ [Next]_vars => Kept'
<1> SUFFICES ASSUME Kept, [Next]_vars
             PROVE  Kept'
  OBVIOUS
<1>1. Counts'
  BY CountsKept DEF Kept
<1>2. CASE UNCHANGED vars
  BY <1>2 DEF vars, Kept, Counts, Screen, Listed, Labels, Recorded, Numbered
<1>3. CASE \E kind \in Keypad, next \in BatterSet \cup {NoPlayer} : RecordBall(kind, next)
  BY <1>1, <1>3, RecordKeeps DEF Kept
<1>4. CASE SyncBall
  BY <1>1, <1>4, SyncKeeps DEF Kept
<1>5. CASE Refetch
  BY <1>1, <1>5, RefetchKeeps DEF Kept
<1>6. CASE \E b \in BowlerSet : ConfirmNewOverBowler(b)
  BY <1>1, <1>6, ConfirmKeeps DEF Kept
<1>7. CASE \/ TypeNote
           \/ \E s, o \in BatterSet, b \in BowlerSet : ChoosePlayers(s, o, b)
           \/ \E r \in {"normal", "end", "continue"} : ChooseRuling(r)
  BY <1>1, <1>7, ChoicesKeep DEF Kept
<1>8. CASE EndOverNow \/ ContinueOver
  BY <1>1, <1>8, CallsKeep DEF Kept
<1>9. CASE UndoLastBall
  BY <1>1, <1>9, UndoKeeps DEF Kept
<1>10. CASE \E i \in DOMAIN ledger, kind \in Kind : EditBall(i, kind)
  BY <1>1, <1>10, EditKeeps DEF Kept
<1>11. CASE \E i \in DOMAIN ledger : DeleteBall(i)
  BY <1>1, <1>11, DeleteKeeps DEF Kept
<1>12. CASE \E i \in DOMAIN queue, b \in BowlerSet : CorrectQueuedBowler(i, b)
  BY <1>1, <1>12, QueuedKeeps DEF Kept
<1>13. CASE Reload
  BY <1>1, <1>13, ReloadKeeps DEF Kept
<1>14. QED
  BY <1>2, <1>3, <1>4, <1>5, <1>6, <1>7, <1>8, <1>9, <1>10, <1>11, <1>12, <1>13 DEF Next

-----------------------------------------------------------------------------
(* Labels *)

LEMMA RecordedFacts ==
    ASSUME Kept
    PROVE  /\ ledger \in Seq(Ball) /\ queue \in Seq(Ball)
           /\ Recorded \in Seq(Ball) /\ Len(Recorded) \in Nat /\ Len(ledger) \in Nat
           /\ Len(ledger) =< Len(Recorded) /\ DOMAIN Recorded = 1 .. Len(Recorded)
           /\ \A i \in 1 .. Len(ledger) : Recorded[i] = ledger[i]
<1>1. ledger \in Seq(Ball) /\ queue \in Seq(Ball)
  BY DEF Kept, Listed
<1>2. QED
  BY <1>1, GluedFacts DEF Recorded

\* Where the innings stood before a delivery, from the deliveries before it.
LEMMA PlaceBefore ==
    ASSUME NEW s \in Seq(Ball), NEW i \in 1 .. Len(s)
    PROVE  OversLabel(SubSeq(s, 1, i - 1)) = Places(s)[i - 1]
<1> DEFINE u == SubSeq(s, 1, i - 1)
<1>1. Len(s) \in Nat /\ i - 1 \in Nat /\ i - 1 =< Len(s) /\ i - 1 \in 0 .. (i - 1)
  OBVIOUS
<1>2. u = [j \in 1 .. (i - 1) |-> s[j]]
  BY <1>1
<1>3. \A j \in 1 .. (i - 1) : s[j] \in Ball
  BY <1>1
<1> HIDE DEF u
<1>4. u \in Seq(Ball) /\ Len(u) = i - 1 /\ \A j \in 1 .. (i - 1) : u[j] = s[j]
  BY <1>1, <1>2, <1>3
<1>5. \A j \in 1 .. (i - 1) : Alike(u[j], s[j])
  BY <1>4 DEF Alike
<1>6. i - 1 =< Len(u)
  BY <1>1, <1>4
<1>7. \A n \in 0 .. (i - 1) : Places(u)[n] = Places(s)[n]
  BY <1>1, <1>4, <1>5, <1>6, PrefixSame
<1>8. QED
  BY <1>1, <1>4, <1>7 DEF OversLabel, u

\* The labels of the server and those of the screen say the same.
LEMMA LabelledAll ==
    ASSUME NEW l \in Seq(Ball), NEW q \in Seq(Ball), Numbered(l), LabelledFrom(l \o q, Len(l)),
           \A i \in 1 .. Len(l) : ~IsLegal(l[i]) => l[i].override # "end"
    PROVE  \A i \in 1 .. Len(l \o q) : AtPlace((l \o q)[i], Places(l \o q)[i - 1])
<1> DEFINE r == l \o q
           L == Len(l)
<1>1. /\ r \in Seq(Ball) /\ L \in Nat /\ L =< Len(r) /\ L =< Len(l)
      /\ DOMAIN r = 1 .. Len(r) /\ DOMAIN l = 1 .. L
      /\ \A i \in 1 .. L : r[i] = l[i]
  BY GluedFacts
<1>2. LabelledFrom(r, L)
  OBVIOUS
<1>3. \A n \in 0 .. L : Places(CallsCounted(l))[n] = Places(l)[n]
  BY <1>1, CountedAsShown
<1> HIDE DEF r, L
<1>4. \A n \in 0 .. L : Places(l)[n] = Places(r)[n]
  <2>1. \A i \in 1 .. L : Alike(l[i], r[i])
    BY <1>1 DEF Alike
  <2>2. QED
    BY <1>1, <2>1, PrefixSame
<1>5. ASSUME NEW i \in 1 .. Len(r)
      PROVE  AtPlace(r[i], Places(r)[i - 1])
  <2>1. CASE i > L
    BY <1>1, <1>2, <2>1 DEF LabelledFrom
  <2>2. CASE ~ (i > L)
    <3>1. i \in 1 .. L /\ i - 1 \in 0 .. L
      BY <1>1, <2>2
    <3>2. AtPlace(l[i], Places(CallsCounted(l))[i - 1])
      BY <1>1, <3>1 DEF Numbered, AtPlace
    <3>3. Places(CallsCounted(l))[i - 1] = Places(r)[i - 1]
      BY <1>3, <1>4, <3>1
    <3>4. QED
      BY <1>1, <3>1, <3>2, <3>3
  <2>3. QED
    BY <2>1, <2>2
<1>6. QED
  BY <1>5 DEF r

LEMMA KeptLabels == Kept => PositionsAgree
<1> SUFFICES ASSUME Kept, loaded, history.blind = 0, ~EndedByIllegal(data), NEW i \in DOMAIN data
             PROVE  [over |-> data[i].over, ball |-> data[i].ball]
                        = NextDeliveryPosition(SubSeq(data, 1, i - 1))
  BY DEF PositionsAgree
<1>1. data = Recorded
  BY DEF Kept, Listed
<1>2. /\ Recorded \in Seq(Ball) /\ Len(Recorded) \in Nat /\ Len(ledger) =< Len(Recorded)
      /\ DOMAIN Recorded = 1 .. Len(Recorded) /\ Len(ledger) \in Nat
      /\ \A j \in 1 .. Len(ledger) : Recorded[j] = ledger[j]
  BY RecordedFacts
<1>3. \A j \in 1 .. Len(ledger) : ~IsLegal(ledger[j]) => ledger[j].override # "end"
  BY <1>1, <1>2 DEF EndedByIllegal
<1>4. i \in 1 .. Len(Recorded)
  BY <1>1, <1>2
<1>5. AtPlace(Recorded[i], Places(Recorded)[i - 1])
  <2>1. /\ ledger \in Seq(Ball) /\ queue \in Seq(Ball) /\ Numbered(ledger)
        /\ LabelledFrom(ledger \o queue, Len(ledger))
    BY DEF Kept, Listed, Labels, Recorded
  <2>2. \A j \in 1 .. Len(ledger \o queue) :
            AtPlace((ledger \o queue)[j], Places(ledger \o queue)[j - 1])
    BY <1>3, <2>1, LabelledAll
  <2>3. QED
    BY <1>4, <2>2 DEF Recorded
<1>6. OversLabel(SubSeq(data, 1, i - 1)) = Places(Recorded)[i - 1]
  BY <1>1, <1>2, <1>4, PlaceBefore
<1>7. QED
  BY <1>1, <1>5, <1>6 DEF NextDeliveryPosition, AtPlace

-----------------------------------------------------------------------------
(* Bowlers *)

LEMMA HistoryFacts ==
    ASSUME Kept, [Next]_vars
    PROVE  /\ \A f \in Counted : history[f] \in Nat /\ history'[f] \in Nat /\ history[f] =< history'[f]
           /\ EndOverNow \/ ContinueOver => history'["calls"] # 0
           /\ (\E i \in DOMAIN ledger, kind \in Kind : EditBall(i, kind)) => history'["corrections"] # 0
           /\ (\E i \in DOMAIN ledger : DeleteBall(i)) => history'["corrections"] # 0
           /\ (\E s, o \in BatterSet, b \in BowlerSet : ChoosePlayers(s, o, b)) => history'["choices"] # 0
           /\ (\E r \in {"normal", "end", "continue"} : ChooseRuling(r)) => history'["choices"] # 0
           /\ (\E i \in DOMAIN queue, b \in BowlerSet : CorrectQueuedBowler(i, b)) => history'["choices"] # 0
           /\ Reload => history'["reloads"] # 0
<1>1. Counts /\ Counts'
  BY CountsKept DEF Kept
<1>2. \A f \in Counted : history[f] \in Nat /\ history'[f] \in Nat
  BY <1>1 DEF Counts
<1>3. ASSUME NEW f \in Counted, Count(f)
      PROVE  history'[f] # 0 /\ \A g \in Counted : history[g] =< history'[g]
  BY <1>1, <1>2, <1>3, CountFacts
<1>4. {"balls", "calls", "undos", "corrections", "choices", "reloads", "blind"} = Counted
  BY DEF Counted
<1>5. /\ EndOverNow \/ ContinueOver => Count("calls")
      /\ (\E i \in DOMAIN ledger, kind \in Kind : EditBall(i, kind)) => Count("corrections")
      /\ (\E i \in DOMAIN ledger : DeleteBall(i)) => Count("corrections")
      /\ (\E s, o \in BatterSet, b \in BowlerSet : ChoosePlayers(s, o, b)) => Count("choices")
      /\ (\E r \in {"normal", "end", "continue"} : ChooseRuling(r)) => Count("choices")
      /\ (\E i \in DOMAIN queue, b \in BowlerSet : CorrectQueuedBowler(i, b)) => Count("choices")
      /\ Reload => Count("reloads")
      /\ UndoLastBall => Count("undos")
  BY DEF EndOverNow, ContinueOver, EditBall, DeleteBall, ChoosePlayers, ChooseRuling,
         CorrectQueuedBowler, Reload, UndoLastBall
<1>6. ASSUME NEW kind \in Keypad, NEW next \in BatterSet \cup {NoPlayer}, RecordBall(kind, next)
      PROVE  \A g \in Counted : history[g] =< history'[g]
  <2>1. /\ history'["balls"] = history["balls"] + 1
        /\ history'["blind"] = IF loaded THEN history["blind"] ELSE history["blind"] + 1
        /\ \A f \in Counted : f # "balls" /\ f # "blind" => history'[f] = history[f]
    BY <1>6, RecordFacts
  <2>2. ASSUME NEW g \in Counted
        PROVE  history[g] =< history'[g]
    <3>1. history[g] \in Nat
      BY <1>2
    <3>2. CASE g = "balls"
      BY <2>1, <3>1, <3>2
    <3>3. CASE g = "blind"
      BY <2>1, <3>1, <3>3
    <3>4. CASE g # "balls" /\ g # "blind"
      BY <2>1, <3>1, <3>4
    <3>5. QED
      BY <3>2, <3>3, <3>4
  <2>3. QED
    BY <2>2
<1>7. CASE UNCHANGED history
  BY <1>1, <1>2, <1>3, <1>4, <1>5, <1>7
<1>8. SyncBall \/ Refetch \/ TypeNote \/ (\E b \in BowlerSet : ConfirmNewOverBowler(b)) \/ UNCHANGED vars
        => UNCHANGED history
  BY DEF SyncBall, Refetch, TypeNote, ConfirmNewOverBowler, vars
<1>9. \A g \in Counted : history[g] =< history'[g]
  <2>1. CASE \E f \in Counted : Count(f)
    BY <1>3, <2>1
  <2>2. CASE UNCHANGED history
    BY <1>7, <2>2
  <2>3. CASE \E kind \in Keypad, next \in BatterSet \cup {NoPlayer} : RecordBall(kind, next)
    BY <1>6, <2>3
  <2>4. QED
    BY <1>4, <1>5, <1>8, <2>1, <2>2, <2>3 DEF Next
<1>10. /\ EndOverNow \/ ContinueOver => history'["calls"] # 0
       /\ (\E i \in DOMAIN ledger, kind \in Kind : EditBall(i, kind)) => history'["corrections"] # 0
       /\ (\E i \in DOMAIN ledger : DeleteBall(i)) => history'["corrections"] # 0
       /\ (\E s, o \in BatterSet, b \in BowlerSet : ChoosePlayers(s, o, b)) => history'["choices"] # 0
       /\ (\E r \in {"normal", "end", "continue"} : ChooseRuling(r)) => history'["choices"] # 0
       /\ (\E i \in DOMAIN queue, b \in BowlerSet : CorrectQueuedBowler(i, b)) => history'["choices"] # 0
       /\ Reload => history'["reloads"] # 0
  BY <1>3, <1>4, <1>5
<1>11. QED
  BY <1>2, <1>9, <1>10

\* Nobody bowls two overs in a row.
Apart(s) ==
    \A i, j \in DOMAIN s :
        ~IsDead(s[i]) /\ ~IsDead(s[j]) /\ s[j].over = s[i].over + 1 => s[i].bowler # s[j].bowler

Plain == history.calls = 0 /\ history.corrections = 0 /\ history.blind = 0

OversApart == Plain => Apart(ledger)

LEMMA ApartAppend ==
    ASSUME NEW s \in Seq(Ball), Apart(s), NEW e \in Ball, NEW saved \in Ball,
           Same(saved, e), saved.over = e.over, BowlerAllowed(s, e),
           \A i \in 1 .. Len(s) : s[i].over =< e.over
    PROVE  Apart(Append(s, saved))
<1> DEFINE N == Len(s)
           t == Append(s, saved)
<1>1. /\ N \in Nat /\ DOMAIN s = 1 .. N /\ DOMAIN t = 1 .. (N + 1)
      /\ t[N + 1] = saved /\ \A i \in 1 .. N : t[i] = s[i]
  OBVIOUS
<1>2. saved.bowler = e.bowler /\ (IsDead(saved) <=> IsDead(e))
  BY DEF Same, Alike, IsDead
<1>3. \A i \in 1 .. N : s[i].over \in Nat
  <2>1. \A i \in 1 .. N : s[i] \in Ball
    OBVIOUS
  <2>2. QED
    BY <2>1 DEF Ball, Event
<1>4. e.over \in Nat
  BY DEF Ball, Event
<1> HIDE DEF t, N
<1>5. ASSUME NEW i \in 1 .. N, ~IsDead(s[i]), ~IsDead(e), e.over = s[i].over + 1
      PROVE  s[i].bowler # e.bowler
  <2>1. i \in InOver(s, e.over - 1)
    BY <1>1, <1>3, <1>5 DEF InOver
  <2>2. CASE \E k \in InOver(s, e.over) :
                s[k].bowler = e.bowler /\ \A j \in InOver(s, e.over) : j =< k
    <3>1. PICK k \in DOMAIN s : s[k].bowler = e.bowler /\ s[k].over = e.over /\ ~IsDead(s[k])
      BY <2>2 DEF InOver
    <3>2. QED
      BY <1>1, <1>5, <3>1 DEF Apart
  <2>3. CASE e.bowler \notin BowlersOf(s, e.over - 1)
    BY <2>1, <2>3 DEF BowlersOf
  <2>4. e.over # 0
    BY <1>3, <1>5
  <2>5. QED
    BY <1>5, <2>2, <2>3, <2>4 DEF BowlerAllowed
<1>6. ASSUME NEW i \in DOMAIN t, NEW j \in DOMAIN t,
             ~IsDead(t[i]), ~IsDead(t[j]), t[j].over = t[i].over + 1
      PROVE  t[i].bowler # t[j].bowler
  <2>1. CASE i \in 1 .. N /\ j \in 1 .. N
    BY <1>1, <1>6, <2>1 DEF Apart
  <2>2. CASE i \in 1 .. N /\ j = N + 1
    BY <1>1, <1>2, <1>5, <1>6, <2>2
  <2>3. CASE i = N + 1 /\ j \in 1 .. N
    <3>1. t[j].over =< t[i].over /\ t[i].over \in Nat
      BY <1>1, <1>4, <2>3 DEF N
    <3>2. t[j].over \in Nat
      BY <1>1, <1>3, <2>3
    <3>3. QED
      BY <1>6, <3>1, <3>2
  <2>4. CASE i = N + 1 /\ j = N + 1
    BY <1>1, <1>4, <1>6, <2>4
  <2>5. (i \in 1 .. N \/ i = N + 1) /\ (j \in 1 .. N \/ j = N + 1)
    BY <1>1
  <2>6. QED
    BY <2>1, <2>2, <2>3, <2>4, <2>5
<1>7. QED
  BY <1>6 DEF Apart, t

\* Without a call or a correction every label is the place of its delivery, so
\* overs never go down along the list.
LEMMA PlainLabels ==
    ASSUME NEW l \in Seq(Ball), NEW q \in Seq(Ball), Numbered(l), LabelledFrom(l \o q, Len(l)),
           OnLegalOnly(l \o q)
    PROVE  /\ \A i \in 1 .. Len(l \o q) : AtPlace((l \o q)[i], Places(l \o q)[i - 1])
           /\ \A j \in 1 .. Len(l \o q) : \A i \in 1 .. j : (l \o q)[i].over =< (l \o q)[j].over
           /\ \A i \in 1 .. Len(l \o q) : (l \o q)[i].over =< OversLabel(l \o q).over
<1> DEFINE r == l \o q
           N == Len(r)
           P == Places(r)
<1>1. /\ r \in Seq(Ball) /\ N \in Nat /\ DOMAIN r = 1 .. N /\ Len(l) \in Nat /\ Len(l) =< N
      /\ \A i \in 1 .. Len(l) : r[i] = l[i]
  BY GluedFacts
<1>2. \A i \in 1 .. Len(l) : ~IsLegal(l[i]) => l[i].override # "end"
  BY <1>1 DEF OnLegalOnly
<1>3. \A i \in 1 .. N : AtPlace(r[i], P[i - 1])
  BY <1>2, LabelledAll
<1>4. \A n \in 0 .. N : \A i \in 0 .. n : P[i].over =< P[n].over
  BY <1>1, OversOnlyGrow
<1>5. OversLabel(r) = P[N]
  BY DEF OversLabel
<1> HIDE DEF r, N, P
<1>6. ASSUME NEW j \in 1 .. N, NEW i \in 1 .. j
      PROVE  r[i].over =< r[j].over
  <2>1. i \in 1 .. N /\ j - 1 \in 0 .. N /\ i - 1 \in 0 .. (j - 1)
    BY <1>1
  <2>2. r[i].over = P[i - 1].over /\ r[j].over = P[j - 1].over
    BY <1>3, <2>1 DEF AtPlace
  <2>3. P[i - 1].over =< P[j - 1].over
    BY <1>4, <2>1
  <2>4. QED
    BY <2>2, <2>3
<1>7. ASSUME NEW i \in 1 .. N
      PROVE  r[i].over =< OversLabel(r).over
  <2>1. N \in 0 .. N /\ i - 1 \in 0 .. N
    BY <1>1
  <2>2. r[i].over = P[i - 1].over
    BY <1>3 DEF AtPlace
  <2>3. P[i - 1].over =< P[N].over
    BY <1>4, <2>1
  <2>4. QED
    BY <1>5, <2>2, <2>3
<1>8. QED
  BY <1>3, <1>6, <1>7 DEF r, N, P

\* The delivery that the server stores keeps the over it was recorded in.
LEMMA SavedOver ==
    ASSUME Kept, Kept', Plain, SyncBall, BowlerAllowed(ledger, Head(queue))
    PROVE  \E saved \in Ball :
              /\ Same(saved, Head(queue)) /\ ledger' = Append(ledger, saved)
              /\ Head(queue) \in Ball /\ saved.over = Head(queue).over
              /\ \A i \in 1 .. Len(ledger) : ledger[i].over =< Head(queue).over
<1> DEFINE L == Len(ledger)
           body == Head(queue)
           r == ledger \o queue
           t == ledger' \o queue'
<1>1. /\ body \in Ball /\ body = Recorded[L + 1] /\ L + 1 \in 1 .. Len(Recorded) /\ Len(Recorded) \in Nat
      /\ AlikeLists(Recorded, Recorded')
      /\ history' = history
  BY SyncFacts
<1>2. PICK saved \in Ball : /\ Same(saved, body) /\ ledger' = Append(ledger, saved)
                            /\ Recorded'[L + 1] = saved
  BY SyncFacts
<1>3. r = Recorded /\ t = Recorded'
  BY DEF Recorded
<1>4. /\ ledger \in Seq(Ball) /\ queue \in Seq(Ball) /\ Numbered(ledger)
      /\ LabelledFrom(r, Len(ledger)) /\ OnLegalOnly(r)
  BY DEF Kept, Listed, Labels, Plain, Recorded
<1>5. /\ ledger' \in Seq(Ball) /\ queue' \in Seq(Ball) /\ Numbered(ledger')
      /\ LabelledFrom(t, Len(ledger')) /\ OnLegalOnly(t)
  BY <1>1 DEF Kept, Listed, Labels, Plain, Recorded
<1>6. /\ \A i \in 1 .. Len(r) : AtPlace(r[i], Places(r)[i - 1])
      /\ \A j \in 1 .. Len(r) : \A i \in 1 .. j : r[i].over =< r[j].over
  BY <1>4, PlainLabels
<1>7. \A i \in 1 .. Len(t) : AtPlace(t[i], Places(t)[i - 1])
  BY <1>5, PlainLabels
<1>8. /\ L \in Nat /\ \A i \in 1 .. L : r[i] = ledger[i]
  BY <1>4, GluedFacts
<1> HIDE DEF r, t, body, L
<1>9. Len(t) = Len(r) /\ \A n \in 0 .. Len(r) : Places(r)[n] = Places(t)[n]
  BY <1>1, <1>3, AlikeFacts DEF AlikeLists
<1>10. L + 1 \in 1 .. Len(r) /\ L + 1 \in 1 .. Len(t) /\ (L + 1) - 1 = L /\ L \in 0 .. Len(r)
  BY <1>1, <1>3, <1>8, <1>9
<1>11. saved.over = body.over
  <2>1. AtPlace(r[L + 1], Places(r)[L]) /\ AtPlace(t[L + 1], Places(t)[L])
    BY <1>6, <1>7, <1>10
  <2>2. Places(t)[L] = Places(r)[L]
    BY <1>9, <1>10
  <2>3. QED
    BY <1>1, <1>2, <1>3, <2>1, <2>2 DEF AtPlace
<1>12. ASSUME NEW i \in 1 .. L
       PROVE  ledger[i].over =< body.over
  <2>1. i \in 1 .. (L + 1)
    BY <1>8
  <2>2. r[i].over =< r[L + 1].over
    BY <1>6, <1>10, <2>1
  <2>3. QED
    BY <1>1, <1>3, <1>8, <2>2
<1>13. QED
  BY <1>1, <1>2, <1>11, <1>12 DEF L, body

LEMMA ApartKept ==
    ASSUME Kept, Kept', OversApart, [Next]_vars
    PROVE  OversApart'
<1> SUFFICES ASSUME Plain'
             PROVE  Apart(ledger')
  BY DEF OversApart
<1>1. /\ Plain /\ history'["calls"] = 0 /\ history'["corrections"] = 0
  <2>1. /\ history["calls"] \in Nat /\ history["calls"] =< history'["calls"]
        /\ history["corrections"] \in Nat /\ history["corrections"] =< history'["corrections"]
        /\ history["blind"] \in Nat /\ history["blind"] =< history'["blind"]
    BY HistoryFacts DEF Counted
  <2>2. history'["calls"] = 0 /\ history'["corrections"] = 0 /\ history'["blind"] = 0
    BY DEF Plain
  <2>3. QED
    BY <2>1, <2>2 DEF Plain
<1>2. Apart(ledger)
  BY <1>1 DEF OversApart
<1>3. CASE ledger' = ledger
  BY <1>2, <1>3
<1>4. CASE SyncBall
  <2>1. CASE BowlerAllowed(ledger, Head(queue))
    <3>1. PICK saved \in Ball :
              /\ Same(saved, Head(queue)) /\ ledger' = Append(ledger, saved)
              /\ Head(queue) \in Ball /\ saved.over = Head(queue).over
              /\ \A i \in 1 .. Len(ledger) : ledger[i].over =< Head(queue).over
      BY <1>1, <1>4, <2>1, SavedOver
    <3>2. ledger \in Seq(Ball)
      BY DEF Kept, Listed
    <3>3. QED
      BY <1>2, <2>1, <3>1, <3>2, ApartAppend
  <2>2. CASE ~BowlerAllowed(ledger, Head(queue))
    BY <1>3, <1>4, <2>2 DEF SyncBall
  <2>3. QED
    BY <2>1, <2>2
<1>5. CASE \E b \in BowlerSet : ConfirmNewOverBowler(b)
  <2>1. /\ ledger' \in Seq(Ball) /\ Len(ledger') = Len(ledger)
        /\ \A i \in 1 .. Len(Recorded) : Same(Recorded'[i], Recorded[i]) /\ Recorded'[i].over = Recorded[i].over
        /\ ledger' = ledger \/ Recorded' = ledger'
        /\ ledger' # ledger => queue = <<>>
    BY <1>5, ConfirmFacts
  <2>2. CASE ledger' # ledger
    <3>1. ledger \in Seq(Ball) /\ Recorded' = ledger'
      BY <2>1, <2>2 DEF Kept, Listed
    <3>2. Recorded = ledger
      BY <2>1, <2>2, <3>1, GluedToNothing DEF Recorded
    <3>3. DOMAIN ledger = 1 .. Len(ledger) /\ DOMAIN ledger' = 1 .. Len(ledger)
      BY <2>1, <3>1
    <3>4. \A i \in 1 .. Len(ledger) : /\ ledger'[i].over = ledger[i].over
                                      /\ ledger'[i].bowler = ledger[i].bowler
                                      /\ IsDead(ledger'[i]) <=> IsDead(ledger[i])
      BY <2>1, <3>1, <3>2 DEF Same, Alike, IsDead
    <3>5. QED
      BY <1>2, <3>3, <3>4 DEF Apart
  <2>3. QED
    BY <1>3, <2>2
<1>6. CASE UndoLastBall
  <2>1. /\ ledger \in Seq(Ball) /\ ledger' \in Seq(Ball) /\ Len(ledger) = Len(ledger') + 1
        /\ Len(ledger') \in Nat /\ \A i \in 1 .. Len(ledger') : ledger'[i] = ledger[i]
    BY <1>6, UndoFacts
  <2>2. \A i \in DOMAIN ledger' : i \in DOMAIN ledger /\ ledger'[i] = ledger[i]
    BY <2>1
  <2>3. QED
    BY <1>2, <2>2 DEF Apart
<1>7. CASE \/ \E kind \in Keypad, next \in BatterSet \cup {NoPlayer} : RecordBall(kind, next)
           \/ Refetch \/ TypeNote
           \/ \E s, o \in BatterSet, b \in BowlerSet : ChoosePlayers(s, o, b)
           \/ \E r \in {"normal", "end", "continue"} : ChooseRuling(r)
           \/ \E i \in DOMAIN queue, b \in BowlerSet : CorrectQueuedBowler(i, b)
           \/ Reload \/ UNCHANGED vars
  BY <1>3, <1>7 DEF RecordBall, QueueBallForDelivery, Refetch, TypeNote, ChoosePlayers, ChooseRuling,
                   CorrectQueuedBowler, Reload, vars
<1>8. CASE \/ EndOverNow \/ ContinueOver
           \/ \E i \in DOMAIN ledger, kind \in Kind : EditBall(i, kind)
           \/ \E i \in DOMAIN ledger : DeleteBall(i)
  BY <1>1, <1>8, HistoryFacts
<1>9. QED
  BY <1>4, <1>5, <1>6, <1>7, <1>8 DEF Next

LEMMA ApartOvers == Kept /\ OversApart => NoConsecutiveOvers
<1> SUFFICES ASSUME Kept, OversApart, Plain, NEW o \in 0 .. Overs, NEW b,
                    b \in BowlersOf(ledger, o), b \in BowlersOf(ledger, o + 1)
             PROVE  FALSE
  BY DEF NoConsecutiveOvers, Plain
<1>1. Apart(ledger)
  BY DEF OversApart
<1>2. PICK i \in DOMAIN ledger : ledger[i].over = o /\ ~IsDead(ledger[i]) /\ ledger[i].bowler = b
  BY DEF BowlersOf, InOver
<1>3. PICK j \in DOMAIN ledger : ledger[j].over = o + 1 /\ ~IsDead(ledger[j]) /\ ledger[j].bowler = b
  BY DEF BowlersOf, InOver
<1>4. QED
  BY <1>1, <1>2, <1>3 DEF Apart

-----------------------------------------------------------------------------
(* Strike *)

\* The innings runs without calls, corrections, choices and reloads.
Quiet == \A f \in {"calls", "corrections", "choices", "reloads"} : history[f] = 0

LabelledWell(s) == \A i \in DOMAIN s : AtPlace(s[i], Places(s)[i - 1])

\* Every delivery was faced by the batter who was due.
Struck(s) ==
    \A i \in DOMAIN s : s[i].striker = Faces(s)[i - 1].striker /\ s[i].other = Faces(s)[i - 1].other

Strike ==
    Quiet => /\ loaded /\ history.blind = 0 /\ ruling = "normal"
             /\ NoCalls(Recorded) /\ Struck(Recorded)
             /\ pick.striker = Facing(Recorded).striker /\ pick.other = Facing(Recorded).other

LEMMA RecordedLabels ==
    Kept /\ Plain =>
        /\ Recorded \in Seq(Ball)
        /\ LabelledWell(Recorded)
        /\ \A j \in 1 .. Len(Recorded) : \A i \in 1 .. j : Recorded[i].over =< Recorded[j].over
        /\ \A i \in 1 .. Len(Recorded) : Recorded[i].over =< OversLabel(Recorded).over
<1> SUFFICES ASSUME Kept, Plain
             PROVE  /\ Recorded \in Seq(Ball)
                    /\ LabelledWell(Recorded)
                    /\ \A j \in 1 .. Len(Recorded) : \A i \in 1 .. j : Recorded[i].over =< Recorded[j].over
                    /\ \A i \in 1 .. Len(Recorded) : Recorded[i].over =< OversLabel(Recorded).over
  OBVIOUS
<1>1. /\ ledger \in Seq(Ball) /\ queue \in Seq(Ball) /\ Numbered(ledger)
      /\ LabelledFrom(ledger \o queue, Len(ledger)) /\ OnLegalOnly(ledger \o queue)
  BY DEF Kept, Listed, Labels, Plain, Recorded
<1> DEFINE r == ledger \o queue
<1>2. /\ \A i \in 1 .. Len(r) : AtPlace(r[i], Places(r)[i - 1])
      /\ \A j \in 1 .. Len(r) : \A i \in 1 .. j : r[i].over =< r[j].over
      /\ \A i \in 1 .. Len(r) : r[i].over =< OversLabel(r).over
  BY <1>1, PlainLabels
<1>3. r = Recorded /\ r \in Seq(Ball) /\ DOMAIN r = 1 .. Len(r)
  BY <1>1, GluedFacts DEF Recorded
<1> HIDE DEF r
<1>4. QED
  BY <1>2, <1>3 DEF LabelledWell

\* Without a call, the label says whether the over ends.
LEMMA PlainEnds ==
    ASSUME NEW e \in Ball, NEW p \in Place, AtPlace(e, p), e.override = "none"
    PROVE  /\ ClosesOver(e, e.ball) <=> AsksForBowler(e)
           /\ After(p, e).over = IF AsksForBowler(e) THEN p.over + 1 ELSE p.over
           /\ (After(p, e).over # p.over) <=> ClosesOver(e, e.ball)
<1>1. e.over = p.over /\ e.ball = p.balls + 1 /\ p.over \in Nat /\ p.balls \in Nat
  BY DEF AtPlace, Place
<1>2. CASE IsLegal(e)
  <2>1. ~IsDead(e)
    BY <1>2 DEF IsLegal, IsDead
  <2>2. BallsWith(p.balls, e) = e.ball
    BY <1>1, <1>2 DEF BallsWith
  <2>3. ClosesOver(e, e.ball) <=> e.ball = BallsPerOver
    BY <1>2, <2>1 DEF ClosesOver
  <2>4. AsksForBowler(e) <=> e.ball = BallsPerOver
    BY <1>2 DEF AsksForBowler
  <2>5. After(p, e).over = IF e.ball = BallsPerOver THEN p.over + 1 ELSE p.over
    BY <2>2, <2>3 DEF After
  <2>6. p.over + 1 # p.over
    BY <1>1
  <2>7. QED
    BY <2>3, <2>4, <2>5, <2>6
<1>3. CASE ~IsLegal(e)
  <2>1. BallsWith(p.balls, e) = p.balls
    BY <1>3 DEF BallsWith
  <2>2. ~ClosesOver(e, e.ball) /\ ~ClosesOver(e, p.balls) /\ ~AsksForBowler(e)
    BY <1>3 DEF ClosesOver, AsksForBowler
  <2>3. After(p, e).over = p.over
    BY <2>1, <2>2 DEF After
  <2>4. QED
    BY <2>2, <2>3
<1>4. QED
  BY <1>2, <1>3

\* Then the players that the screen selects by the last delivery alone are the
\* ones due by the whole innings.
LEMMA SelectedAreDue ==
    ASSUME NEW s \in Seq(Ball), s # <<>>, NoCalls(s), Struck(s), LabelledWell(s)
    PROVE  /\ SelectionAfter(Last(s)).striker = Facing(s).striker
           /\ SelectionAfter(Last(s)).other = Facing(s).other
<1> DEFINE N == Len(s)
           e == s[N]
           before == Faces(s)[N - 1]
           p == Places(s)[N - 1]
<1>1. N \in Nat /\ N \in 1 .. N /\ N \in DOMAIN s /\ N - 1 \in 0 .. N /\ Last(s) = e /\ e \in Ball
  <2>1. N \in Nat /\ N \in 1 .. N /\ N \in DOMAIN s /\ N - 1 \in 0 .. N
    OBVIOUS
  <2>2. QED
    BY <2>1, FrontFacts
<1>2. before \in Ends /\ Facing(s) = Face(before, e)
  BY <1>1, FacesFacts DEF Facing
<1>3. before.place = p /\ p \in Place
  BY <1>1, FacesHavePlaces, PlacesFacts
<1>4. AtPlace(e, p) /\ e.override = "none" /\ e.striker = before.striker /\ e.other = before.other
  BY <1>1 DEF LabelledWell, NoCalls, Struck
<1> HIDE DEF e, before, p, N
<1>5. (After(p, e).over # p.over) <=> ClosesOver(e, e.ball)
  BY <1>1, <1>3, <1>4, PlainEnds
<1> DEFINE facing == IF e.kind = "out" THEN e.next ELSE e.striker
           swap == (e.kind = "single") # ClosesOver(e, e.ball)
           turn == (e.kind = "single") # (After(p, e).over # p.over)
<1>6. /\ SelectionAfter(e).striker = IF swap THEN e.other ELSE facing
      /\ SelectionAfter(e).other = IF swap THEN facing ELSE e.other
  BY DEF SelectionAfter
<1>7. /\ Face(before, e).striker = IF turn THEN e.other ELSE facing
      /\ Face(before, e).other = IF turn THEN facing ELSE e.other
  BY <1>3, <1>4 DEF Face
<1>8. swap = turn
  <2> DEFINE closes == ClosesOver(e, e.ball)
             moves == After(p, e).over # p.over
  <2>1. closes \in BOOLEAN /\ moves \in BOOLEAN
    BY DEF ClosesOver
  <2>2. closes = moves
    BY <1>5, <2>1
  <2>3. swap = ((e.kind = "single") # closes) /\ turn = ((e.kind = "single") # moves)
    OBVIOUS
  <2> HIDE DEF closes, moves, swap, turn
  <2>4. QED
    BY <2>2, <2>3
<1> HIDE DEF swap, turn, facing
<1>9. QED
  BY <1>1, <1>2, <1>6, <1>7, <1>8

\* The same deliveries, the same strike.
LEMMA StruckAlike ==
    ASSUME NEW s, NEW t, AlikeLists(s, t), Struck(s)
    PROVE  Struck(t)
<1>1. /\ DOMAIN t = 1 .. Len(s) /\ DOMAIN s = 1 .. Len(s) /\ Len(s) \in Nat
      /\ \A i \in 1 .. Len(s) : t[i].striker = s[i].striker /\ t[i].other = s[i].other
  BY DEF AlikeLists, Alike
<1>2. \A n \in 0 .. Len(s) : Faces(s)[n] = Faces(t)[n]
  BY AlikeFacts
<1>3. \A i \in 1 .. Len(s) : i - 1 \in 0 .. Len(s)
  BY <1>1
<1>4. QED
  BY <1>1, <1>2, <1>3 DEF Struck

LEMMA InitStrike == Init => Strike
<1> SUFFICES ASSUME Init PROVE Strike
  OBVIOUS
<1>1. /\ ledger = <<>> /\ queue = <<>> /\ loaded = TRUE /\ ruling = "normal"
      /\ pick = [striker |-> Batters[1], other |-> Batters[2], bowler |-> Bowlers[1]]
      /\ history = [f \in Counted |-> 0]
  BY DEF Init
<1>2. <<>> \in Seq(Ball) /\ <<>> \o <<>> = <<>> /\ DOMAIN <<>> = {} /\ Len(<<>>) = 0
  <2>1. <<>> \in Seq(Ball)
    OBVIOUS
  <2>2. QED
    BY <2>1, GluedToNothing
<1>3. Recorded = <<>>
  BY <1>1, <1>2 DEF Recorded
<1>4. Facing(<<>>) = [striker |-> Batters[1], other |-> Batters[2], place |-> Start]
  BY <1>2, FacesFacts DEF Facing
<1>5. history.blind = 0
  BY <1>1 DEF Counted
<1>6. QED
  BY <1>1, <1>2, <1>3, <1>4, <1>5 DEF Strike, NoCalls, Struck

\* A step of a quiet innings comes from a quiet innings, by one of these actions.
LEMMA QuietSteps ==
    ASSUME Kept, [Next]_vars, Quiet'
    PROVE  /\ Quiet
           /\ \/ \E kind \in Keypad, next \in BatterSet \cup {NoPlayer} : RecordBall(kind, next)
              \/ SyncBall \/ Refetch \/ TypeNote \/ UndoLastBall \/ UNCHANGED vars
              \/ \E b \in BowlerSet : ConfirmNewOverBowler(b)
<1>1. \A f \in Counted : history[f] \in Nat /\ history'[f] \in Nat /\ history[f] =< history'[f]
  BY HistoryFacts
<1>2. \A f \in {"calls", "corrections", "choices", "reloads"} : f \in Counted /\ history'[f] = 0
  BY DEF Quiet, Counted
<1>3. Quiet
  BY <1>1, <1>2 DEF Quiet
<1>4. /\ history'["calls"] = 0 /\ history'["corrections"] = 0
      /\ history'["choices"] = 0 /\ history'["reloads"] = 0
  BY <1>2
<1>5. QED
  BY <1>3, <1>4, HistoryFacts DEF Next

LEMMA StrikeKept ==
    ASSUME Kept, Kept', Strike, [Next]_vars
    PROVE  Strike'
<1> DEFINE r == Recorded
           t == Recorded'
<1> SUFFICES ASSUME Quiet'
             PROVE  /\ loaded' /\ history'.blind = 0 /\ ruling' = "normal"
                    /\ NoCalls(t) /\ Struck(t)
                    /\ pick'.striker = Facing(t).striker /\ pick'.other = Facing(t).other
  BY DEF Strike
<1>1. /\ \/ \E kind \in Keypad, next \in BatterSet \cup {NoPlayer} : RecordBall(kind, next)
         \/ SyncBall \/ Refetch \/ TypeNote \/ UndoLastBall \/ UNCHANGED vars
         \/ \E b \in BowlerSet : ConfirmNewOverBowler(b)
      /\ Quiet
  BY QuietSteps
<1>2. /\ loaded /\ history.blind = 0 /\ ruling = "normal" /\ data = r
      /\ NoCalls(r) /\ Struck(r)
      /\ pick.striker = Facing(r).striker /\ pick.other = Facing(r).other
  BY <1>1 DEF Strike, Kept, Listed
<1>3. Quiet' /\ history'.blind = 0 => LabelledWell(t) /\ t \in Seq(Ball)
  <2>1. (Kept /\ Plain => Recorded \in Seq(Ball) /\ LabelledWell(Recorded))'
    BY RecordedLabels, PTL
  <2>2. QED
    BY <2>1 DEF Plain, Quiet
<1>4. ASSUME AlikeLists(r, t), UNCHANGED <<loaded, ruling>>, history'.blind = history.blind,
             \/ pick'.striker = pick.striker /\ pick'.other = pick.other
             \/ /\ t # <<>>
                /\ pick'.striker = SelectionAfter(Last(t)).striker
                /\ pick'.other = SelectionAfter(Last(t)).other
      PROVE  /\ loaded' /\ history'.blind = 0 /\ ruling' = "normal"
             /\ NoCalls(t) /\ Struck(t)
             /\ pick'.striker = Facing(t).striker /\ pick'.other = Facing(t).other
  <2>1. NoCalls(t) /\ Facing(t) = Facing(r)
    BY <1>2, <1>4, AlikeFacts
  <2>2. Struck(t)
    BY <1>2, <1>4, StruckAlike
  <2>3. LabelledWell(t) /\ t \in Seq(Ball)
    BY <1>2, <1>3, <1>4
  <2>4. t # <<>> => /\ SelectionAfter(Last(t)).striker = Facing(t).striker
                    /\ SelectionAfter(Last(t)).other = Facing(t).other
    BY <2>1, <2>2, <2>3, SelectedAreDue
  <2>5. QED
    BY <1>2, <1>4, <2>1, <2>2, <2>4
<1>5. ASSUME r = t
      PROVE  AlikeLists(r, t)
  <2>1. r \in Seq(Ball)
    BY RecordedFacts
  <2>2. QED
    BY <1>5, <2>1 DEF AlikeLists, Alike
<1>6. CASE \E kind \in Keypad, next \in BatterSet \cup {NoPlayer} : RecordBall(kind, next)
  <2>1. PICK kind \in Keypad, next \in BatterSet \cup {NoPlayer} : RecordBall(kind, next)
    BY <1>6
  <2> DEFINE body == BodyFor(kind, next)
             N == Len(r)
  <2>2. /\ body \in Ball /\ body.override = OverrideFor(kind)
        /\ body.striker = pick.striker /\ body.other = pick.other
    BY <2>1, BodyFacts DEF RecordBall
  <2>3. /\ r \in Seq(Ball) /\ t \in Seq(Ball) /\ N \in Nat /\ Len(t) = N + 1 /\ t[N + 1] = body
        /\ \A i \in 1 .. N : t[i] = r[i]
        /\ history'.blind = history.blind
    BY <1>2, <2>1, RecordFacts
  <2>4. loaded' /\ ApplyAcceptedBallUi(body)
    BY <1>2, <2>1 DEF RecordBall, QueueBallForDelivery
  <2>5. body.override = "none"
    BY <1>2, <2>2 DEF OverrideFor
  <2> HIDE DEF body, N, r, t
  <2>6. /\ ruling' = "normal"
        /\ pick'.striker = SelectionAfter(body).striker /\ pick'.other = SelectionAfter(body).other
    <3>1. ruling' = "normal"
      BY <1>2, <2>4, <2>5 DEF ApplyAcceptedBallUi
    <3>2. pick' = [SelectionAfter(body) EXCEPT !.bowler = pick.bowler]
      BY <2>4 DEF ApplyAcceptedBallUi, ApplyPostBallState
    <3>3. SelectionAfter(body) \in Picks
      BY <2>2, SelectionTypes
    <3>4. QED
      BY <3>1, <3>2, <3>3 DEF Picks
  <2>7. DOMAIN t = 1 .. (N + 1) /\ DOMAIN r = 1 .. N /\ \A i \in 1 .. (N + 1) : i = N + 1 \/ i \in 1 .. N
    BY <2>3 DEF N
  <2>8. \A n \in 0 .. N : Faces(t)[n] = Faces(r)[n]
    <3>1. \A i \in 1 .. Len(r) : Alike(r[i], t[i])
      BY <2>3 DEF Alike, N
    <3>2. Len(t) = Len(r) + 1
      BY <2>3 DEF N
    <3>3. QED
      BY <2>3, <3>1, <3>2, LongerBy DEF N
  <2>9. NoCalls(t)
    BY <1>2, <2>3, <2>5, <2>7 DEF NoCalls
  <2>10. Struck(t)
    <3>1. ASSUME NEW i \in 1 .. (N + 1)
          PROVE  t[i].striker = Faces(t)[i - 1].striker /\ t[i].other = Faces(t)[i - 1].other
      <4>1. i - 1 \in 0 .. N
        BY <2>3
      <4>2. CASE i = N + 1
        <5>1. i - 1 = N /\ Faces(t)[N] = Facing(r)
          BY <2>3, <2>8, <4>1, <4>2 DEF Facing, N
        <5>2. QED
          BY <1>2, <2>2, <2>3, <4>2, <5>1
      <4>3. CASE i \in 1 .. N
        BY <1>2, <2>3, <2>7, <2>8, <4>1, <4>3 DEF Struck
      <4>4. QED
        BY <2>7, <4>2, <4>3
    <3>2. QED
      BY <2>7, <3>1 DEF Struck
  <2>11. t # <<>> /\ Last(t) = body
    <3>1. t # <<>>
      BY <2>3
    <3>2. Last(t) = t[Len(t)]
      BY <2>3, <3>1, FrontFacts
    <3>3. QED
      BY <2>3, <3>1, <3>2
  <2>12. LabelledWell(t)
    BY <1>2, <1>3, <2>3
  <2>13. /\ SelectionAfter(Last(t)).striker = Facing(t).striker
         /\ SelectionAfter(Last(t)).other = Facing(t).other
    BY <2>3, <2>9, <2>10, <2>11, <2>12, SelectedAreDue
  <2>14. QED
    BY <1>2, <2>3, <2>4, <2>6, <2>9, <2>10, <2>11, <2>13
<1>7. CASE SyncBall
  <2>1. UNCHANGED <<loaded, ruling, pick, history>>
    BY <1>7 DEF SyncBall
  <2>2. CASE BowlerAllowed(ledger, Head(queue))
    <3>1. AlikeLists(r, t)
      BY <1>7, <2>2, SyncFacts
    <3>2. QED
      BY <1>4, <2>1, <3>1
  <2>3. CASE ~BowlerAllowed(ledger, Head(queue))
    <3>1. r = t
      BY <1>7, <2>3 DEF SyncBall, Recorded
    <3>2. QED
      BY <1>4, <1>5, <2>1, <3>1
  <2>4. QED
    BY <2>2, <2>3
<1>8. CASE Refetch
  <2>1. r = t /\ loaded' = TRUE /\ Show(ledger, queue, key) /\ UNCHANGED <<ruling, history>>
    BY <1>8 DEF Refetch, Recorded
  <2>2. /\ ledger \in Seq(Ball) /\ queue \in Seq(Ball) /\ key \in Nat \X Nat /\ pick \in Picks
        /\ OnceEach(ledger \o queue, history.balls)
    BY DEF Kept, Screen, Listed, Recorded
  <2>3. pick' = pick \/ (data' # <<>> /\ pick' = SelectionAfter(Last(data')))
    BY <2>1, <2>2, ShowFacts
  <2>4. data' = t
    BY <2>1 DEF Kept, Listed
  <2>5. loaded' = loaded
    BY <1>2, <2>1
  <2>6. QED
    BY <1>4, <1>5, <2>1, <2>3, <2>4, <2>5
<1>9. CASE TypeNote
  <2>1. r = t /\ UNCHANGED <<loaded, ruling, pick, history>>
    BY <1>9 DEF TypeNote, Recorded
  <2>2. QED
    BY <1>4, <1>5, <2>1
<1>10. CASE UNCHANGED vars
  <2>1. r = t /\ UNCHANGED <<loaded, ruling, pick, history>>
    BY <1>10 DEF vars, Recorded
  <2>2. QED
    BY <1>4, <1>5, <2>1
<1>11. CASE \E b \in BowlerSet : ConfirmNewOverBowler(b)
  <2>1. /\ UNCHANGED <<loaded, ruling, history>>
        /\ AlikeLists(r, t)
        /\ \/ pick'.striker = pick.striker /\ pick'.other = pick.other
           \/ /\ r # <<>>
              /\ pick'.striker = SelectionAfter(Last(t)).striker
              /\ pick'.other = SelectionAfter(Last(t)).other
    BY <1>11, ConfirmFacts
  <2>2. r # <<>> => t # <<>>
    BY <2>1 DEF AlikeLists
  <2>3. QED
    BY <1>4, <2>1, <2>2
<1>12. CASE UndoLastBall
  <2> DEFINE N == Len(t)
  <2>1. /\ loaded' = loaded /\ ruling' = ruling /\ history'.blind = history.blind
        /\ r \in Seq(Ball) /\ t \in Seq(Ball) /\ Len(r) = N + 1 /\ N \in Nat
        /\ \A i \in 1 .. N : t[i] = r[i]
        /\ pick' = SelectionBefore(r[N + 1])
    BY <1>12, UndoFacts DEF Counted
  <2> HIDE DEF r, t, N
  <2>2. DOMAIN t = 1 .. N /\ DOMAIN r = 1 .. (N + 1) /\ N + 1 \in 1 .. (N + 1) /\ (N + 1) - 1 = N
        /\ N \in 0 .. N
    BY <2>1 DEF N
  <2>3. \A n \in 0 .. N : Faces(r)[n] = Faces(t)[n]
    <3>1. \A i \in 1 .. Len(t) : Alike(t[i], r[i])
      BY <2>1 DEF Alike, N
    <3>2. Len(r) = Len(t) + 1
      BY <2>1 DEF N
    <3>3. QED
      BY <2>1, <3>1, <3>2, LongerBy DEF N
  <2>4. NoCalls(t)
    BY <1>2, <2>1, <2>2 DEF NoCalls
  <2>5. Struck(t)
    <3>1. \A i \in 1 .. N : i - 1 \in 0 .. N /\ i \in 1 .. (N + 1)
      BY <2>1
    <3>2. QED
      BY <1>2, <2>1, <2>2, <2>3, <3>1 DEF Struck
  <2>6. r[N + 1].striker = Faces(r)[N].striker /\ r[N + 1].other = Faces(r)[N].other
    BY <1>2, <2>2 DEF Struck
  <2>7. Facing(t) = Faces(r)[N]
    BY <2>2, <2>3 DEF Facing, N
  <2>8. pick'.striker = r[N + 1].striker /\ pick'.other = r[N + 1].other
    BY <2>1 DEF SelectionBefore
  <2>9. QED
    BY <1>2, <2>1, <2>4, <2>5, <2>6, <2>7, <2>8
<1>13. QED
  BY <1>1, <1>6, <1>7, <1>8, <1>9, <1>10, <1>11, <1>12

-----------------------------------------------------------------------------
(* Why scoring pauses *)

\* A delivery does not keep this bowler from this over.
Fits(e, over, bowler) ==
    /\ e.over = over => e.bowler = bowler
    /\ e.over + 1 = over => e.bowler # bowler

MayBowl(s, over, bowler) == \A i \in DOMAIN s : Fits(s[i], over, bowler)

\* Every delivery fits the ones before it.
InTurn(s) == \A j \in DOMAIN s : \A i \in 1 .. (j - 1) : Fits(s[i], s[j].over, s[j].bowler)

OverIsAsked ==
    /\ Recorded # <<>>
    /\ dialog.previous = Last(Recorded).bowler
    /\ OversLabel(Recorded).over = Last(Recorded).over + 1

Turns ==
    Quiet => /\ dialog.open => OverIsAsked
             /\ ~reset => /\ InTurn(Recorded) /\ ~paused
                          /\ ~dialog.open => MayBowl(Recorded, OversLabel(Recorded).over, pick.bowler)

\* Two lists with the same overs and bowlers.
SameTurns(s, t) ==
    /\ s \in Seq(Ball) /\ t \in Seq(Ball) /\ Len(s) = Len(t) /\ Len(s) \in Nat
    /\ \A i \in 1 .. Len(s) : s[i].over = t[i].over /\ s[i].bowler = t[i].bowler

LEMMA SameTurnsFacts ==
    ASSUME NEW s, NEW t, SameTurns(s, t)
    PROVE  /\ InTurn(s) => InTurn(t)
           /\ \A o, b : MayBowl(s, o, b) => MayBowl(t, o, b)
           /\ s # <<>> => /\ t # <<>> /\ Last(t).bowler = Last(s).bowler /\ Last(t).over = Last(s).over
<1>1. /\ s \in Seq(Ball) /\ t \in Seq(Ball) /\ Len(s) = Len(t) /\ Len(s) \in Nat
      /\ \A i \in 1 .. Len(s) : s[i].over = t[i].over /\ s[i].bowler = t[i].bowler
      /\ DOMAIN s = 1 .. Len(s) /\ DOMAIN t = 1 .. Len(s)
  BY DEF SameTurns
<1>2. ASSUME NEW i \in 1 .. Len(s), NEW o, NEW b, Fits(s[i], o, b)
      PROVE  Fits(t[i], o, b)
  BY <1>1, <1>2 DEF Fits
<1>3. ASSUME InTurn(s)
      PROVE  InTurn(t)
  <2>1. ASSUME NEW j \in 1 .. Len(s), NEW i \in 1 .. (j - 1)
        PROVE  Fits(t[i], t[j].over, t[j].bowler)
    <3>1. i \in 1 .. Len(s)
      BY <1>1
    <3>2. Fits(s[i], s[j].over, s[j].bowler)
      BY <1>1, <1>3 DEF InTurn
    <3>3. QED
      BY <1>1, <1>2, <3>1, <3>2
  <2>2. QED
    BY <1>1, <2>1 DEF InTurn
<1>4. \A o, b : MayBowl(s, o, b) => MayBowl(t, o, b)
  BY <1>1, <1>2 DEF MayBowl
<1>5. ASSUME s # <<>>
      PROVE  t # <<>> /\ Last(t).bowler = Last(s).bowler /\ Last(t).over = Last(s).over
  <2>1. t # <<>> /\ Len(s) \in 1 .. Len(s)
    BY <1>1, <1>5
  <2>2. Last(s) = s[Len(s)] /\ Last(t) = t[Len(t)]
    BY <1>1, <1>5, <2>1, FrontFacts
  <2>3. QED
    BY <1>1, <2>1, <2>2
<1>6. QED
  BY <1>3, <1>4, <1>5

\* The server takes a delivery that fits the ones it has.
LEMMA FittingIsAllowed ==
    ASSUME NEW s \in Seq(Ball), NEW e \in Ball, \A i \in 1 .. Len(s) : Fits(s[i], e.over, e.bowler)
    PROVE  BowlerAllowed(s, e)
<1>1. CASE e.over = 0
  BY <1>1 DEF BowlerAllowed
<1>2. CASE e.over # 0
  <2>1. e.over \in Nat
    BY DEF Ball, Event
  <2>2. ASSUME NEW i \in InOver(s, e.over - 1)
        PROVE  s[i].bowler # e.bowler
    <3>1. i \in 1 .. Len(s) /\ s[i].over = e.over - 1
      BY DEF InOver
    <3>2. Fits(s[i], e.over, e.bowler)
      BY <3>1
    <3>3. s[i].over + 1 = e.over
      BY <2>1, <3>1
    <3>4. QED
      BY <3>2, <3>3 DEF Fits
  <2>3. e.bowler \notin BowlersOf(s, e.over - 1)
    BY <2>2 DEF BowlersOf
  <2>4. QED
    BY <2>3 DEF BowlerAllowed
<1>3. QED
  BY <1>1, <1>2

\* Whoever did not bowl the last delivery may bowl the over after it.
LEMMA NewOverFits ==
    ASSUME NEW s \in Seq(Ball), s # <<>>, InTurn(s), NEW b, b # Last(s).bowler,
           \A i \in 1 .. Len(s) : s[i].over =< s[Len(s)].over
    PROVE  MayBowl(s, Last(s).over + 1, b)
<1> DEFINE N == Len(s)
           e == s[N]
<1>1. N \in Nat /\ N \in 1 .. N /\ DOMAIN s = 1 .. N
  OBVIOUS
<1>2. Last(s) = e
  BY FrontFacts
<1>3. \A i \in 1 .. N : s[i].over \in Nat
  <2>1. \A i \in 1 .. N : s[i] \in Ball
    OBVIOUS
  <2>2. QED
    BY <2>1 DEF Ball, Event
<1>4. e.over \in Nat
  BY <1>1, <1>3
<1>5. ASSUME NEW i \in 1 .. N
      PROVE  Fits(s[i], e.over + 1, b)
  <2>1. s[i].over =< e.over /\ s[i].over \in Nat
    BY <1>3
  <2>2. s[i].over # e.over + 1
    BY <1>4, <2>1
  <2>3. CASE i = N
    BY <1>2, <2>2, <2>3 DEF Fits
  <2>4. CASE i # N
    <3>1. i \in 1 .. (N - 1)
      <4>1. N \in Nat /\ i \in 1 .. N /\ i # N
        BY <1>1, <2>4
      <4> HIDE DEF N
      <4>2. QED
        BY <4>1
    <3>2. Fits(s[i], e.over, e.bowler)
      BY <1>1, <3>1 DEF InTurn
    <3> DEFINE o == s[i].over
               w == s[i].bowler
               p == e.over
               v == e.bowler
    <3>3. o \in Nat /\ p \in Nat /\ o # p + 1 /\ b # v
      BY <1>2, <1>4, <2>1, <2>2
    <3>4. o = p => w = v
      BY <3>2 DEF Fits
    <3> HIDE DEF o, w, p, v, e
    <3>5. (o = p + 1 => w = b) /\ (o + 1 = p + 1 => w # b)
      BY <3>3, <3>4
    <3>6. QED
      BY <3>5 DEF Fits, o, w, p
  <2>5. QED
    BY <2>3, <2>4
<1> HIDE DEF e, N
<1>6. QED
  BY <1>1, <1>2, <1>5 DEF MayBowl

LEMMA InitTurns == Init => Turns
<1> SUFFICES ASSUME Init PROVE Turns
  OBVIOUS
<1>1. /\ ledger = <<>> /\ queue = <<>> /\ dialog = Closed /\ paused = FALSE
  BY DEF Init
<1>2. <<>> \in Seq(Ball) /\ <<>> \o <<>> = <<>> /\ DOMAIN <<>> = {}
  <2>1. <<>> \in Seq(Ball)
    OBVIOUS
  <2>2. QED
    BY <2>1, GluedToNothing
<1>3. Recorded = <<>>
  BY <1>1, <1>2 DEF Recorded
<1>4. QED
  BY <1>1, <1>2, <1>3 DEF Turns, InTurn, MayBowl, Closed

LEMMA TurnsKept ==
    ASSUME Kept, Kept', Strike, Strike', Turns, [Next]_vars
    PROVE  Turns'
<1> DEFINE r == Recorded
           t == Recorded'
<1> SUFFICES ASSUME Quiet'
             PROVE  /\ dialog'.open => OverIsAsked'
                    /\ ~reset' => /\ InTurn(t) /\ ~paused'
                                  /\ ~dialog'.open => MayBowl(t, OversLabel(t).over, pick'.bowler)
  BY DEF Turns
<1>1. /\ \/ \E kind \in Keypad, next \in BatterSet \cup {NoPlayer} : RecordBall(kind, next)
         \/ SyncBall \/ Refetch \/ TypeNote \/ UndoLastBall \/ UNCHANGED vars
         \/ \E b \in BowlerSet : ConfirmNewOverBowler(b)
      /\ Quiet
  BY QuietSteps
<1>2. /\ loaded /\ history.blind = 0 /\ ruling = "normal" /\ data = r /\ Plain
  BY <1>1 DEF Strike, Kept, Listed, Quiet, Plain
<1>3. Plain'
  BY DEF Strike, Quiet, Plain
<1>4. /\ r \in Seq(Ball) /\ LabelledWell(r) /\ Len(r) \in Nat /\ DOMAIN r = 1 .. Len(r)
      /\ \A j \in 1 .. Len(r) : \A i \in 1 .. j : r[i].over =< r[j].over
  BY <1>2, RecordedLabels, RecordedFacts
<1>5. t \in Seq(Ball) /\ LabelledWell(t)
  <2>1. (Kept /\ Plain => Recorded \in Seq(Ball) /\ LabelledWell(Recorded))'
    BY RecordedLabels, PTL
  <2>2. QED
    BY <1>3, <2>1
<1>6. /\ dialog.open => OverIsAsked
      /\ ~reset => /\ InTurn(r) /\ ~paused
                   /\ ~dialog.open => MayBowl(r, OversLabel(r).over, pick.bowler)
  BY <1>1 DEF Turns
<1>7. ASSUME SameTurns(r, t), OversLabel(r) = OversLabel(t), reset' = reset, paused' = paused,
             dialog'.open = dialog.open, dialog'.previous = dialog.previous, pick' = pick
      PROVE  /\ dialog'.open => OverIsAsked'
             /\ ~reset' => /\ InTurn(t) /\ ~paused'
                           /\ ~dialog'.open => MayBowl(t, OversLabel(t).over, pick'.bowler)
  <2>1. dialog'.open => OverIsAsked'
    BY <1>6, <1>7, SameTurnsFacts DEF OverIsAsked
  <2>2. /\ InTurn(r) => InTurn(t)
        /\ \A o, b : MayBowl(r, o, b) => MayBowl(t, o, b)
    BY <1>7, SameTurnsFacts
  <2> HIDE DEF r, t
  <2>3. QED
    BY <1>6, <1>7, <2>1, <2>2
<1>8. ASSUME r = t
      PROVE  SameTurns(r, t) /\ OversLabel(r) = OversLabel(t)
  BY <1>4, <1>8 DEF SameTurns
<1>9. CASE \E kind \in Keypad, next \in BatterSet \cup {NoPlayer} : RecordBall(kind, next)
  <2>1. PICK kind \in Keypad, next \in BatterSet \cup {NoPlayer} : RecordBall(kind, next)
    BY <1>9
  <2> DEFINE body == BodyFor(kind, next)
             N == Len(r)
             p == OversLabel(r)
  <2>2. /\ body \in Ball /\ body.override = OverrideFor(kind) /\ body.bowler = pick.bowler
        /\ AtPlace(body, p)
    BY <1>2, <2>1, BodyFacts DEF RecordBall
  <2>3. /\ N \in Nat /\ Len(t) = N + 1 /\ t[N + 1] = body
        /\ \A i \in 1 .. N : t[i] = r[i]
    BY <2>1, RecordFacts
  <2>4. ApplyAcceptedBallUi(body) /\ ~dialog.open /\ paused' = paused /\ reset' = reset
    BY <1>2, <2>1 DEF RecordBall, QueueBallForDelivery
  <2>5. body.override = "none"
    BY <1>2, <2>2 DEF OverrideFor
  <2>6. p \in Place
    <3>1. N \in 0 .. N
      BY <2>3
    <3>2. QED
      BY <1>4, <3>1, PlacesFacts DEF OversLabel
  <2>7. OversLabel(t) = After(p, body)
    <3>1. \A i \in 1 .. Len(r) : Alike(r[i], t[i])
      BY <2>3 DEF Alike
    <3>2. Len(t) = Len(r) + 1
      BY <2>3
    <3>3. OversLabel(t) = After(OversLabel(r), t[Len(t)])
      BY <1>4, <1>5, <3>1, <3>2, LongerBy
    <3>4. QED
      BY <2>3, <3>3
  <2> HIDE DEF body, p
  <2>8. OversLabel(t).over = IF AsksForBowler(body) THEN p.over + 1 ELSE p.over
    BY <2>2, <2>5, <2>6, <2>7, PlainEnds
  <2>9. body.over = p.over /\ p.over \in Nat
    BY <2>2, <2>6 DEF AtPlace, Place
  <2>10. pick'.bowler = pick.bowler
    <3>1. pick' = [SelectionAfter(body) EXCEPT !.bowler = pick.bowler]
      BY <2>4 DEF ApplyAcceptedBallUi, ApplyPostBallState
    <3>2. SelectionAfter(body) \in Picks
      BY <2>2, SelectionTypes
    <3>3. QED
      BY <3>1, <3>2 DEF Picks
  <2>11. dialog' = IF AsksForBowler(body)
                   THEN [open |-> TRUE, over |-> body.over + 1, previous |-> body.bowler, note |-> FALSE]
                   ELSE dialog
    BY <2>4 DEF ApplyAcceptedBallUi
  <2>12. ASSUME dialog'.open
         PROVE  OverIsAsked'
    <3>1. AsksForBowler(body)
      BY <2>4, <2>11, <2>12
    <3>2. dialog'.previous = body.bowler
      BY <2>11, <3>1
    <3>3. t # <<>>
      BY <1>5, <2>3
    <3>4. Last(t) = t[Len(t)]
      BY <1>5, <3>3, FrontFacts
    <3>5. Last(t) = body
      BY <2>3, <3>4
    <3>6. QED
      BY <2>8, <2>9, <3>1, <3>2, <3>3, <3>5 DEF OverIsAsked
  <2>13. ASSUME ~reset'
         PROVE  /\ InTurn(t) /\ ~paused'
                /\ ~dialog'.open => MayBowl(t, OversLabel(t).over, pick'.bowler)
    <3>1. InTurn(r) /\ ~paused' /\ MayBowl(r, p.over, pick.bowler)
      BY <1>6, <2>4, <2>13 DEF p
    <3>2. DOMAIN t = 1 .. (N + 1) /\ DOMAIN r = 1 .. N /\ \A i \in 1 .. (N + 1) : i = N + 1 \/ i \in 1 .. N
      BY <1>4, <1>5, <2>3
    <3> HIDE DEF r, t, N
    <3>3. ASSUME NEW j \in 1 .. (N + 1), NEW i \in 1 .. (j - 1)
          PROVE  Fits(t[i], t[j].over, t[j].bowler)
      <4>1. i \in 1 .. N
        BY <2>3
      <4>2. CASE j = N + 1
        <5>1. Fits(r[i], p.over, pick.bowler)
          BY <3>1, <3>2, <4>1 DEF MayBowl
        <5>2. QED
          BY <2>2, <2>3, <2>9, <4>1, <4>2, <5>1
      <4>3. CASE j \in 1 .. N
        <5>1. Fits(r[i], r[j].over, r[j].bowler)
          BY <3>1, <3>2, <4>3 DEF InTurn
        <5>2. QED
          BY <2>3, <4>1, <4>3, <5>1
      <4>4. QED
        BY <3>2, <4>2, <4>3
    <3>4. InTurn(t)
      BY <3>2, <3>3 DEF InTurn
    <3>5. ASSUME ~dialog'.open
          PROVE  MayBowl(t, OversLabel(t).over, pick'.bowler)
      <4>1. ~AsksForBowler(body)
        BY <2>11, <3>5
      <4>2. OversLabel(t).over = p.over
        BY <2>8, <4>1
      <4>3. Fits(body, p.over, pick.bowler)
        BY <2>2, <2>9 DEF Fits
      <4>4. \A i \in 1 .. N : Fits(t[i], p.over, pick.bowler)
        BY <2>3, <3>1, <3>2 DEF MayBowl
      <4>5. \A i \in 1 .. (N + 1) : Fits(t[i], p.over, pick.bowler)
        BY <2>3, <3>2, <4>3, <4>4
      <4>6. QED
        BY <2>10, <3>2, <4>2, <4>5 DEF MayBowl
    <3>6. QED
      BY <3>1, <3>4, <3>5
  <2>14. QED
    BY <2>12, <2>13
<1>10. CASE SyncBall
  <2>1. UNCHANGED <<dialog, reset, pick>>
    BY <1>10 DEF SyncBall
  <2>2. CASE BowlerAllowed(ledger, Head(queue))
    <3>1. /\ AlikeLists(r, t) /\ paused' = paused
          /\ Len(ledger) + 1 \in 1 .. Len(r)
          /\ \E saved \in Ball : /\ Same(saved, Head(queue)) /\ Head(queue) = r[Len(ledger) + 1]
                                 /\ t[Len(ledger) + 1] = saved
                                 /\ \A i \in 1 .. Len(r) : i # Len(ledger) + 1 => t[i] = r[i]
      BY <1>10, <2>2, SyncFacts
    <3>2. \A i \in 1 .. Len(r) : t[i].bowler = r[i].bowler
      BY <3>1 DEF Same
    <3>3. /\ \A n \in 0 .. Len(r) : Places(r)[n] = Places(t)[n]
          /\ OversLabel(r) = OversLabel(t)
      BY <3>1, AlikeFacts
    <3>4. Len(t) = Len(r) /\ DOMAIN t = 1 .. Len(r)
      BY <1>4, <1>5, <3>1 DEF AlikeLists
    <3> HIDE DEF r, t
    <3>5. ASSUME NEW i \in 1 .. Len(r)
          PROVE  t[i].over = r[i].over
      <4>1. i - 1 \in 0 .. Len(r) /\ i \in DOMAIN r /\ i \in DOMAIN t
        BY <1>4, <3>4
      <4>2. AtPlace(r[i], Places(r)[i - 1]) /\ AtPlace(t[i], Places(t)[i - 1])
        BY <1>4, <1>5, <4>1 DEF LabelledWell
      <4>3. QED
        BY <3>3, <4>1, <4>2 DEF AtPlace
    <3>6. SameTurns(r, t)
      BY <1>4, <1>5, <3>2, <3>4, <3>5 DEF SameTurns
    <3>7. QED
      BY <1>7, <2>1, <3>1, <3>3, <3>6
  <2>3. CASE ~BowlerAllowed(ledger, Head(queue))
    <3>1. r = t /\ queue # <<>> /\ paused' = TRUE
      BY <1>10, <2>3 DEF SyncBall, Recorded
    <3>2. reset
      <4> SUFFICES ASSUME ~reset PROVE FALSE
        OBVIOUS
      <4>1. InTurn(r)
        BY <1>6
      <4> DEFINE L == Len(ledger)
      <4>2. /\ ledger \in Seq(Ball) /\ queue \in Seq(Ball) /\ r = ledger \o queue
        BY DEF Kept, Listed, Recorded
      <4>3. /\ L \in Nat /\ L + 1 \in DOMAIN r /\ r[L + 1] = Head(queue) /\ Head(queue) \in Ball
            /\ \A i \in 1 .. L : r[i] = ledger[i]
        <5>1. Len(queue) \in Nat /\ Len(queue) >= 1 /\ Head(queue) = queue[1] /\ queue[1] \in Ball
          BY <3>1, <4>2
        <5>2. /\ L \in Nat /\ DOMAIN (ledger \o queue) = 1 .. (L + Len(queue))
              /\ \A i \in 1 .. L : (ledger \o queue)[i] = ledger[i]
              /\ \A i \in 1 .. Len(queue) : (ledger \o queue)[L + i] = queue[i]
          BY <4>2, GluedFacts
        <5>3. QED
          BY <4>2, <5>1, <5>2
      <4> HIDE DEF L, r
      <4>4. \A i \in 1 .. L : Fits(ledger[i], Head(queue).over, Head(queue).bowler)
        <5>1. \A i \in 1 .. L : i \in 1 .. ((L + 1) - 1)
          BY <4>3
        <5>2. QED
          BY <4>1, <4>3, <5>1 DEF InTurn
      <4>5. BowlerAllowed(ledger, Head(queue))
        BY <4>2, <4>3, <4>4, FittingIsAllowed DEF L
      <4>6. QED
        BY <2>3, <4>5
    <3>3. dialog'.open => OverIsAsked'
      BY <1>6, <2>1, <3>1 DEF OverIsAsked
    <3>4. QED
      BY <2>1, <3>2, <3>3
  <2>4. QED
    BY <2>2, <2>3
<1>11. CASE Refetch
  <2>1. /\ r = t /\ UNCHANGED <<dialog, paused>>
        /\ reset' = (reset \/ pick' # pick)
    BY <1>11 DEF Refetch, Recorded
  <2>2. CASE pick' = pick
    <3>1. reset \in BOOLEAN
      BY DEF Kept, Screen
    <3>2. reset' = reset
      BY <2>1, <2>2, <3>1
    <3>3. QED
      BY <1>7, <1>8, <2>1, <2>2, <3>2
  <2>3. CASE pick' # pick
    <3>1. reset'
      BY <2>1, <2>3
    <3>2. dialog'.open => OverIsAsked'
      BY <1>6, <2>1 DEF OverIsAsked
    <3>3. QED
      BY <3>1, <3>2
  <2>4. QED
    BY <2>2, <2>3
<1>12. CASE TypeNote
  <2>1. /\ r = t /\ UNCHANGED <<pick, paused, reset>>
        /\ dialog' = [dialog EXCEPT !.note = TRUE]
    BY <1>12 DEF TypeNote, Recorded
  <2>2. dialog'.open = dialog.open /\ dialog'.previous = dialog.previous
    BY <2>1 DEF Kept, Screen, Dialogs
  <2>3. QED
    BY <1>7, <1>8, <2>1, <2>2
<1>13. CASE UNCHANGED vars
  <2>1. r = t /\ UNCHANGED <<pick, paused, reset, dialog>>
    BY <1>13 DEF vars, Recorded
  <2>2. QED
    BY <1>7, <1>8, <2>1
<1>14. CASE \E b \in BowlerSet : ConfirmNewOverBowler(b)
  <2>1. PICK b \in BowlerSet : ConfirmNewOverBowler(b)
    BY <1>14
  <2>2. /\ dialog.open /\ b # dialog.previous /\ dialog' = Closed
        /\ paused' = paused /\ reset' = reset
        /\ AlikeLists(r, t) /\ pick'.bowler = b
        /\ \A i \in 1 .. Len(r) : Same(t[i], r[i]) /\ t[i].over = r[i].over
    BY <2>1, ConfirmFacts
  <2>3. SameTurns(r, t)
    BY <1>4, <1>5, <2>2 DEF AlikeLists, SameTurns, Same
  <2>4. ~dialog'.open
    BY <2>2 DEF Closed
  <2>5. OversLabel(t) = OversLabel(r)
    BY <2>2, AlikeFacts
  <2>6. r # <<>> /\ dialog.previous = Last(r).bowler /\ OversLabel(r).over = Last(r).over + 1
    BY <1>6, <2>2 DEF OverIsAsked
  <2> HIDE DEF r, t
  <2>7. ASSUME ~reset'
        PROVE  InTurn(t) /\ ~paused' /\ MayBowl(t, OversLabel(t).over, pick'.bowler)
    <3>1. InTurn(r) /\ ~paused
      BY <1>6, <2>2, <2>7
    <3>2. \A i \in 1 .. Len(r) : r[i].over =< r[Len(r)].over
      <4>1. Len(r) \in 1 .. Len(r)
        BY <1>4, <2>6
      <4>2. QED
        BY <1>4, <4>1
    <3>3. MayBowl(r, Last(r).over + 1, b)
      BY <1>4, <2>2, <2>6, <3>1, <3>2, NewOverFits
    <3>4. MayBowl(t, Last(r).over + 1, b) /\ InTurn(t)
      BY <2>3, <3>1, <3>3, SameTurnsFacts
    <3>5. QED
      BY <2>2, <2>5, <2>6, <3>1, <3>4
  <2>8. QED
    BY <2>4, <2>7
<1>15. CASE UndoLastBall
  <2> DEFINE N == Len(t)
  <2>1. /\ paused' = paused /\ reset' = reset /\ ~dialog'.open
        /\ Len(r) = N + 1 /\ N \in Nat
        /\ \A i \in 1 .. N : t[i] = r[i]
        /\ pick' = SelectionBefore(r[N + 1])
    BY <1>15, UndoFacts
  <2>2. pick'.bowler = r[N + 1].bowler
    BY <2>1 DEF SelectionBefore
  <2>3. DOMAIN t = 1 .. N /\ N + 1 \in DOMAIN r /\ (N + 1) - 1 = N /\ N \in 0 .. N
    BY <1>4, <1>5, <2>1
  <2>4. OversLabel(t) = Places(r)[N]
    <3>1. \A i \in 1 .. Len(t) : Alike(t[i], r[i])
      BY <2>1 DEF Alike
    <3>2. Len(r) = Len(t) + 1
      BY <2>1
    <3>3. \A n \in 0 .. Len(t) : Places(r)[n] = Places(t)[n]
      BY <1>4, <1>5, <3>1, <3>2, LongerBy
    <3>4. QED
      BY <2>3, <3>3 DEF OversLabel
  <2> HIDE DEF r, t, N
  <2>5. OversLabel(t).over = r[N + 1].over
    BY <1>4, <2>3, <2>4 DEF LabelledWell, AtPlace
  <2>6. ASSUME ~reset'
        PROVE  InTurn(t) /\ ~paused' /\ MayBowl(t, OversLabel(t).over, pick'.bowler)
    <3>1. InTurn(r) /\ ~paused
      BY <1>6, <2>1, <2>6
    <3>2. ASSUME NEW i \in 1 .. N
          PROVE  Fits(t[i], OversLabel(t).over, pick'.bowler)
      <4>1. i \in 1 .. ((N + 1) - 1)
        BY <2>1
      <4>2. Fits(r[i], r[N + 1].over, r[N + 1].bowler)
        BY <2>3, <3>1, <4>1 DEF InTurn
      <4>3. QED
        BY <2>1, <2>2, <2>5, <4>2
    <3>3. InTurn(t)
      <4>1. ASSUME NEW j \in 1 .. N, NEW i \in 1 .. (j - 1)
            PROVE  Fits(t[i], t[j].over, t[j].bowler)
        <5>1. i \in 1 .. N /\ j \in DOMAIN r
          BY <1>4, <2>1
        <5>2. Fits(r[i], r[j].over, r[j].bowler)
          BY <3>1, <5>1 DEF InTurn
        <5>3. QED
          BY <2>1, <5>1, <5>2
      <4>2. QED
        BY <2>3, <4>1 DEF InTurn
    <3>4. QED
      BY <2>1, <2>3, <3>1, <3>2, <3>3 DEF MayBowl
  <2>7. QED
    BY <2>1, <2>6
<1>16. QED
  BY <1>1, <1>9, <1>10, <1>11, <1>12, <1>13, <1>14, <1>15

-----------------------------------------------------------------------------
(* The theorems *)

IInv == Kept /\ OversApart /\ Strike /\ Turns

LEMMA InitIsFine == Init => IInv
<1> SUFFICES ASSUME Init PROVE IInv
  OBVIOUS
<1>1. Kept /\ Strike /\ Turns
  BY InitKept, InitStrike, InitTurns
<1>2. DOMAIN ledger = {}
  BY DEF Init
<1>3. QED
  BY <1>1, <1>2 DEF IInv, OversApart, Apart

LEMMA NextIsFine == IInv /\ [Next]_vars => IInv'
<1> SUFFICES ASSUME IInv, [Next]_vars PROVE IInv'
  OBVIOUS
<1>1. Kept /\ OversApart /\ Strike /\ Turns
  BY DEF IInv
<1>2. Kept'
  BY <1>1, NextKeeps
<1>3. OversApart'
  BY <1>1, <1>2, ApartKept
<1>4. Strike'
  BY <1>1, <1>2, StrikeKept
<1>5. Turns'
  BY <1>1, <1>2, <1>4, TurnsKept
<1>6. QED
  BY <1>2, <1>3, <1>4, <1>5 DEF IInv

LEMMA Kepts == Spec => []IInv
BY InitIsFine, NextIsFine, PTL DEF Spec

\* The state stays what the types of the screen and of the server's rows say:
\* only players of the two squads bat and bowl, whatever is recorded, corrected
\* and reloaded.
THEOREM TypeCorrect == Spec => []TypeOK
<1>1. IInv => TypeOK
  BY KeptIsTyped DEF IInv
<1>2. QED
  BY <1>1, Kepts, PTL

\* nextDeliveryPosition labels a delivery on the screen, _renumber_live_events
\* labels the stored ones after every write: the labels shown are the place that
\* the deliveries before give, unless a delivery was recorded blind or the umpire
\* ended an over on a delivery that is not legal.
THEOREM LabelsAgree == Spec => []PositionsAgree
<1>1. IInv => PositionsAgree
  BY KeptLabels DEF IInv
<1>2. QED
  BY <1>1, Kepts, PTL

\* _assert_bowler_can_bowl_current_over looks at one delivery and the ledger of
\* that moment; without calls and corrections the whole ledger keeps the bowlers
\* of an over and of the next one apart.
THEOREM NobodyBowlsTwoOversInARow == Spec => []NoConsecutiveOvers
<1>1. IInv => NoConsecutiveOvers
  BY ApartOvers DEF IInv
<1>2. QED
  BY <1>1, Kepts, PTL

\* The screen (nextDeliveryPosition, confirmNewOverBowler) never records a
\* delivery whose bowler the server refuses, as long as nobody calls, corrects,
\* chooses or reloads and no fetch replaces the selection.
THEOREM ScoringPausesForAReason == Spec => []PausedForAReason
<1>1. ASSUME IInv
      PROVE  PausedForAReason
  <2>1. SUFFICES ASSUME ~reset,
                        ~ \E f \in {"calls", "corrections", "choices", "reloads"} : history[f] > 0
                 PROVE  ~paused
    BY DEF PausedForAReason
  <2>2. \A f \in {"calls", "corrections", "choices", "reloads"} : history[f] \in Nat
    BY <1>1 DEF IInv, Kept, Counts, Counted
  <2>3. Quiet
    BY <2>1, <2>2 DEF Quiet
  <2>4. QED
    BY <1>1, <2>1, <2>3 DEF IInv, Turns
<1>2. QED
  BY <1>1, Kepts, PTL

\* selectionAfterEvent, applyPostBallState and restorePreBallState look at one
\* delivery each; the batters selected are the ones the whole innings gives.
THEOREM StrikeIsKept == Spec => []StrikeFollowsTheInnings
<1>1. ASSUME IInv
      PROVE  StrikeFollowsTheInnings
  <2>1. SUFFICES ASSUME loaded, Quiet
                 PROVE  EndsAgree
    BY DEF StrikeFollowsTheInnings, Quiet
  <2>2. data = Recorded
    BY <1>1, <2>1 DEF IInv, Kept, Listed
  <2>3. pick.striker = Facing(Recorded).striker /\ pick.other = Facing(Recorded).other
    BY <1>1, <2>1 DEF IInv, Strike
  <2>4. QED
    BY <2>2, <2>3 DEF EndsAgree
<1>2. QED
  BY <1>1, Kepts, PTL
=============================================================================
