------------------------ MODULE ScoringOutboxProofs ------------------------
(***************************************************************************)
(* What the outbox of the scoring screens promises, for every number of    *)
(* screens, deliveries, takeovers, undos, corrections and faults: it keeps *)
(* the server's contract, loses no delivery, keeps the order in which the  *)
(* deliveries were recorded and does not pause without a reason.           *)
(***************************************************************************)
EXTENDS ScoringOutbox, TLAPS, SequenceTheorems, WellFoundedInduction

-----------------------------------------------------------------------------
(* Numbers and sequences *)

\* Every set of numbers that is not empty has a least one.  (The induction
\* of NaturalsInduction takes a predicate; this is the same fact with a set.)
LEMMA LeastNumber ==
    ASSUME NEW T \in SUBSET Nat, T # {}
    PROVE  \E n \in T : \A m \in T : n =< m
<1> DEFINE less == {p \in Nat \X Nat : p[1] < p[2]}
<1>1. IsWellFoundedOn(less, Nat)
  <2>1. OpToRel(<, Nat) = less
    BY DEF OpToRel
  <2>2. QED
    BY <2>1, NatLessThanWellFounded
<1>2. \A x, y \in Nat : <<y, x>> \in less <=> y < x
  OBVIOUS
<1> HIDE DEF less
<1>3. PICK n \in T : \A y \in T : ~ (<<y, n>> \in less)
  BY <1>1, WFMin
<1>4. ASSUME NEW m \in T PROVE n =< m
  <2>1. ~ (<<m, n>> \in less) /\ n \in Nat /\ m \in Nat
    BY <1>3
  <2>2. ~ (m < n)
    BY <1>2, <2>1
  <2>3. QED
    BY <2>1, <2>2
<1>5. QED
  BY <1>4

\* A set of indices that is not empty has a greatest one.
LEMMA GreatestIndex ==
    ASSUME NEW n \in Nat, NEW T \in SUBSET (1 .. n), T # {}
    PROVE  Max(T) \in T
<1> DEFINE dual == {n - i : i \in T}
<1>1. dual \in SUBSET Nat /\ dual # {}
  OBVIOUS
<1>2. PICK k \in dual : \A m \in dual : k =< m
  BY <1>1, LeastNumber
<1>3. PICK i \in T : k = n - i
  BY <1>2
<1>4. \A j \in T : i >= j
  <2> SUFFICES ASSUME NEW j \in T PROVE i >= j
    OBVIOUS
  <2>1. n - j \in dual
    OBVIOUS
  <2>2. n - i =< n - j
    BY <1>2, <1>3, <2>1
  <2>3. i \in 1 .. n /\ j \in 1 .. n
    OBVIOUS
  <2>4. QED
    BY <2>2, <2>3
<1>5. QED
  BY <1>4 DEF Max

\* Appending an element.
LEMMA AppendValue ==
    ASSUME NEW S, NEW s \in Seq(S), NEW e \in S
    PROVE  /\ Append(s, e) \in Seq(S)
           /\ Append(s, e) # <<>>
           /\ Len(Append(s, e)) = Len(s) + 1
           /\ DOMAIN Append(s, e) = 1 .. Len(s) + 1
           /\ \A i \in 1 .. Len(s) : Append(s, e)[i] = s[i]
           /\ Append(s, e)[Len(s) + 1] = e
<1>1. Append(s, e) \in Seq(S) /\ Len(Append(s, e)) = Len(s) + 1
  OBVIOUS
<1>2. /\ \A i \in 1 .. Len(s) : Append(s, e)[i] = s[i]
      /\ Append(s, e)[Len(s) + 1] = e
  OBVIOUS
<1>3. QED
  BY <1>1, <1>2

\* Removing the i-th element leaves the others in their order.
LEMMA RemoveAtValue ==
    ASSUME NEW S, NEW s \in Seq(S), NEW i \in DOMAIN s
    PROVE  /\ RemoveAt(s, i) \in Seq(S)
           /\ Len(RemoveAt(s, i)) = Len(s) - 1
           /\ \A j \in 1 .. (Len(s) - 1) :
                 RemoveAt(s, i)[j] = s[IF j < i THEN j ELSE j + 1]
<1> DEFINE before == SubSeq(s, 1, i - 1)
           after == SubSeq(s, i + 1, Len(s))
<1>1. i \in 1 .. Len(s) /\ Len(s) \in Nat
  OBVIOUS
<1>2. /\ before \in Seq(S) /\ Len(before) = i - 1
      /\ \A j \in 1 .. (i - 1) : before[j] = s[j]
  BY <1>1
<1>3. /\ after \in Seq(S) /\ Len(after) = Len(s) - i
      /\ \A j \in 1 .. (Len(s) - i) : after[j] = s[i + j]
  BY <1>1
<1>4. RemoveAt(s, i) = before \o after
  BY DEF RemoveAt
<1> HIDE DEF before, after
<1>5. before \o after \in Seq(S) /\ Len(before \o after) = Len(s) - 1
  BY <1>1, <1>2, <1>3
<1>6. ASSUME NEW j \in 1 .. (Len(s) - 1)
      PROVE  (before \o after)[j] = s[IF j < i THEN j ELSE j + 1]
  <2>1. CASE j < i
    BY <1>1, <1>2, <1>3, <2>1
  <2>2. CASE j >= i
    <3>1. (before \o after)[j] = after[j - (i - 1)]
      BY <1>1, <1>2, <1>3, <2>2
    <3>2. j - (i - 1) \in 1 .. (Len(s) - i) /\ i + (j - (i - 1)) = j + 1
      BY <1>1, <2>2
    <3>3. QED
      BY <1>3, <2>2, <3>1, <3>2
  <2>3. j < i \/ j >= i
    BY <1>1
  <2>4. QED
    BY <2>1, <2>2, <2>3, Zenon
<1>7. QED
  BY <1>4, <1>5, <1>6

\* The tail of a sequence, and what is left when its last element goes.
LEMMA TailValue ==
    ASSUME NEW S, NEW s \in Seq(S), s # <<>>
    PROVE  /\ Len(s) >= 1
           /\ Head(s) = s[1] /\ Head(s) \in S
           /\ Tail(s) \in Seq(S)
           /\ Len(Tail(s)) = Len(s) - 1
           /\ \A i \in 1 .. (Len(s) - 1) : Tail(s)[i] = s[i + 1]
OBVIOUS

LEMMA FrontValue ==
    ASSUME NEW S, NEW s \in Seq(S), s # <<>>
    PROVE  /\ Len(s) \in 1 .. Len(s)
           /\ Last(s) = s[Len(s)] /\ Last(s) \in S
           /\ Front(s) \in Seq(S)
           /\ Len(Front(s)) = Len(s) - 1
           /\ \A i \in 1 .. (Len(s) - 1) : Front(s)[i] = s[i]
           /\ Front(s) = RemoveAt(s, Len(s))
<1>1. Len(s) \in Nat /\ Len(s) >= 1
  OBVIOUS
<1>2. /\ Front(s) \in Seq(S) /\ Len(Front(s)) = Len(s) - 1
      /\ \A i \in 1 .. (Len(s) - 1) : Front(s)[i] = s[i]
  <2>1. \A i \in 1 .. Len(s) - 1 : s[i] \in S
    OBVIOUS
  <2>2. /\ SubSeq(s, 1, Len(s) - 1) \in Seq(S)
        /\ Len(SubSeq(s, 1, Len(s) - 1)) = IF 1 <= Len(s) - 1 THEN (Len(s) - 1) - 1 + 1 ELSE 0
        /\ \A i \in 1 .. (Len(s) - 1) - 1 + 1 : SubSeq(s, 1, Len(s) - 1)[i] = s[1 + i - 1]
    BY <1>1, <2>1, SubSeqProperties
  <2>3. \A i \in 1 .. (Len(s) - 1) : 1 + i - 1 = i
    OBVIOUS
  <2>4. (Len(s) - 1) - 1 + 1 = Len(s) - 1
    BY <1>1
  <2>5. QED
    BY <1>1, <2>2, <2>3, <2>4 DEF Front
<1>3. Last(s) = s[Len(s)] /\ Last(s) \in S
  BY <1>1 DEF Last
<1>4. Len(s) \in DOMAIN s
  BY <1>1
<1> DEFINE r == RemoveAt(s, Len(s))
<1>5. /\ r \in Seq(S) /\ Len(r) = Len(s) - 1
      /\ \A j \in 1 .. (Len(s) - 1) : r[j] = s[IF j < Len(s) THEN j ELSE j + 1]
  BY <1>4, RemoveAtValue
<1> HIDE DEF r
<1>6. Front(s) = r
  BY <1>1, <1>2, <1>5
<1>7. QED
  BY <1>1, <1>2, <1>3, <1>6 DEF r

-----------------------------------------------------------------------------
(* The outbox *)

LEMMA IdsType ==
    ASSUME NEW s \in Seq(Ball)
    PROVE  Ids(s) \subseteq BallIds
<1>1. \A i \in DOMAIN s : s[i] \in Ball
  BY ElementOfSeq, LenProperties
<1>2. QED
  BY <1>1 DEF Ids, Ball

LEMMA IdsAppend ==
    ASSUME NEW s \in Seq(Ball), NEW ball \in Ball
    PROVE  Ids(Append(s, ball)) = Ids(s) \cup {ball.id}
<1> DEFINE r == Append(s, ball)
<1>1. /\ DOMAIN r = 1 .. Len(s) + 1 /\ DOMAIN s = 1 .. Len(s) /\ Len(s) \in Nat
      /\ \A i \in 1 .. Len(s) : r[i] = s[i]
      /\ r[Len(s) + 1] = ball
  BY AppendValue
<1> HIDE DEF r
<1>2. 1 .. Len(s) + 1 = 1 .. Len(s) \cup {Len(s) + 1}
  BY <1>1
<1>3. Ids(r) = Ids(s) \cup {ball.id}
  BY <1>1, <1>2 DEF Ids
<1>4. QED
  BY <1>3 DEF r

\* What a screen has left of its batch after the first delivery.
LEMMA IdsTail ==
    ASSUME NEW s \in Seq(Ball), s # <<>>
    PROVE  /\ Ids(s) = Ids(Tail(s)) \cup {Head(s).id}
           /\ Head(s).id \in Ids(s)
<1> DEFINE r == Tail(s)
<1>1. /\ Len(s) >= 1 /\ Len(s) \in Nat /\ Head(s) = s[1]
      /\ DOMAIN s = 1 .. Len(s) /\ DOMAIN r = 1 .. (Len(s) - 1)
      /\ \A i \in 1 .. (Len(s) - 1) : r[i] = s[i + 1]
  BY TailValue
<1> HIDE DEF r
<1>2. ASSUME NEW x \in Ids(s) PROVE x \in Ids(r) \/ x = Head(s).id
  <2>1. PICK i \in 1 .. Len(s) : x = s[i].id
    BY <1>1 DEF Ids
  <2>2. CASE i = 1
    BY <1>1, <2>1, <2>2
  <2>3. CASE i # 1
    <3>1. i - 1 \in 1 .. (Len(s) - 1) /\ (i - 1) + 1 = i
      BY <1>1, <2>3
    <3>2. r[i - 1] = s[i]
      BY <1>1, <3>1
    <3>3. QED
      BY <1>1, <2>1, <3>1, <3>2 DEF Ids
  <2>4. QED
    BY <2>2, <2>3
<1>3. ASSUME NEW x \in Ids(r) PROVE x \in Ids(s)
  <2>1. PICK i \in 1 .. (Len(s) - 1) : x = r[i].id
    BY <1>1 DEF Ids
  <2>2. i + 1 \in 1 .. Len(s) /\ r[i] = s[i + 1]
    BY <1>1
  <2>3. QED
    BY <1>1, <2>1, <2>2 DEF Ids
<1>4. Head(s).id \in Ids(s)
  BY <1>1 DEF Ids
<1>5. Ids(s) = Ids(r) \cup {Head(s).id}
  BY <1>2, <1>3, <1>4
<1>6. QED
  BY <1>4, <1>5 DEF r

LEMMA EnqueueValue ==
    ASSUME NEW s \in Seq(Ball), NEW ball \in Ball
    PROVE  /\ EnqueueScoringBall(s, ball) \in Seq(Ball)
           /\ Ids(EnqueueScoringBall(s, ball)) = Ids(s) \cup {ball.id}
BY AppendValue, IdsAppend DEF EnqueueScoringBall

\* Removing a delivery takes out one entry with its id, and keeps the order
\* of the others; what is not in the outbox changes nothing.
LEMMA RemoveValue ==
    ASSUME NEW s \in Seq(Ball), NEW id \in Ids(s)
    PROVE  LET r == RemoveScoringBall(s, id)
           IN  \E k \in DOMAIN s :
                  /\ s[k].id = id
                  /\ r = RemoveAt(s, k)
                  /\ r \in Seq(Ball)
                  /\ Len(r) = Len(s) - 1
                  /\ \A j \in 1 .. (Len(s) - 1) : r[j] = s[IF j < k THEN j ELSE j + 1]
<1> DEFINE k == CHOOSE i \in DOMAIN s : s[i].id = id
<1>1. k \in DOMAIN s /\ s[k].id = id
  BY DEF Ids
<1> HIDE DEF k
<1>2. RemoveScoringBall(s, id) = RemoveAt(s, k)
  BY DEF RemoveScoringBall, k
<1>3. QED
  BY <1>1, <1>2, RemoveAtValue

LEMMA RemoveIds ==
    ASSUME NEW s \in Seq(Ball), NEW id
    PROVE  /\ RemoveScoringBall(s, id) \in Seq(Ball)
           /\ Ids(RemoveScoringBall(s, id)) \subseteq Ids(s)
           /\ Ids(s) \ {id} \subseteq Ids(RemoveScoringBall(s, id))
<1>1. CASE id \notin Ids(s)
  BY <1>1 DEF RemoveScoringBall
<1>2. CASE id \in Ids(s)
  <2> DEFINE r == RemoveScoringBall(s, id)
  <2>1. PICK k \in DOMAIN s :
           /\ s[k].id = id
           /\ r \in Seq(Ball)
           /\ Len(r) = Len(s) - 1
           /\ \A j \in 1 .. (Len(s) - 1) : r[j] = s[IF j < k THEN j ELSE j + 1]
    BY <1>2, RemoveValue
  <2> HIDE DEF r
  <2>2. DOMAIN s = 1 .. Len(s) /\ DOMAIN r = 1 .. (Len(s) - 1) /\ Len(s) \in Nat /\ k \in 1 .. Len(s)
    BY <2>1
  <2>3. ASSUME NEW x \in Ids(r) PROVE x \in Ids(s)
    <3>1. PICK j \in 1 .. (Len(s) - 1) : x = r[j].id
      BY <2>2 DEF Ids
    <3>2. (IF j < k THEN j ELSE j + 1) \in 1 .. Len(s)
      BY <2>2
    <3>3. QED
      BY <2>1, <2>2, <3>1, <3>2 DEF Ids
  <2>4. ASSUME NEW x \in Ids(s), x # id PROVE x \in Ids(r)
    <3>1. PICK j \in 1 .. Len(s) : x = s[j].id
      BY <2>2 DEF Ids
    <3>2. j # k
      BY <2>1, <2>4, <3>1
    <3> DEFINE m == IF j < k THEN j ELSE j - 1
    <3>3. m \in 1 .. (Len(s) - 1) /\ (IF m < k THEN m ELSE m + 1) = j
      BY <2>2, <3>2
    <3>4. r[m] = s[j]
      BY <2>1, <3>3
    <3>5. QED
      BY <2>2, <3>1, <3>3, <3>4 DEF Ids
  <2>5. QED
    BY <2>1, <2>3, <2>4 DEF r
<1>3. QED
  BY <1>1, <1>2

\* A correction changes neither the ids nor their order.
LEMMA ReplaceValue ==
    ASSUME NEW s \in Seq(Ball), NEW id, NEW p \in Players, NEW last
    PROVE  LET r == ReplaceQueuedScoringBall(s, id, p, last)
           IN  /\ r \in Seq(Ball)
               /\ DOMAIN r = DOMAIN s
               /\ \A i \in DOMAIN s : r[i].id = s[i].id
               /\ Ids(r) = Ids(s)
<1> DEFINE r == ReplaceQueuedScoringBall(s, id, p, last)
           New(j) == \E i \in DOMAIN s :
                        /\ s[i].id = id
                        /\ j = i \/ (i < j /\ j =< last /\ s[j].player = s[i].player)
<1>1. Len(s) \in Nat /\ DOMAIN s = 1 .. Len(s) /\ \A i \in 1 .. Len(s) : s[i] \in Ball
  BY ElementOfSeq, LenProperties
<1>2. r = [j \in 1 .. Len(s) |-> IF New(j) THEN [s[j] EXCEPT !.player = p] ELSE s[j]]
  BY <1>1 DEF ReplaceQueuedScoringBall
<1> HIDE DEF New
<1>3. \A i \in 1 .. Len(s) : r[i] \in Ball /\ r[i].id = s[i].id
  <2> SUFFICES ASSUME NEW i \in 1 .. Len(s) PROVE r[i] \in Ball /\ r[i].id = s[i].id
    OBVIOUS
  <2>1. s[i] \in Ball
    BY <1>1
  <2>2. [s[i] EXCEPT !.player = p] \in Ball /\ [s[i] EXCEPT !.player = p].id = s[i].id
    BY <2>1 DEF Ball
  <2>3. QED
    BY <1>2, <2>1, <2>2
<1> HIDE DEF r
<1>4. r \in Seq(Ball) /\ DOMAIN r = 1 .. Len(s)
  BY <1>1, <1>2, <1>3
<1>5. Ids(r) = Ids(s)
  BY <1>1, <1>3, <1>4 DEF Ids
<1>6. QED
  BY <1>1, <1>3, <1>4, <1>5 DEF r

\* What a screen shows is a delivery, or nothing.
LEMMA ShownType ==
    ASSUME version \in Nat, ledger \in Seq(Ball), NEW s \in Seq(Ball)
    PROVE  Shown(s) \in [version : Nat, last : BallIds \cup {NoBall}]
<1> DEFINE unsent == {i \in DOMAIN s : s[i].id \notin Ids(ledger)}
<1>1. LastOf(ledger) \in BallIds \cup {NoBall}
  <2>1. ledger # <<>> => Last(ledger) \in Ball
    BY FrontValue
  <2>2. QED
    BY <2>1 DEF LastOf, Ball
<1>2. ASSUME unsent # {} PROVE s[Max(unsent)].id \in BallIds
  <2>1. unsent \in SUBSET (1 .. Len(s)) /\ Len(s) \in Nat
    OBVIOUS
  <2>2. Max(unsent) \in 1 .. Len(s)
    BY <1>2, <2>1, GreatestIndex
  <2> DEFINE m == Max(unsent)
  <2> HIDE DEF m
  <2>3. m \in 1 .. Len(s) => s[m] \in Ball
    BY ElementOfSeq
  <2>4. QED
    BY <2>2, <2>3 DEF Ball, m
<1> HIDE DEF unsent
<1>3. QED
  BY <1>1, <1>2 DEF Shown, unsent

-----------------------------------------------------------------------------
(* The shape of the state: types, one group of variables at a time, and    *)
(* what a flush and a token stand for.                                     *)

FlushType == [phase : Phase, batch : Seq(Ball), version : Nat, token : Nat]
SeenType == [version : Nat, last : BallIds \cup {NoBall}]
CorrectionType == [id : BallIds \cup {NoBall}, to : Players \cup {Removed}]
HistoryType == [recorded : Seq([id : BallIds, device : Devices]), undone : SUBSET BallIds,
                removed : SUBSET BallIds, accepted : [BallIds -> Nat]]
UsedType == [undo : 0 .. MaxUndos, correction : 0 .. MaxCorrections, fault : 0 .. MaxFaults]

ServerTyped ==
    version \in Nat /\ ledger \in Seq(Ball) /\ lease \in 0 .. Len(leases) /\ leases \in Seq(Devices)

QueuesTyped == queue \in [Devices -> Seq(Ball)] /\ storage \in [Browsers -> Seq(Ball)]

\* A token that a screen holds was issued to it.
TokensIssued ==
    /\ token \in [Devices -> 0 .. Len(leases)]
    /\ \A d \in Devices : token[d] # NoToken => leases[token[d]] = d

\* A flush waits for the version of the server without a batch, and has a
\* delivery at the head of its batch when it waits for a reply or has one.
\* It uses a token that was issued to its screen.
FlushShape(d, f) ==
    /\ f.batch = <<>> <=> f.phase \in {"idle", "loading"}
    /\ f.phase # "idle" => f.token \in 1 .. Len(leases) /\ leases[f.token] = d

FlushesShaped ==
    flush \in [Devices -> FlushType] /\ \A d \in Devices : FlushShape(d, flush[d])

PausesTyped == paused \in [Devices -> BOOLEAN]
SeenTyped == seen \in [Devices -> SeenType]
CorrectionsTyped == correction \in [Devices -> CorrectionType]

WireShaped ==
    wire \subseteq BallRequest \cup UndoRequest /\ \A r \in wire : r.token \in 1 .. Len(leases)

Shape ==
    /\ ServerTyped
    /\ QueuesTyped
    /\ TokensIssued
    /\ SeenTyped
    /\ PausesTyped
    /\ FlushesShaped
    /\ CorrectionsTyped
    /\ WireShaped
    /\ history \in HistoryType
    /\ used \in UsedType

LEMMA ShapeTypes == Shape => TypeOK
BY DEF Shape, TypeOK, ServerTyped, QueuesTyped, TokensIssued, SeenTyped, PausesTyped, FlushesShaped,
       CorrectionsTyped, WireShaped, FlushType, SeenType, CorrectionType, HistoryType, UsedType

LEMMA NoFlushShape == NoFlush \in FlushType /\ \A d \in Devices : FlushShape(d, NoFlush)
BY DEF NoFlush, FlushType, FlushShape, Phase, NoToken

LEMMA NothingShape == NothingSeen \in SeenType /\ NoCorrection \in CorrectionType
BY DEF NothingSeen, SeenType, NoCorrection, CorrectionType

LEMMA InitShape == Init => Shape
<1> SUFFICES ASSUME Init PROVE Shape
  OBVIOUS
<1>1. ServerTyped /\ QueuesTyped /\ TokensIssued
  BY DEF Init, ServerInit, ServerTyped, QueuesTyped, TokensIssued, NoToken
<1>2. SeenTyped /\ PausesTyped /\ CorrectionsTyped
  BY NothingShape DEF Init, SeenTyped, PausesTyped, CorrectionsTyped
<1>3. FlushesShaped
  BY NoFlushShape DEF Init, FlushesShaped
<1>4. WireShaped
  BY DEF Init, WireShaped
<1>5. history \in HistoryType
  BY DEF Init, HistoryType
<1>6. used \in UsedType
  BY BoundAssumption DEF Init, UsedType
<1>7. QED
  BY <1>1, <1>2, <1>3, <1>4, <1>5, <1>6 DEF Shape

\* Leases are only added.
LeasesKept ==
    Len(leases) =< Len(leases') /\ \A i \in 1 .. Len(leases) : leases'[i] = leases[i]

\* What a step leaves alone keeps its shape.
LEMMA SameShape ==
    ASSUME Shape
    PROVE  /\ UNCHANGED serverVars => ServerTyped' /\ LeasesKept
           /\ UNCHANGED <<queue, storage>> => QueuesTyped'
           /\ ServerTyped' /\ LeasesKept /\ UNCHANGED token => TokensIssued'
           /\ UNCHANGED seen => SeenTyped'
           /\ UNCHANGED paused => PausesTyped'
           /\ ServerTyped' /\ LeasesKept /\ UNCHANGED flush => FlushesShaped'
           /\ UNCHANGED correction => CorrectionsTyped'
           /\ ServerTyped' /\ LeasesKept /\ wire' \subseteq wire => WireShaped'
           /\ UNCHANGED history => (history \in HistoryType)'
           /\ UNCHANGED used => (used \in UsedType)'
<1> USE DEF Shape
<1>1. Len(leases) \in Nat /\ (ServerTyped' => Len(leases') \in Nat)
  BY DEF ServerTyped
<1>2. UNCHANGED serverVars => ServerTyped' /\ LeasesKept
  BY <1>1 DEF serverVars, ServerTyped, LeasesKept
<1>3. ServerTyped' /\ LeasesKept /\ UNCHANGED token => TokensIssued'
  <2> SUFFICES ASSUME ServerTyped', LeasesKept, UNCHANGED token PROVE TokensIssued'
    OBVIOUS
  <2>1. ASSUME NEW d \in Devices
        PROVE  token[d] \in 0 .. Len(leases') /\ (token[d] # NoToken => leases'[token[d]] = d)
    BY <1>1 DEF TokensIssued, LeasesKept, NoToken
  <2>2. QED
    BY <2>1 DEF TokensIssued
<1>4. ServerTyped' /\ LeasesKept /\ UNCHANGED flush => FlushesShaped'
  <2> SUFFICES ASSUME ServerTyped', LeasesKept, UNCHANGED flush PROVE FlushesShaped'
    OBVIOUS
  <2>1. ASSUME NEW d \in Devices PROVE FlushShape(d, flush[d])'
    BY <1>1 DEF FlushesShaped, FlushShape, LeasesKept
  <2>2. QED
    BY <2>1 DEF FlushesShaped
<1>5. ServerTyped' /\ LeasesKept /\ wire' \subseteq wire => WireShaped'
  BY <1>1 DEF WireShaped, LeasesKept
<1>6. QED
  BY <1>2, <1>3, <1>4, <1>5
     DEF QueuesTyped, SeenTyped, PausesTyped, CorrectionsTyped

\* A new lease keeps what was issued before.
LEMMA OpenLeaseShape ==
    ASSUME Shape, NEW d \in Devices, OpenLease(d)
    PROVE  /\ ServerTyped' /\ LeasesKept
           /\ lease' = Len(leases) + 1
           /\ leases'[lease'] = d
<1>1. leases \in Seq(Devices) /\ version \in Nat /\ ledger \in Seq(Ball)
  BY DEF Shape, ServerTyped
<1>2. leases' = Append(leases, d) /\ lease' = Len(leases') /\ UNCHANGED <<version, ledger>>
  BY DEF OpenLease
<1>3. /\ leases' \in Seq(Devices) /\ Len(leases') = Len(leases) + 1 /\ Len(leases) \in Nat
      /\ \A i \in 1 .. Len(leases) : leases'[i] = leases[i]
      /\ leases'[Len(leases) + 1] = d
  BY <1>1, <1>2, AppendValue
<1>4. QED
  BY <1>1, <1>2, <1>3 DEF ServerTyped, LeasesKept

\* Every change of an outbox is a sequence of deliveries.
LEMMA SaveShape ==
    ASSUME Shape, NEW d \in Devices, NEW q, q \in Seq(Ball), SaveOutbox(d, q)
    PROVE  QueuesTyped'
BY ScreenAssumption DEF Shape, QueuesTyped, SaveOutbox

\* A flush moves on.
LEMMA FlushMoves ==
    ASSUME Shape, NEW d \in Devices, UNCHANGED leases,
           NEW f, f \in FlushType, FlushShape(d, f), flush' = [flush EXCEPT ![d] = f]
    PROVE  FlushesShaped'
BY DEF Shape, FlushesShaped, FlushShape

\* What a flush that nobody waits for any more leaves on its way.
LEMMA AbandonedShape ==
    ASSUME Shape, NEW d \in Devices
    PROVE  /\ Abandoned(d) \subseteq BallRequest
           /\ \A r \in Abandoned(d) : r.token \in 1 .. Len(leases)
<1>1. CASE flush[d].phase # "posting"
  BY <1>1 DEF Abandoned
<1>2. CASE flush[d].phase = "posting"
  <2> DEFINE batch == flush[d].batch
  <2>1. /\ batch \in Seq(Ball) /\ batch # <<>>
        /\ flush[d].version \in Nat /\ flush[d].token \in Nat
        /\ flush[d].token \in 1 .. Len(leases)
    BY <1>2 DEF Shape, FlushesShaped, FlushShape, FlushType
  <2> HIDE DEF batch
  <2>2. Head(batch) \in Ball
    BY <2>1, TailValue
  <2>3. QED
    BY <1>2, <2>1, <2>2 DEF Abandoned, BallRequest, batch
<1>3. QED
  BY <1>1, <1>2

\* Starting a flush, or starting it again with "Sync".
LEMMA StartsFlush ==
    ASSUME Shape, NEW d \in Devices, token[d] # NoToken, UNCHANGED leases,
           flush[d].phase = "idle",
           flush' = [flush EXCEPT ![d].phase = "loading", ![d].token = token[d]]
    PROVE  FlushesShaped'
<1> DEFINE f == [flush[d] EXCEPT !.phase = "loading", !.token = token[d]]
<1>1. flush[d] \in FlushType /\ FlushShape(d, flush[d]) /\ flush \in [Devices -> FlushType]
  BY DEF Shape, FlushesShaped
<1>2. token[d] \in 1 .. Len(leases) /\ leases[token[d]] = d /\ token[d] \in Nat
  BY DEF Shape, TokensIssued, NoToken
<1>3. f \in FlushType /\ f.phase = "loading" /\ f.token = token[d] /\ f.batch = flush[d].batch
  BY <1>1, <1>2 DEF FlushType, Phase
<1>4. FlushShape(d, f)
  BY <1>1, <1>2, <1>3 DEF FlushShape
<1>5. flush' = [flush EXCEPT ![d] = f]
  BY <1>1
<1> HIDE DEF f
<1>6. QED
  BY <1>3, <1>4, <1>5, FlushMoves

LEMMA LoadsFlush ==
    ASSUME Shape, NEW d \in Devices, FlushLoaded(d)
    PROVE  FlushesShaped'
<1> DEFINE f == [flush[d] EXCEPT !.phase = "posting", !.batch = queue[d], !.version = version]
<1>1. flush[d] \in FlushType /\ FlushShape(d, flush[d]) /\ flush \in [Devices -> FlushType]
  BY DEF Shape, FlushesShaped
<1>2. queue[d] \in Seq(Ball) /\ version \in Nat
  BY DEF Shape, QueuesTyped, ServerTyped
<1>3. UNCHANGED leases /\ flush[d].phase = "loading"
  BY DEF FlushLoaded, serverVars
<1>4. CASE queue[d] = <<>>
  <2>1. flush' = [flush EXCEPT ![d] = NoFlush]
    BY <1>4 DEF FlushLoaded
  <2>2. QED
    BY <1>3, <2>1, NoFlushShape, FlushMoves
<1>5. CASE queue[d] # <<>>
  <2>1. flush' = [flush EXCEPT ![d] = f]
    BY <1>1, <1>5 DEF FlushLoaded
  <2>2. f \in FlushType /\ f.phase = "posting" /\ f.token = flush[d].token /\ f.batch = queue[d]
    BY <1>1, <1>2 DEF FlushType, Phase
  <2>3. FlushShape(d, f)
    BY <1>1, <1>3, <1>5, <2>2 DEF FlushShape
  <2> HIDE DEF f
  <2>4. QED
    BY <1>3, <2>1, <2>2, <2>3, FlushMoves
<1>6. QED
  BY <1>4, <1>5

\* The server answers a posted delivery.
LEMMA AnswersFlush ==
    ASSUME Shape, NEW d \in Devices, UNCHANGED leases, flush[d].phase = "posting",
           NEW ph, ph \in {"accepted", "refused"}, NEW v, v \in Nat,
           flush' = [flush EXCEPT ![d].phase = ph, ![d].version = v]
    PROVE  FlushesShaped'
<1> DEFINE f == [flush[d] EXCEPT !.phase = ph, !.version = v]
<1>1. flush[d] \in FlushType /\ FlushShape(d, flush[d]) /\ flush \in [Devices -> FlushType]
  BY DEF Shape, FlushesShaped
<1>2. /\ f \in FlushType /\ f.phase = ph /\ f.token = flush[d].token
      /\ f.batch = flush[d].batch
  BY <1>1 DEF FlushType, Phase
<1>3. FlushShape(d, f)
  BY <1>1, <1>2 DEF FlushShape
<1>4. flush' = [flush EXCEPT ![d] = f]
  BY <1>1
<1> HIDE DEF f
<1>5. QED
  BY <1>2, <1>3, <1>4, FlushMoves

\* The next delivery of the batch is posted.
LEMMA FlushContinues ==
    ASSUME Shape, NEW d \in Devices, UNCHANGED leases, flush[d].phase = "accepted",
           NEW rest, rest \in Seq(Ball),
           flush' = [flush EXCEPT ![d] =
               IF rest = <<>> THEN NoFlush ELSE [@ EXCEPT !.phase = "posting", !.batch = rest]]
    PROVE  FlushesShaped'
<1> DEFINE f == [flush[d] EXCEPT !.phase = "posting", !.batch = rest]
<1>1. flush[d] \in FlushType /\ FlushShape(d, flush[d]) /\ flush \in [Devices -> FlushType]
  BY DEF Shape, FlushesShaped
<1>2. CASE rest = <<>>
  <2>1. flush' = [flush EXCEPT ![d] = NoFlush]
    BY <1>2
  <2>2. QED
    BY <2>1, NoFlushShape, FlushMoves
<1>3. CASE rest # <<>>
  <2>1. flush' = [flush EXCEPT ![d] = f]
    BY <1>1, <1>3
  <2>2. f \in FlushType /\ f.phase = "posting" /\ f.token = flush[d].token /\ f.batch = rest
    BY <1>1 DEF FlushType, Phase
  <2>3. FlushShape(d, f)
    BY <1>1, <1>3, <2>2 DEF FlushShape
  <2> HIDE DEF f
  <2>4. QED
    BY <2>1, <2>2, <2>3, FlushMoves
<1>4. QED
  BY <1>2, <1>3

\* A delivery is added to the ledger, or the last one is deleted.
LEMMA CreateShape ==
    ASSUME Shape, NEW ball, ball \in Ball, CreateLiveBall(ball)
    PROVE  ServerTyped' /\ LeasesKept /\ (history \in HistoryType)'
<1>1. /\ version \in Nat /\ ledger \in Seq(Ball) /\ lease \in 0 .. Len(leases)
      /\ leases \in Seq(Devices) /\ history \in HistoryType
  BY DEF Shape, ServerTyped
<1>2. Append(ledger, ball) \in Seq(Ball)
  BY <1>1, AppendValue
<1>3. ServerTyped' /\ LeasesKept
  BY <1>1, <1>2 DEF CreateLiveBall, ServerTyped, LeasesKept
<1>4. history' \in HistoryType
  <2> DEFINE counts == [history.accepted EXCEPT ![ball.id] = @ + 1]
  <2>1. history.accepted \in [BallIds -> Nat] /\ ball.id \in BallIds
    BY <1>1 DEF HistoryType, Ball
  <2>2. counts \in [BallIds -> Nat]
    BY <2>1
  <2>3. history' = [history EXCEPT !.accepted = counts]
    BY DEF CreateLiveBall
  <2> HIDE DEF counts
  <2>4. QED
    BY <1>1, <2>2, <2>3 DEF HistoryType
<1>5. QED
  BY <1>3, <1>4

LEMMA DeleteShape ==
    ASSUME Shape, ledger # <<>>, DeleteLastLiveBall
    PROVE  ServerTyped' /\ LeasesKept /\ (history \in HistoryType)'
<1>1. /\ version \in Nat /\ ledger \in Seq(Ball) /\ lease \in 0 .. Len(leases)
      /\ leases \in Seq(Devices) /\ history \in HistoryType
  BY DEF Shape, ServerTyped
<1>2. Front(ledger) \in Seq(Ball) /\ Last(ledger) \in Ball
  BY <1>1, FrontValue
<1>3. ServerTyped' /\ LeasesKept
  BY <1>1, <1>2 DEF DeleteLastLiveBall, ServerTyped, LeasesKept
<1>4. Last(ledger).id \in BallIds
  BY <1>2 DEF Ball
<1>5. history' \in HistoryType
  BY <1>1, <1>4 DEF DeleteLastLiveBall, HistoryType
<1>6. QED
  BY <1>3, <1>5

\* An abandoned request joins the ones on their way.
LEMMA WireGrows ==
    ASSUME Shape, NEW d \in Devices, UNCHANGED leases, wire' \in {wire, wire \cup Abandoned(d)}
    PROVE  WireShaped'
BY AbandonedShape DEF Shape, WireShaped

LEMMA CountsFault == Shape /\ Fault => (used \in UsedType)'
BY BoundAssumption DEF Shape, Fault, UsedType

\* The screen that has the lease learns its token.
LEMMA TokenTaken ==
    ASSUME Shape, NEW d \in Devices, ServerTyped', LeasesKept,
           token' = [token EXCEPT ![d] = lease'],
           lease' \in 1 .. Len(leases'), leases'[lease'] = d
    PROVE  TokensIssued'
<1>1. Len(leases) \in Nat /\ Len(leases') \in Nat /\ Len(leases) =< Len(leases')
  BY DEF Shape, ServerTyped, LeasesKept
<1>2. ASSUME NEW e \in Devices
      PROVE  token'[e] \in 0 .. Len(leases') /\ (token'[e] # NoToken => leases'[token'[e]] = e)
  <2>1. CASE e = d
    BY <1>1, <2>1 DEF Shape, TokensIssued
  <2>2. CASE e # d
    <3>1. token'[e] = token[e] /\ token[e] \in 0 .. Len(leases)
          /\ (token[e] # NoToken => leases[token[e]] = e)
      BY <2>2 DEF Shape, TokensIssued
    <3>2. QED
      BY <1>1, <3>1 DEF LeasesKept, NoToken
  <2>3. QED
    BY <2>1, <2>2
<1>3. token' \in [Devices -> 0 .. Len(leases')]
  <2>1. token' = [e \in Devices |-> token'[e]]
    BY DEF Shape, TokensIssued
  <2>2. QED
    BY <1>2, <2>1
<1>4. QED
  BY <1>2, <1>3 DEF TokensIssued

LEMMA FlushStepShape ==
    ASSUME Shape, NEW d \in Devices, FlushStep(d)
    PROVE  Shape'
<1>1. CASE StartFlush(d)
  <2>1. FlushesShaped'
    BY <1>1, StartsFlush DEF StartFlush, serverVars
  <2>2. UNCHANGED <<serverVars, queue, storage, token, seen, paused, correction, wire, history, used>>
    BY <1>1 DEF StartFlush
  <2>3. QED
    BY <2>1, <2>2, SameShape DEF Shape
<1>2. CASE FlushLoaded(d)
  <2>1. FlushesShaped'
    BY <1>2, LoadsFlush
  <2>2. UNCHANGED <<serverVars, queue, storage, token, seen, paused, correction, wire, history, used>>
    BY <1>2 DEF FlushLoaded
  <2>3. QED
    BY <2>1, <2>2, SameShape DEF Shape
<1>3. CASE ServerHandlesPost(d)
  <2> DEFINE ball == Head(flush[d].batch)
  <2>1. /\ flush[d].phase = "posting" /\ flush[d] \in FlushType /\ FlushShape(d, flush[d])
        /\ flush \in [Devices -> FlushType]
    BY <1>3 DEF ServerHandlesPost, Shape, FlushesShaped
  <2>2. ball \in Ball
    <3>1. flush[d].batch \in Seq(Ball) /\ flush[d].batch # <<>>
      BY <2>1 DEF FlushType, FlushShape
    <3>2. QED
      BY <3>1, TailValue
  <2> HIDE DEF ball
  <2>3. version \in Nat /\ version + 1 \in Nat /\ flush[d].version \in Nat
    BY <2>1 DEF Shape, ServerTyped, FlushType
  <2>4. UNCHANGED <<queue, storage, token, seen, paused, correction, wire, used>>
    BY <1>3 DEF ServerHandlesPost
  <2>5. \/ /\ CreateLiveBall(ball)
           /\ flush' = [flush EXCEPT ![d].phase = "accepted", ![d].version = version + 1]
        \/ /\ UNCHANGED <<serverVars, history>>
           /\ flush' = [flush EXCEPT ![d].phase = "accepted", ![d].version = version]
        \/ /\ UNCHANGED <<serverVars, history>>
           /\ flush' = [flush EXCEPT ![d].phase = "refused"]
    BY <1>3 DEF ServerHandlesPost, Moved, ball
  <2>6. flush' = [flush EXCEPT ![d].phase = "refused"] =>
            flush' = [flush EXCEPT ![d].phase = "refused", ![d].version = flush[d].version]
    BY <2>1 DEF FlushType
  <2>7. ServerTyped' /\ LeasesKept /\ (history \in HistoryType)' /\ UNCHANGED leases
    BY <2>2, <2>5, CreateShape, SameShape DEF CreateLiveBall, serverVars
  <2>8. FlushesShaped'
    BY <2>1, <2>3, <2>5, <2>6, <2>7, AnswersFlush
  <2>9. QED
    BY <2>4, <2>7, <2>8, SameShape DEF Shape
<1>4. CASE BallAcknowledged(d)
  <2> DEFINE rest == Tail(flush[d].batch)
             q == RemoveScoringBall(queue[d], Head(flush[d].batch).id)
  <2>1. /\ flush[d].phase = "accepted" /\ flush[d] \in FlushType /\ FlushShape(d, flush[d])
    BY <1>4 DEF BallAcknowledged, Shape, FlushesShaped
  <2>2. rest \in Seq(Ball) /\ flush[d].version \in Nat
    <3>1. flush[d].batch \in Seq(Ball) /\ flush[d].batch # <<>> /\ flush[d].version \in Nat
      BY <2>1 DEF FlushType, FlushShape
    <3>2. QED
      BY <3>1, TailValue
  <2>3. q \in Seq(Ball)
    BY RemoveIds DEF Shape, QueuesTyped
  <2> HIDE DEF rest, q
  <2>4. /\ SaveOutbox(d, q)
        /\ seen' = [seen EXCEPT ![d].version = flush[d].version]
        /\ flush' = [flush EXCEPT ![d] =
               IF rest = <<>> THEN NoFlush ELSE [@ EXCEPT !.phase = "posting", !.batch = rest]]
        /\ UNCHANGED <<serverVars, token, paused, correction, wire, history, used>>
    BY <1>4 DEF BallAcknowledged, rest, q
  <2>5. QueuesTyped'
    BY <2>3, <2>4, SaveShape
  <2>6. SeenTyped'
    BY <2>2, <2>4 DEF Shape, SeenTyped, SeenType
  <2>7. FlushesShaped'
    BY <2>1, <2>2, <2>4, FlushContinues DEF serverVars
  <2>8. QED
    BY <2>4, <2>5, <2>6, <2>7, SameShape DEF Shape
<1>5. CASE BallRefused(d)
  <2>1. FlushesShaped'
    BY <1>5, NoFlushShape, FlushMoves DEF BallRefused, serverVars
  <2>2. PausesTyped'
    BY <1>5 DEF BallRefused, Shape, PausesTyped
  <2>3. UNCHANGED <<serverVars, queue, storage, token, seen, correction, wire, history, used>>
    BY <1>5 DEF BallRefused
  <2>4. QED
    BY <2>1, <2>2, <2>3, SameShape DEF Shape
<1>6. QED
  BY <1>1, <1>2, <1>3, <1>4, <1>5 DEF FlushStep

LEMMA OperatorStepShape ==
    ASSUME Shape, NEW d \in Devices, OperatorStep(d)
    PROVE  Shape'
<1>1. ASSUME NEW id \in BallIds, NEW p \in Players, RecordBall(d, id, p)
      PROVE  Shape'
  <2> DEFINE ball == [id |-> id, player |-> p]
             q == EnqueueScoringBall(queue[d], ball)
             r == [id |-> id, device |-> d]
  <2>1. q \in Seq(Ball)
    <3>1. queue[d] \in Seq(Ball) /\ ball \in Ball
      BY DEF Shape, QueuesTyped, Ball
    <3> HIDE DEF ball
    <3>2. QED
      BY <3>1, EnqueueValue
  <2> HIDE DEF q
  <2>2. QueuesTyped'
    BY <1>1, <2>1, SaveShape DEF RecordBall, q
  <2>3. SeenTyped'
    BY <1>1 DEF RecordBall, Shape, SeenTyped, SeenType
  <2>4. (history \in HistoryType)'
    <3>1. r \in [id : BallIds, device : Devices] /\ history \in HistoryType
      BY DEF Shape
    <3> HIDE DEF r
    <3>2. Append(history.recorded, r) \in Seq([id : BallIds, device : Devices])
      BY <3>1, AppendValue DEF HistoryType
    <3>3. history' = [history EXCEPT !.recorded = Append(history.recorded, r)]
      BY <1>1 DEF RecordBall, r
    <3>4. QED
      BY <3>1, <3>2, <3>3 DEF HistoryType
  <2>5. UNCHANGED <<serverVars, token, paused, flush, correction, wire, used>>
    BY <1>1 DEF RecordBall
  <2>6. QED
    BY <2>2, <2>3, <2>4, <2>5, SameShape DEF Shape
<1>2. CASE TakeOverScoring(d)
  <2>1. ServerTyped' /\ LeasesKept /\ lease' = Len(leases) + 1 /\ leases'[lease'] = d
    BY <1>2, OpenLeaseShape DEF TakeOverScoring
  <2>2. TokensIssued'
    <3>1. lease' \in 1 .. Len(leases')
      BY <2>1 DEF Shape, ServerTyped
    <3>2. token' = [token EXCEPT ![d] = lease']
      BY <1>2 DEF TakeOverScoring
    <3>3. QED
      BY <2>1, <3>1, <3>2, TokenTaken
  <2>3. UNCHANGED <<queue, storage, seen, paused, flush, correction, wire, history, used>>
    BY <1>2 DEF TakeOverScoring
  <2>4. QED
    BY <2>1, <2>2, <2>3, SameShape DEF Shape
<1>3. CASE SyncQueued(d)
  <2>1. FlushesShaped'
    BY <1>3, StartsFlush DEF SyncQueued, serverVars
  <2>2. PausesTyped'
    BY <1>3 DEF SyncQueued, Shape, PausesTyped
  <2>3. UNCHANGED <<serverVars, queue, storage, token, seen, correction, wire, history, used>>
    BY <1>3 DEF SyncQueued
  <2>4. QED
    BY <2>1, <2>2, <2>3, SameShape DEF Shape
<1>4. CASE UndoLast(d)
  <2> DEFINE r == [kind |-> "undo", shown |-> seen[d].last, version |-> seen[d].version,
                   token |-> token[d]]
  <2>1. seen[d] \in SeenType /\ seen[d].last # NoBall
    BY <1>4 DEF UndoLast, Shape, SeenTyped
  <2>2. token[d] \in 1 .. Len(leases) /\ token[d] \in Nat
    BY <1>4 DEF UndoLast, Shape, TokensIssued, NoToken
  <2>3. r \in UndoRequest /\ r.token \in 1 .. Len(leases)
    BY <2>1, <2>2 DEF SeenType, UndoRequest
  <2> HIDE DEF r
  <2>4. /\ wire' = wire \cup {r}
        /\ UNCHANGED <<serverVars, screenVars, history>>
        /\ used' = [used EXCEPT !.undo = @ + 1] /\ used.undo < MaxUndos
    BY <1>4 DEF UndoLast, r
  <2>5. WireShaped'
    BY <2>3, <2>4 DEF Shape, WireShaped, serverVars
  <2>6. (used \in UsedType)'
    BY <2>4, BoundAssumption DEF Shape, UsedType
  <2>7. QED
    BY <2>4, <2>5, <2>6, SameShape DEF Shape, screenVars
<1>5. ASSUME NEW id \in Ids(queue[d]), NEW to \in Players \cup {Removed}, StartCorrection(d, id, to)
      PROVE  Shape'
  <2>1. id \in BallIds
    BY IdsType DEF Shape, QueuesTyped
  <2>2. CorrectionsTyped'
    BY <1>5, <2>1 DEF StartCorrection, Shape, CorrectionsTyped, CorrectionType
  <2>3. (used \in UsedType)'
    BY <1>5, BoundAssumption DEF StartCorrection, Shape, UsedType
  <2>4. UNCHANGED <<serverVars, queue, storage, token, seen, paused, flush, wire, history>>
    BY <1>5 DEF StartCorrection
  <2>5. QED
    BY <2>2, <2>3, <2>4, SameShape DEF Shape
<1>6. QED
  BY <1>1, <1>2, <1>3, <1>4, <1>5 DEF OperatorStep

LEMMA PollShape ==
    ASSUME Shape, NEW d \in Devices, PollSession(d)
    PROVE  Shape'
<1>1. ServerTyped' /\ LeasesKept /\ leases'[lease'] = d /\ lease' \in 1 .. Len(leases')
  <2>1. CASE lease # NoToken
    BY <2>1 DEF PollSession, Shape, ServerTyped, LeasesKept, NoToken
  <2>2. CASE lease = NoToken
    BY <2>2, OpenLeaseShape DEF PollSession, Shape, ServerTyped
  <2>3. QED
    BY <2>1, <2>2
<1>2. TokensIssued'
  <2>1. token' = [token EXCEPT ![d] = lease']
    BY DEF PollSession
  <2>2. QED
    BY <1>1, <2>1, TokenTaken
<1>3. UNCHANGED <<queue, storage, seen, paused, flush, correction, wire, history, used>>
  BY DEF PollSession
<1>4. QED
  BY <1>1, <1>2, <1>3, SameShape DEF Shape

LEMMA FinishCorrectionShape ==
    ASSUME Shape, NEW d \in Devices, FinishCorrection(d)
    PROVE  Shape'
<1> DEFINE id == correction[d].id
           to == correction[d].to
<1>1. /\ id \in BallIds \cup {NoBall} /\ to \in Players \cup {Removed}
      /\ correction[d] = [id |-> id, to |-> to] /\ correction[d] # NoCorrection
  BY DEF FinishCorrection, Shape, CorrectionsTyped, CorrectionType
<1>2. to = Removed => id \in BallIds
  BY <1>1 DEF NoCorrection
<1>3. queue[d] \in Seq(Ball) /\ version \in Nat /\ ledger \in Seq(Ball)
  BY DEF Shape, QueuesTyped, ServerTyped
<1> HIDE DEF id, to
<1>4. /\ correction' = [correction EXCEPT ![d] = NoCorrection]
      /\ UNCHANGED <<serverVars, token, flush, wire, used>>
  BY DEF FinishCorrection
<1>5. \/ /\ paused' = [paused EXCEPT ![d] = FALSE]
         /\ UNCHANGED <<queue, storage, seen, history>>
      \/ UNCHANGED <<queue, storage, seen, paused, history>>
      \/ /\ to # Removed
         /\ \E last \in DOMAIN queue[d] :
                SaveOutbox(d, ReplaceQueuedScoringBall(queue[d], id, to, last))
         /\ seen' = [seen EXCEPT ![d] = Shown(queue'[d])]
         /\ paused' = [paused EXCEPT ![d] = FALSE]
         /\ UNCHANGED history
      \/ /\ to = Removed
         /\ SaveOutbox(d, RemoveScoringBall(queue[d], id))
         /\ seen' = [seen EXCEPT ![d] = Shown(queue'[d])]
         /\ paused' = [paused EXCEPT ![d] = FALSE]
         /\ history' = [history EXCEPT !.removed = @ \cup {id}]
  BY DEF FinishCorrection, id, to
<1>6. CorrectionsTyped'
  BY <1>4, NothingShape DEF Shape, CorrectionsTyped
<1>7. QueuesTyped'
  <2>1. RemoveScoringBall(queue[d], id) \in Seq(Ball)
    BY <1>3, RemoveIds
  <2>2. ASSUME to # Removed, NEW last
        PROVE  ReplaceQueuedScoringBall(queue[d], id, to, last) \in Seq(Ball)
    BY <1>1, <1>3, <2>2, ReplaceValue
  <2>3. QED
    BY <1>5, <2>1, <2>2, SaveShape, SameShape
<1>8. SeenTyped'
  <2>1. queue'[d] \in Seq(Ball)
    BY <1>7 DEF QueuesTyped
  <2>2. Shown(queue'[d]) \in SeenType
    BY <1>3, <2>1, ShownType DEF SeenType
  <2>3. QED
    BY <1>5, <2>2 DEF Shape, SeenTyped
<1>9. PausesTyped'
  BY <1>5 DEF Shape, PausesTyped
<1>10. (history \in HistoryType)'
  BY <1>2, <1>5 DEF Shape, HistoryType
<1>11. QED
  BY <1>4, <1>6, <1>7, <1>8, <1>9, <1>10, SameShape DEF Shape

LEMMA FailureStepShape ==
    ASSUME Shape, NEW d \in Devices, FailureStep(d)
    PROVE  Shape'
<1>1. CASE FlushFails(d)
  <2>1. UNCHANGED <<serverVars, queue, storage, token, seen, paused, correction, history>>
    BY <1>1 DEF FlushFails
  <2>2. FlushesShaped'
    BY <1>1, NoFlushShape, FlushMoves DEF FlushFails, serverVars
  <2>3. WireShaped' /\ (used \in UsedType)'
    BY <1>1, WireGrows, CountsFault DEF FlushFails, serverVars
  <2>4. QED
    BY <2>1, <2>2, <2>3, SameShape DEF Shape
<1>2. CASE ReloadScreen(d)
  <2>1. storage[BrowserOf[d]] \in Seq(Ball)
    BY ScreenAssumption DEF Shape, QueuesTyped
  <2>2. QueuesTyped'
    BY <1>2, <2>1, SaveShape DEF ReloadScreen
  <2>3. TokensIssued'
    BY <1>2 DEF ReloadScreen, Shape, ServerTyped, TokensIssued, NoToken, serverVars
  <2>4. SeenTyped' /\ PausesTyped' /\ CorrectionsTyped'
    BY <1>2, NothingShape DEF ReloadScreen, Shape, SeenTyped, PausesTyped, CorrectionsTyped
  <2>5. FlushesShaped'
    BY <1>2, NoFlushShape, FlushMoves DEF ReloadScreen, serverVars
  <2>6. WireShaped' /\ (used \in UsedType)'
    BY <1>2, WireGrows, CountsFault DEF ReloadScreen, serverVars
  <2>7. UNCHANGED <<serverVars, history>>
    BY <1>2 DEF ReloadScreen
  <2>8. QED
    BY <2>2, <2>3, <2>4, <2>5, <2>6, <2>7, SameShape DEF Shape
<1>3. CASE CorrectionFails(d)
  <2>1. UNCHANGED <<serverVars, queue, storage, token, seen, paused, flush, wire, history>>
    BY <1>3 DEF CorrectionFails
  <2>2. CorrectionsTyped' /\ (used \in UsedType)'
    BY <1>3, NothingShape, CountsFault DEF CorrectionFails, Shape, CorrectionsTyped
  <2>3. QED
    BY <2>1, <2>2, SameShape DEF Shape
<1>4. QED
  BY <1>1, <1>2, <1>3 DEF FailureStep

LEMMA LateShape ==
    ASSUME Shape, NEW r \in wire, ServerHandlesLate(r)
    PROVE  Shape'
<1>1. UNCHANGED <<screenVars, used>> /\ wire' \subseteq wire
  BY DEF ServerHandlesLate
<1>2. r.kind = "ball" => r.ball \in Ball
  BY DEF Shape, WireShaped, BallRequest, UndoRequest
<1>3. \/ r.kind = "ball" /\ CreateLiveBall(r.ball)
      \/ ledger # <<>> /\ DeleteLastLiveBall
      \/ UNCHANGED <<serverVars, history>>
  BY DEF ServerHandlesLate, IsUndo
<1>4. ServerTyped' /\ LeasesKept /\ (history \in HistoryType)'
  BY <1>2, <1>3, CreateShape, DeleteShape, SameShape
<1>5. QED
  BY <1>1, <1>4, SameShape DEF Shape, screenVars

LEMMA ShapeStep == Shape /\ [Next]_vars => Shape'
<1> SUFFICES ASSUME Shape, [Next]_vars PROVE Shape'
  OBVIOUS
<1>1. ASSUME NEW d \in Devices, RefreshLive(d) PROVE Shape'
  <2>1. Shown(queue[d]) \in SeenType
    BY ShownType DEF Shape, ServerTyped, QueuesTyped, SeenType
  <2>2. SeenTyped'
    BY <1>1, <2>1 DEF RefreshLive, Shape, SeenTyped
  <2>3. QED
    BY <1>1, <2>2, SameShape DEF RefreshLive, Shape
<1>2. CASE LeaseLapses
  <2>1. ServerTyped' /\ LeasesKept
    BY <1>2 DEF LeaseLapses, CloseLease, Shape, ServerTyped, LeasesKept, NoToken
  <2>2. UNCHANGED <<screenVars, wire, history, used>>
    BY <1>2 DEF LeaseLapses
  <2>3. QED
    BY <2>1, <2>2, SameShape DEF Shape, screenVars
<1>3. CASE UNCHANGED vars
  BY <1>3, SameShape DEF vars, screenVars, Shape
<1>4. QED
  BY <1>1, <1>2, <1>3, FlushStepShape, OperatorStepShape, PollShape, FinishCorrectionShape,
     FailureStepShape, LateShape
     DEF Next

\* Whatever the screens, the network and the operators do, the state keeps
\* its shape: outboxes hold deliveries, tokens were issued, flushes that wait
\* for a reply have a delivery to wait for.
THEOREM ShapeKept == Spec => []Shape
<1>1. QED
  BY InitShape, ShapeStep, PTL DEF Spec

\* Every reachable state has the declared types and bounds.
THEOREM TypeCorrect == Spec => []TypeOK
<1>1. QED
  BY ShapeKept, ShapeTypes, PTL

-----------------------------------------------------------------------------
(* The contract of the server *)

\* A delivery that is created, with a token that is not NoToken, is a write
\* of the abstract server; so is an undo.
LEMMA CreateIsWrite ==
    ASSUME Shape, NEW ball, ball \in Ball, lease # NoToken, ball.id \notin Ids(ledger),
           CreateLiveBall(ball)
    PROVE  Write
<1>1. ball = [id |-> ball.id, player |-> ball.player] /\ ball.id \in BallIds /\ ball.player \in Players
  BY DEF Ball
<1>2. AddBall(ball.id, ball.player)
  BY <1>1 DEF CreateLiveBall, AddBall
<1>3. QED
  BY <1>1, <1>2 DEF CreateLiveBall, Write

LEMMA DeleteIsWrite ==
    ASSUME Shape, lease # NoToken, ledger # <<>>, DeleteLastLiveBall
    PROVE  Write
<1>1. Len(ledger) \in DOMAIN ledger /\ Front(ledger) = RemoveAt(ledger, Len(ledger))
  BY FrontValue DEF Shape, ServerTyped
<1>2. RemoveBall(Len(ledger))
  BY <1>1 DEF DeleteLastLiveBall, RemoveBall
<1>3. QED
  BY <1>1, <1>2 DEF DeleteLastLiveBall, Write

\* Every step of the screens and the network is a step of the server, or
\* does not concern it.
LEMMA StepIsServerStep == Shape /\ [Next]_vars => [ServerNext]_serverVars
<1> SUFFICES ASSUME Shape, [Next]_vars PROVE ServerNext \/ UNCHANGED serverVars
  OBVIOUS
<1>1. ASSUME NEW d \in Devices, FlushStep(d) PROVE ServerNext \/ UNCHANGED serverVars
  <2>1. CASE ServerHandlesPost(d)
    <3> DEFINE ball == Head(flush[d].batch)
    <3>1. flush[d] \in FlushType /\ FlushShape(d, flush[d]) /\ flush[d].phase = "posting"
      BY <2>1 DEF ServerHandlesPost, Shape, FlushesShaped
    <3>2. flush[d].token # NoToken /\ flush[d].batch \in Seq(Ball) /\ flush[d].batch # <<>>
      BY <3>1 DEF FlushShape, FlushType, NoToken
    <3>3. ball \in Ball
      BY <3>2, TailValue
    <3> HIDE DEF ball
    <3>4. \/ IsNewBall(ball, flush[d].version, flush[d].token) /\ CreateLiveBall(ball)
          \/ UNCHANGED serverVars
      BY <2>1 DEF ServerHandlesPost, ball
    <3>5. QED
      BY <3>2, <3>3, <3>4, CreateIsWrite DEF IsNewBall, ServerNext
  <2>2. QED
    BY <1>1, <2>1 DEF FlushStep, StartFlush, FlushLoaded, BallAcknowledged, BallRefused
<1>2. ASSUME NEW d \in Devices, OperatorStep(d) \/ PollSession(d)
      PROVE  ServerNext \/ UNCHANGED serverVars
  BY <1>2 DEF OperatorStep, RecordBall, TakeOverScoring, SyncQueued, UndoLast, StartCorrection,
              PollSession, ServerNext, serverVars
<1>3. ASSUME NEW d \in Devices, RefreshLive(d) \/ FinishCorrection(d) \/ FailureStep(d)
      PROVE  UNCHANGED serverVars
  BY <1>3 DEF RefreshLive, FinishCorrection, FailureStep, FlushFails, ReloadScreen, CorrectionFails
<1>4. CASE LeaseLapses
  BY <1>4 DEF LeaseLapses, ServerNext
<1>5. ASSUME NEW r \in wire, ServerHandlesLate(r) PROVE ServerNext \/ UNCHANGED serverVars
  <2>1. r.token # NoToken /\ (r.kind = "ball" => r.ball \in Ball)
    BY DEF Shape, WireShaped, BallRequest, UndoRequest, NoToken
  <2>2. \/ r.kind = "ball" /\ IsNewBall(r.ball, r.version, r.token) /\ CreateLiveBall(r.ball)
        \/ IsUndo(r.version, r.token) /\ DeleteLastLiveBall
        \/ UNCHANGED serverVars
    BY <1>5 DEF ServerHandlesLate
  <2>3. QED
    BY <2>1, <2>2, CreateIsWrite, DeleteIsWrite DEF IsNewBall, IsUndo, ServerNext
<1>6. CASE UNCHANGED vars
  BY <1>6 DEF vars, serverVars
<1>7. QED
  BY <1>1, <1>2, <1>3, <1>4, <1>5, <1>6 DEF Next

\* Screens that record offline, retry, give up on requests, take the lease
\* from each other and lose replies never make the server do more than its
\* specification says: one version per write, one delivery at most, and only
\* under the open lease.
THEOREM ScreensKeepTheServer == Spec => ServerSpec
<1>1. Init => ServerInit
  BY DEF Init
<1>2. QED
  BY <1>1, StepIsServerStep, ShapeKept, PTL DEF Spec, ServerSpec

-----------------------------------------------------------------------------
(* No delivery is lost *)

\* The screens run in browsers of their own, so that one of them saves a
\* stored outbox.  (Two tabs of one browser do overwrite each other's.)
OwnBrowsers == \A d, e \in Devices : BrowserOf[d] = BrowserOf[e] => d = e

\* What is saved is what the screen has in memory.
QueuesSaved == \A d \in Devices : storage[BrowserOf[d]] = queue[d]

\* A delivery whose acknowledgement is on its way was handled.
AcceptedHandled ==
    \A d \in Devices :
        flush[d].phase = "accepted" => Head(flush[d].batch).id \in Ids(ledger) \cup history.undone

KeepInv == QueuesSaved /\ AcceptedHandled /\ NoBallLost

\* The deliveries that are safe.
Handled == Ids(ledger) \cup history.undone \cup history.removed

\* A step keeps every delivery if it queues what it records and what it takes
\* from an outbox was handled.
LEMMA KeptBy ==
    ASSUME NoBallLost, Handled \subseteq Handled',
           \A id \in Recorded' \ Recorded : \E d \in Devices : id \in Ids(queue'[d]),
           \A d \in Devices : Ids(queue[d]) \subseteq Ids(queue'[d]) \cup Handled'
    PROVE  NoBallLost'
<1> SUFFICES ASSUME NEW id \in Recorded', id \notin Handled'
             PROVE  \E d \in Devices : id \in Ids(queue'[d])
  BY DEF NoBallLost, Handled
<1>1. CASE id \notin Recorded
  BY <1>1
<1>2. CASE id \in Recorded
  <2>1. PICK d \in Devices : id \in Ids(queue[d])
    BY <1>2 DEF NoBallLost, Handled
  <2>2. QED
    BY <2>1
<1>3. QED
  BY <1>1, <1>2

LEMMA SavedBy ==
    ASSUME OwnBrowsers, Shape, QueuesSaved, NEW d \in Devices, NEW q, SaveOutbox(d, q)
    PROVE  /\ QueuesSaved'
           /\ queue'[d] = q
           /\ \A e \in Devices : e # d => queue'[e] = queue[e]
BY ScreenAssumption DEF OwnBrowsers, Shape, QueuesTyped, QueuesSaved, SaveOutbox

LEMMA IdsFront ==
    ASSUME NEW s \in Seq(Ball), s # <<>>
    PROVE  Ids(s) = Ids(Front(s)) \cup {Last(s).id}
<1> DEFINE r == Front(s)
<1>1. /\ Len(s) \in 1 .. Len(s) /\ Len(s) \in Nat /\ Last(s) = s[Len(s)]
      /\ DOMAIN s = 1 .. Len(s) /\ DOMAIN r = 1 .. (Len(s) - 1)
      /\ \A i \in 1 .. (Len(s) - 1) : r[i] = s[i]
  BY FrontValue
<1> HIDE DEF r
<1>2. 1 .. Len(s) = (1 .. (Len(s) - 1)) \cup {Len(s)}
  BY <1>1
<1>3. Ids(s) = Ids(r) \cup {Last(s).id}
  BY <1>1, <1>2 DEF Ids
<1>4. QED
  BY <1>3 DEF r

\* The step facts of the invariant, for a step that keeps what was handled.
LEMMA KeepsBy ==
    ASSUME KeepInv, QueuesSaved',
           history.removed \subseteq history'.removed,
           Ids(ledger) \cup history.undone \subseteq Ids(ledger') \cup history'.undone,
           \A id \in Recorded' \ Recorded : \E d \in Devices : id \in Ids(queue'[d]),
           \A d \in Devices : Ids(queue[d]) \subseteq Ids(queue'[d]) \cup Handled',
           \A d \in Devices : flush'[d].phase = "accepted" =>
               /\ flush'[d].batch = flush[d].batch
               /\ \/ flush[d].phase = "accepted"
                  \/ Head(flush[d].batch).id \in Ids(ledger') \cup history'.undone
    PROVE  KeepInv'
<1>1. Handled \subseteq Handled'
  BY DEF Handled
<1>2. NoBallLost'
  BY <1>1, KeptBy DEF KeepInv
<1>3. AcceptedHandled'
  BY DEF KeepInv, AcceptedHandled
<1>4. QED
  BY <1>2, <1>3 DEF KeepInv

LEMMA FlushPhases ==
    ASSUME Shape, NEW d \in Devices, NEW f, flush' = [flush EXCEPT ![d] = f]
    PROVE  flush'[d] = f /\ \A e \in Devices : e # d => flush'[e] = flush[e]
BY DEF Shape, FlushesShaped

\* A step that changes no outbox, and neither ledger nor history.
LEMMA QuietKeeps ==
    ASSUME KeepInv, UNCHANGED <<queue, storage, ledger, history>>,
           \A d \in Devices : flush'[d].phase = "accepted" => flush'[d] = flush[d]
    PROVE  KeepInv'
<1>1. QueuesSaved' /\ UNCHANGED Recorded /\ UNCHANGED Handled
  BY DEF KeepInv, QueuesSaved, Recorded, Handled
<1>2. QED
  BY <1>1, KeepsBy

LEMMA FlushStepKeeps ==
    ASSUME OwnBrowsers, Shape, KeepInv, NEW d \in Devices, FlushStep(d)
    PROVE  KeepInv'
<1>1. flush[d] \in FlushType /\ FlushShape(d, flush[d]) /\ flush \in [Devices -> FlushType]
  BY DEF Shape, FlushesShaped
<1>2. CASE StartFlush(d)
  BY <1>1, <1>2, QuietKeeps DEF StartFlush, FlushType, serverVars
<1>3. CASE FlushLoaded(d)
  BY <1>1, <1>3, QuietKeeps DEF FlushLoaded, FlushType, serverVars, NoFlush
<1>4. CASE BallRefused(d)
  BY <1>1, <1>4, QuietKeeps DEF BallRefused, FlushType, serverVars, NoFlush
<1>5. CASE ServerHandlesPost(d)
  <2> DEFINE ball == Head(flush[d].batch)
  <2>1. /\ UNCHANGED <<queue, storage>> /\ flush[d].phase = "posting"
        /\ \/ /\ CreateLiveBall(ball)
              /\ flush' = [flush EXCEPT ![d].phase = "accepted", ![d].version = version + 1]
           \/ /\ ball.id \in Ids(ledger)
              /\ flush' = [flush EXCEPT ![d].phase = "accepted", ![d].version = version]
              /\ UNCHANGED <<serverVars, history>>
           \/ /\ flush' = [flush EXCEPT ![d].phase = "refused"]
              /\ UNCHANGED <<serverVars, history>>
    BY <1>5 DEF ServerHandlesPost, Moved, IsRetry
  <2>2. ball \in Ball
    <3>1. flush[d].batch \in Seq(Ball) /\ flush[d].batch # <<>>
      BY <1>1, <2>1 DEF FlushType, FlushShape
    <3>2. QED
      BY <3>1, TailValue
  <2> HIDE DEF ball
  <2>3. history \in HistoryType /\ ledger \in Seq(Ball)
    BY DEF Shape, ServerTyped
  <2>4. /\ UNCHANGED <<history.recorded, history.undone, history.removed>>
        /\ CreateLiveBall(ball) => Ids(ledger') = Ids(ledger) \cup {ball.id}
    BY <2>1, <2>2, <2>3, IdsAppend DEF CreateLiveBall, HistoryType
  <2>5. Ids(ledger) \subseteq Ids(ledger')
    BY <2>1, <2>4 DEF serverVars
  <2>6. /\ \A e \in Devices : e # d => flush'[e] = flush[e]
        /\ flush'[d].batch = flush[d].batch
        /\ flush'[d].phase = "accepted" => ball.id \in Ids(ledger')
    BY <1>1, <2>1, <2>4, <2>5 DEF FlushType, serverVars
  <2>7. QueuesSaved' /\ UNCHANGED Recorded
    BY <2>1, <2>4 DEF KeepInv, QueuesSaved, Recorded
  <2>8. QED
    BY <2>1, <2>4, <2>5, <2>6, <2>7, KeepsBy DEF ball
<1>6. CASE BallAcknowledged(d)
  <2> DEFINE id == Head(flush[d].batch).id
             q == RemoveScoringBall(queue[d], id)
             rest == Tail(flush[d].batch)
  <2>1. id \in Ids(ledger) \cup history.undone
    BY <1>6 DEF BallAcknowledged, KeepInv, AcceptedHandled
  <2>2. /\ Ids(queue[d]) \ {id} \subseteq Ids(q)
    BY RemoveIds DEF Shape, QueuesTyped
  <2> HIDE DEF id, q, rest
  <2>3. /\ SaveOutbox(d, q)
        /\ flush' = [flush EXCEPT ![d] =
               IF rest = <<>> THEN NoFlush ELSE [@ EXCEPT !.phase = "posting", !.batch = rest]]
        /\ UNCHANGED <<serverVars, history>>
    BY <1>6 DEF BallAcknowledged, id, q, rest
  <2>4. QueuesSaved' /\ queue'[d] = q /\ \A e \in Devices : e # d => queue'[e] = queue[e]
    BY <2>3, SavedBy DEF KeepInv
  <2>5. /\ UNCHANGED <<ledger, history>> /\ UNCHANGED Recorded /\ UNCHANGED Handled
    BY <2>3 DEF serverVars, Recorded, Handled
  <2>6. \A e \in Devices : flush'[e].phase = "accepted" => flush'[e] = flush[e]
    BY <1>1, <2>3 DEF FlushType, NoFlush
  <2>7. \A e \in Devices : Ids(queue[e]) \subseteq Ids(queue'[e]) \cup Handled'
    BY <2>1, <2>2, <2>4, <2>5 DEF Handled
  <2>8. QED
    BY <2>4, <2>5, <2>6, <2>7, KeepsBy
<1>7. QED
  BY <1>2, <1>3, <1>4, <1>5, <1>6 DEF FlushStep

LEMMA RecordKeeps ==
    ASSUME OwnBrowsers, Shape, KeepInv,
           NEW d \in Devices, NEW id \in BallIds, NEW p \in Players, RecordBall(d, id, p)
    PROVE  /\ KeepInv'
           /\ history'.recorded = Append(history.recorded, [id |-> id, device |-> d])
<1> DEFINE ball == [id |-> id, player |-> p]
           q == EnqueueScoringBall(queue[d], ball)
           r == [id |-> id, device |-> d]
<1>1. Ids(q) = Ids(queue[d]) \cup {id}
  <2>1. ball \in Ball /\ queue[d] \in Seq(Ball) /\ ball.id = id
    BY DEF Ball, Shape, QueuesTyped
  <2> HIDE DEF ball
  <2>2. QED
    BY <2>1, EnqueueValue
<1>2. SaveOutbox(d, q) /\ UNCHANGED <<serverVars, flush>>
  BY DEF RecordBall
<1> HIDE DEF q
<1>3. QueuesSaved' /\ queue'[d] = q /\ \A e \in Devices : e # d => queue'[e] = queue[e]
  BY <1>2, SavedBy DEF KeepInv
<1>4. history \in HistoryType /\ r \in [id : BallIds, device : Devices]
  BY DEF Shape
<1>5. history' = [history EXCEPT !.recorded = Append(history.recorded, r)]
  BY DEF RecordBall
<1>6. /\ history'.recorded = Append(history.recorded, r)
      /\ UNCHANGED <<history.undone, history.removed>>
  BY <1>4, <1>5 DEF HistoryType
<1>7. Recorded' \subseteq Recorded \cup {id}
  <2>1. r.id = id /\ history.recorded \in Seq([id : BallIds, device : Devices])
    BY <1>4 DEF HistoryType
  <2> DEFINE old == history.recorded
             new == history'.recorded
  <2> HIDE DEF r
  <2>2. /\ DOMAIN new = 1 .. Len(old) + 1 /\ DOMAIN old = 1 .. Len(old) /\ Len(old) \in Nat
        /\ \A i \in 1 .. Len(old) : new[i] = old[i]
        /\ new[Len(old) + 1] = r
    BY <1>4, <1>6, <2>1, AppendValue
  <2>3. ASSUME NEW i \in DOMAIN new PROVE new[i].id \in Recorded \cup {id}
    BY <2>1, <2>2 DEF Recorded
  <2>4. QED
    BY <2>3 DEF Recorded
<1>8. UNCHANGED ledger /\ UNCHANGED Handled
  BY <1>2, <1>6 DEF serverVars, Handled
<1>9. KeepInv'
  BY <1>1, <1>2, <1>3, <1>6, <1>7, <1>8, KeepsBy
<1>10. QED
  BY <1>6, <1>9

LEMMA FinishCorrectionKeeps ==
    ASSUME OwnBrowsers, Shape, KeepInv, NEW d \in Devices, FinishCorrection(d)
    PROVE  KeepInv'
<1> DEFINE id == correction[d].id
           to == correction[d].to
<1>1. to \in Players \cup {Removed} /\ queue[d] \in Seq(Ball) /\ history \in HistoryType
  BY DEF FinishCorrection, Shape, CorrectionsTyped, CorrectionType, QueuesTyped
<1> HIDE DEF id, to
<1>2. UNCHANGED <<serverVars, flush>>
  BY DEF FinishCorrection
<1>3. \/ UNCHANGED <<queue, storage, history>>
      \/ /\ to # Removed
         /\ \E last \in DOMAIN queue[d] :
                SaveOutbox(d, ReplaceQueuedScoringBall(queue[d], id, to, last))
         /\ UNCHANGED history
      \/ /\ SaveOutbox(d, RemoveScoringBall(queue[d], id))
         /\ history' = [history EXCEPT !.removed = @ \cup {id}]
  BY DEF FinishCorrection, id, to
<1>4. CASE UNCHANGED <<queue, storage, history>>
  BY <1>2, <1>4, QuietKeeps DEF serverVars
<1>5. ASSUME to # Removed, NEW last,
             SaveOutbox(d, ReplaceQueuedScoringBall(queue[d], id, to, last)),
             UNCHANGED history
      PROVE  KeepInv'
  <2> DEFINE q == ReplaceQueuedScoringBall(queue[d], id, to, last)
  <2>1. Ids(q) = Ids(queue[d])
    BY <1>1, <1>5, ReplaceValue
  <2>2. SaveOutbox(d, q)
    BY <1>5
  <2> HIDE DEF q
  <2>3. QueuesSaved' /\ queue'[d] = q /\ \A e \in Devices : e # d => queue'[e] = queue[e]
    BY <2>2, SavedBy DEF KeepInv
  <2>4. UNCHANGED ledger /\ UNCHANGED Recorded /\ UNCHANGED Handled
    BY <1>2, <1>5 DEF serverVars, Recorded, Handled
  <2>5. \A e \in Devices : Ids(queue[e]) \subseteq Ids(queue'[e]) \cup Handled'
    BY <2>1, <2>3
  <2>6. QED
    BY <1>2, <1>5, <2>3, <2>4, <2>5, KeepsBy
<1>6. CASE /\ SaveOutbox(d, RemoveScoringBall(queue[d], id))
           /\ history' = [history EXCEPT !.removed = @ \cup {id}]
  <2> DEFINE q == RemoveScoringBall(queue[d], id)
  <2>1. Ids(queue[d]) \ {id} \subseteq Ids(q)
    BY <1>1, RemoveIds
  <2>2. SaveOutbox(d, q)
    BY <1>6
  <2> HIDE DEF q
  <2>3. QueuesSaved' /\ queue'[d] = q /\ \A e \in Devices : e # d => queue'[e] = queue[e]
    BY <2>2, SavedBy DEF KeepInv
  <2>4. /\ UNCHANGED <<history.recorded, history.undone>>
        /\ history'.removed = history.removed \cup {id}
    BY <1>1, <1>6 DEF HistoryType
  <2>5. UNCHANGED ledger /\ UNCHANGED Recorded /\ Handled' = Handled \cup {id}
    BY <1>2, <2>4 DEF serverVars, Recorded, Handled
  <2>6. \A e \in Devices : Ids(queue[e]) \subseteq Ids(queue'[e]) \cup Handled'
    BY <2>1, <2>3, <2>5
  <2>7. QED
    BY <1>2, <2>3, <2>4, <2>5, <2>6, KeepsBy
<1>7. QED
  BY <1>3, <1>4, <1>5, <1>6

LEMMA LateKeeps ==
    ASSUME Shape, KeepInv, NEW r \in wire, ServerHandlesLate(r)
    PROVE  KeepInv'
<1>1. /\ UNCHANGED screenVars /\ history \in HistoryType /\ ledger \in Seq(Ball)
      /\ r.kind = "ball" => r.ball \in Ball
  BY DEF ServerHandlesLate, Shape, ServerTyped, WireShaped, BallRequest, UndoRequest
<1>2. \/ r.kind = "ball" /\ CreateLiveBall(r.ball)
      \/ ledger # <<>> /\ DeleteLastLiveBall
      \/ UNCHANGED <<serverVars, history>>
  BY DEF ServerHandlesLate, IsUndo
<1>3. ASSUME NEW ball, ball \in Ball, CreateLiveBall(ball) PROVE KeepInv'
  <2>1. /\ UNCHANGED <<history.recorded, history.undone, history.removed>>
        /\ Ids(ledger') = Ids(ledger) \cup {ball.id}
    BY <1>1, <1>3, IdsAppend DEF CreateLiveBall, HistoryType
  <2>2. QueuesSaved' /\ UNCHANGED Recorded
    BY <1>1, <2>1 DEF screenVars, KeepInv, QueuesSaved, Recorded
  <2>3. QED
    BY <1>1, <2>1, <2>2, KeepsBy DEF screenVars
<1>4. ASSUME ledger # <<>>, DeleteLastLiveBall PROVE KeepInv'
  <2>1. Ids(ledger) = Ids(Front(ledger)) \cup {Last(ledger).id}
    BY <1>1, <1>4, IdsFront
  <2>2. /\ UNCHANGED <<history.recorded, history.removed>>
        /\ history'.undone = history.undone \cup {Last(ledger).id}
        /\ ledger' = Front(ledger)
    BY <1>1, <1>4 DEF DeleteLastLiveBall, HistoryType
  <2>3. QueuesSaved' /\ UNCHANGED Recorded
    BY <1>1, <2>2 DEF screenVars, KeepInv, QueuesSaved, Recorded
  <2>4. QED
    BY <1>1, <2>1, <2>2, <2>3, KeepsBy DEF screenVars
<1>5. CASE UNCHANGED <<serverVars, history>>
  BY <1>1, <1>5, QuietKeeps DEF serverVars, screenVars
<1>6. QED
  BY <1>1, <1>2, <1>3, <1>4, <1>5

LEMMA KeepStep ==
    ASSUME OwnBrowsers, Shape, KeepInv, [Next]_vars
    PROVE  KeepInv'
<1>1. ASSUME NEW d \in Devices, OperatorStep(d) \/ PollSession(d) \/ RefreshLive(d)
      PROVE  KeepInv'
  <2>1. ASSUME NEW id \in BallIds, NEW p \in Players, RecordBall(d, id, p) PROVE KeepInv'
    BY <2>1, RecordKeeps
  <2>2. CASE TakeOverScoring(d) \/ PollSession(d)
    BY <2>2, QuietKeeps DEF TakeOverScoring, PollSession, OpenLease
  <2>3. CASE SyncQueued(d)
    <3>1. \A e \in Devices : flush'[e].phase = "accepted" => flush'[e] = flush[e]
      BY <2>3 DEF SyncQueued, Shape, FlushesShaped, FlushType
    <3>2. QED
      BY <2>3, <3>1, QuietKeeps DEF SyncQueued, serverVars
  <2>4. CASE UndoLast(d)
    BY <2>4, QuietKeeps DEF UndoLast, serverVars, screenVars
  <2>5. ASSUME NEW id, NEW to, StartCorrection(d, id, to) PROVE KeepInv'
    BY <2>5, QuietKeeps DEF StartCorrection, serverVars
  <2>6. CASE RefreshLive(d)
    BY <2>6, QuietKeeps DEF RefreshLive, serverVars
  <2>7. QED
    BY <1>1, <2>1, <2>2, <2>3, <2>4, <2>5, <2>6 DEF OperatorStep
<1>2. ASSUME NEW d \in Devices, FailureStep(d) PROVE KeepInv'
  <2>1. CASE FlushFails(d)
    <3>1. \A e \in Devices : flush'[e].phase = "accepted" => flush'[e] = flush[e]
      BY <2>1, FlushPhases DEF FlushFails, NoFlush
    <3>2. QED
      BY <2>1, <3>1, QuietKeeps DEF FlushFails, serverVars
  <2>2. CASE ReloadScreen(d)
    <3>1. \A e \in Devices : flush'[e].phase = "accepted" => flush'[e] = flush[e]
      BY <2>2, FlushPhases DEF ReloadScreen, NoFlush
    <3>2. storage[BrowserOf[d]] = queue[d]
      BY DEF KeepInv, QueuesSaved
    <3>3. SaveOutbox(d, queue[d])
      BY <2>2, <3>2 DEF ReloadScreen
    <3>4. UNCHANGED <<queue, storage>>
      BY <3>2, <3>3, ScreenAssumption DEF SaveOutbox, Shape, QueuesTyped
    <3>5. QED
      BY <2>2, <3>1, <3>4, QuietKeeps DEF ReloadScreen, serverVars
  <2>3. CASE CorrectionFails(d)
    BY <2>3, QuietKeeps DEF CorrectionFails, serverVars
  <2>4. QED
    BY <1>2, <2>1, <2>2, <2>3 DEF FailureStep
<1>3. CASE LeaseLapses
  BY <1>3, QuietKeeps DEF LeaseLapses, CloseLease, screenVars
<1>4. CASE UNCHANGED vars
  BY <1>4, QuietKeeps DEF vars, serverVars, screenVars
<1>5. QED
  BY <1>1, <1>2, <1>3, <1>4, FlushStepKeeps, FinishCorrectionKeeps, LateKeeps DEF Next

LEMMA KeepAlways == OwnBrowsers => (Spec => []KeepInv)
<1> SUFFICES ASSUME OwnBrowsers PROVE Spec => []KeepInv
  OBVIOUS
<1>1. Init => KeepInv
  BY ScreenAssumption
     DEF Init, KeepInv, QueuesSaved, AcceptedHandled, NoBallLost, Recorded, NoFlush
<1>2. Shape /\ KeepInv /\ [Next]_vars => KeepInv'
  BY KeepStep
<1>3. QED
  BY <1>1, <1>2, ShapeKept, PTL DEF Spec

\* On screens with browsers of their own no crash, lost reply, takeover,
\* refusal, retry or correction loses a recorded delivery: it is in the
\* ledger or still queued, unless an operator removed or undid it.
THEOREM NoRecordedBallIsLost == OwnBrowsers => (Spec => []NoBallLost)
<1>1. KeepInv => NoBallLost
  BY DEF KeepInv
<1>2. QED
  BY <1>1, KeepAlways, PTL

-----------------------------------------------------------------------------
(* Deliveries reach the ledger in the order in which they were recorded *)

\* The pairs of deliveries of one screen, the earlier one first.
Precedes ==
    {p \in BallIds \X BallIds :
        \E i, j \in DOMAIN history.recorded :
            /\ i < j
            /\ history.recorded[i].device = history.recorded[j].device
            /\ p = <<history.recorded[i].id, history.recorded[j].id>>}

RecordedOn(d) ==
    {id \in BallIds : \E i \in DOMAIN history.recorded :
        history.recorded[i].id = id /\ history.recorded[i].device = d}

RecordedOnce ==
    \A i, j \in DOMAIN history.recorded : history.recorded[i].id = history.recorded[j].id => i = j

\* The deliveries a screen still posts, and the ones nobody waits for.
Pending(d) == Ids(queue[d]) \cup Ids(flush[d].batch)
Late == {r \in wire : r.kind = "ball"}

AllRecorded ==
    /\ \A d \in Devices : Pending(d) \subseteq RecordedOn(d)
    /\ Ids(ledger) \subseteq Recorded
    /\ \A r \in Late : r.ball.id \in Recorded

InOrder(pairs, balls) ==
    \A i, j \in DOMAIN balls : i < j => <<balls[i].id, balls[j].id>> \in pairs

\* The outbox and the batch are in order, and of what was recorded before a
\* delivery of the batch nothing is in the outbox alone.
ScreenInOrder(pairs, entries, batch) ==
    /\ InOrder(pairs, entries)
    /\ InOrder(pairs, batch)
    /\ \A x \in Ids(entries), e \in Ids(batch) : <<x, e>> \in pairs => x \in Ids(batch)

ScreensInOrder == \A d \in Devices : ScreenInOrder(Precedes, queue[d], flush[d].batch)

\* A late request is about a delivery that comes before all that is pending.
LateInOrder == \A r \in Late, d \in Devices : \A x \in Pending(d) : <<x, r.ball.id>> \notin Precedes

\* Nothing that waits to be accepted has been overtaken.
NothingOvertaken ==
    \A d \in Devices : \A x \in Pending(d) \ Ids(ledger) : \A e \in Ids(ledger) : <<x, e>> \notin Precedes

\* A late request that the server would accept has not been overtaken either.
LateNotOvertaken ==
    /\ \A d \in Devices : flush[d].version =< version
    /\ \A r \in Late :
          /\ r.version =< version
          /\ r.version = version /\ r.ball.id \notin Ids(ledger) =>
                \A e \in Ids(ledger) : <<r.ball.id, e>> \notin Precedes

LedgerInOrder ==
    \A k, l \in DOMAIN ledger : <<ledger[k].id, ledger[l].id>> \in Precedes => k < l

\* The inductive invariant.  RecordedOrderKept alone is not inductive: it does
\* not say why a request that is still on its way, or an outbox that is posted
\* again after an undo, cannot bring a delivery in after a later one.
OrderInv ==
    /\ RecordedOnce
    /\ AllRecorded
    /\ ScreensInOrder
    /\ LateInOrder
    /\ NothingOvertaken
    /\ LateNotOvertaken
    /\ LedgerInOrder

RecordType == [id : BallIds, device : Devices]

LEMMA RecordedValue ==
    ASSUME Shape
    PROVE  /\ history.recorded \in Seq(RecordType)
           /\ Len(history.recorded) \in Nat
           /\ DOMAIN history.recorded = 1 .. Len(history.recorded)
           /\ \A i \in 1 .. Len(history.recorded) : history.recorded[i].id \in BallIds
<1>1. history.recorded \in Seq(RecordType)
  BY DEF Shape, HistoryType, RecordType
<1> DEFINE rs == history.recorded
<1> HIDE DEF rs
<1>2. rs \in Seq(RecordType) => /\ Len(rs) \in Nat /\ DOMAIN rs = 1 .. Len(rs)
                                /\ \A i \in 1 .. Len(rs) : rs[i] \in RecordType
  BY ElementOfSeq, LenProperties
<1>3. \A r \in RecordType : r.id \in BallIds
  BY DEF RecordType
<1>4. QED
  BY <1>1, <1>2, <1>3 DEF rs

\* The order of the deliveries of a screen.
LEMMA PrecedesFacts ==
    ASSUME Shape, RecordedOnce
    PROVE  /\ \A a : <<a, a>> \notin Precedes
           /\ \A a, b : <<a, b>> \in Precedes => <<b, a>> \notin Precedes
           /\ \A a, b : <<a, b>> \in Precedes => a \in Recorded /\ b \in Recorded
           /\ \A a, b : \A d : <<a, b>> \in Precedes => (a \in RecordedOn(d) <=> b \in RecordedOn(d))
           /\ \A a : \A d, e : a \in RecordedOn(d) /\ a \in RecordedOn(e) => d = e
           /\ \A d : RecordedOn(d) \subseteq Recorded
           /\ Recorded \subseteq BallIds
<1> DEFINE rs == history.recorded
<1>1. /\ Len(rs) \in Nat /\ DOMAIN rs = 1 .. Len(rs)
      /\ \A i \in 1 .. Len(rs) : rs[i].id \in BallIds
  BY RecordedValue
<1>2. \A a, b : <<a, b>> \in Precedes =>
          \E i, j \in 1 .. Len(rs) :
              i < j /\ rs[i].device = rs[j].device /\ a = rs[i].id /\ b = rs[j].id
  BY <1>1 DEF Precedes
<1>3. \A a : \A d : a \in RecordedOn(d) <=>
          \E i \in 1 .. Len(rs) : rs[i].id = a /\ rs[i].device = d
  BY <1>1 DEF RecordedOn
<1>4. \A i, j \in 1 .. Len(rs) : rs[i].id = rs[j].id => i = j
  BY <1>1 DEF RecordedOnce
<1>5. \A a : a \in Recorded <=> \E i \in 1 .. Len(rs) : rs[i].id = a
  BY <1>1 DEF Recorded
<1> HIDE DEF rs
<1>6. \A a : <<a, a>> \notin Precedes
  BY <1>1, <1>2, <1>4
<1>7. \A a, b : <<a, b>> \in Precedes => <<b, a>> \notin Precedes
  <2> SUFFICES ASSUME NEW a, NEW b, <<a, b>> \in Precedes, <<b, a>> \in Precedes PROVE FALSE
    OBVIOUS
  <2>1. PICK i, j \in 1 .. Len(rs) : i < j /\ a = rs[i].id /\ b = rs[j].id
    BY <1>2
  <2>2. PICK k, l \in 1 .. Len(rs) : k < l /\ b = rs[k].id /\ a = rs[l].id
    BY <1>2
  <2>3. i = l /\ j = k
    BY <1>4, <2>1, <2>2
  <2>4. QED
    BY <1>1, <2>1, <2>2, <2>3
<1>8. \A a, b : <<a, b>> \in Precedes => a \in Recorded /\ b \in Recorded
  BY <1>2, <1>5
<1>9. \A a, b : \A d : <<a, b>> \in Precedes => (a \in RecordedOn(d) <=> b \in RecordedOn(d))
  <2> SUFFICES ASSUME NEW a, NEW b, NEW d, <<a, b>> \in Precedes
               PROVE  a \in RecordedOn(d) <=> b \in RecordedOn(d)
    OBVIOUS
  <2>1. PICK i, j \in 1 .. Len(rs) :
           rs[i].device = rs[j].device /\ a = rs[i].id /\ b = rs[j].id
    BY <1>2
  <2>2. \A k \in 1 .. Len(rs) : (rs[k].id = a => k = i) /\ (rs[k].id = b => k = j)
    BY <1>4, <2>1
  <2>3. a \in RecordedOn(d) <=> rs[i].device = d
    BY <1>3, <2>1, <2>2
  <2>4. b \in RecordedOn(d) <=> rs[j].device = d
    BY <1>3, <2>1, <2>2
  <2>5. QED
    BY <2>1, <2>3, <2>4
<1>10. \A a : \A d, e : a \in RecordedOn(d) /\ a \in RecordedOn(e) => d = e
  <2> SUFFICES ASSUME NEW a, NEW d, NEW e, a \in RecordedOn(d), a \in RecordedOn(e) PROVE d = e
    OBVIOUS
  <2>1. PICK i \in 1 .. Len(rs) : rs[i].id = a /\ rs[i].device = d
    BY <1>3
  <2>2. PICK j \in 1 .. Len(rs) : rs[j].id = a /\ rs[j].device = e
    BY <1>3
  <2>3. i = j
    BY <1>4, <2>1, <2>2
  <2>4. QED
    BY <2>1, <2>2, <2>3
<1>11. \A d : RecordedOn(d) \subseteq Recorded
  BY <1>3, <1>5
<1>12. Recorded \subseteq BallIds
  BY <1>1, <1>5
<1>13. QED
  BY <1>6, <1>7, <1>8, <1>9, <1>10, <1>11, <1>12

\* An order only depends on what was recorded.
LEMMA SameOrder ==
    ASSUME UNCHANGED history.recorded
    PROVE  /\ UNCHANGED Precedes /\ UNCHANGED Recorded
           /\ RecordedOnce => RecordedOnce'
           /\ \A d \in Devices : UNCHANGED RecordedOn(d)
BY DEF Precedes, Recorded, RecordedOnce, RecordedOn

\* Nothing pending precedes the delivery at the head of a batch.
LEMMA HeadIsFirst ==
    ASSUME Shape, OrderInv, NEW d \in Devices, flush[d].batch # <<>>,
           NEW e \in Devices, NEW x \in Pending(e)
    PROVE  /\ <<x, Head(flush[d].batch).id>> \notin Precedes
           /\ Head(flush[d].batch).id \in Pending(d)
<1> DEFINE batch == flush[d].batch
           h == Head(batch)
<1>1. batch \in Seq(Ball) /\ batch # <<>>
  BY DEF Shape, FlushesShaped, FlushType
<1>2. ScreenInOrder(Precedes, queue[d], batch)
  BY DEF OrderInv, ScreensInOrder
<1>3. Ids(batch) \subseteq Pending(d)
  BY DEF Pending
<1> HIDE DEF batch, h
<1>4. /\ Len(batch) >= 1 /\ Len(batch) \in Nat /\ DOMAIN batch = 1 .. Len(batch)
      /\ h = batch[1] /\ h.id \in Ids(batch)
  BY <1>1, TailValue, IdsTail DEF h
<1>5. SUFFICES ASSUME <<x, h.id>> \in Precedes PROVE FALSE
  BY <1>3, <1>4 DEF batch, h
<1>6. x \in Pending(d)
  <2>1. x \in RecordedOn(e) /\ h.id \in RecordedOn(d)
    BY <1>3, <1>4 DEF OrderInv, AllRecorded
  <2>2. e = d
    BY <1>5, <2>1, PrecedesFacts DEF OrderInv
  <2>3. QED
    BY <2>2
<1>7. x \in Ids(batch)
  BY <1>2, <1>4, <1>5, <1>6 DEF Pending, ScreenInOrder, batch
<1>8. PICK i \in 1 .. Len(batch) : x = batch[i].id
  BY <1>4, <1>7 DEF Ids
<1>9. CASE i = 1
  <2>1. <<h.id, h.id>> \notin Precedes
    BY PrecedesFacts DEF OrderInv
  <2>2. x = h.id
    BY <1>4, <1>8, <1>9
  <2>3. QED
    BY <1>5, <2>1, <2>2, Zenon
<1>10. CASE i # 1
  <2>1. <<h.id, x>> \in Precedes
    <3>1. \A k, l \in DOMAIN batch : k < l => <<batch[k].id, batch[l].id>> \in Precedes
      BY <1>2 DEF ScreenInOrder, InOrder
    <3>2. 1 \in DOMAIN batch /\ i \in DOMAIN batch /\ 1 < i
      BY <1>4, <1>10
    <3>3. <<batch[1].id, batch[i].id>> \in Precedes
      BY <3>1, <3>2
    <3>4. QED
      BY <1>4, <1>8, <3>3, Zenon
  <2>2. QED
    BY <1>5, <2>1, PrecedesFacts DEF OrderInv
<1>11. QED
  BY <1>9, <1>10

LEMMA InOrderTail ==
    ASSUME NEW pairs, NEW s \in Seq(Ball), s # <<>>, InOrder(pairs, s)
    PROVE  InOrder(pairs, Tail(s))
<1> DEFINE r == Tail(s)
<1>1. /\ Len(s) \in Nat /\ DOMAIN s = 1 .. Len(s) /\ DOMAIN r = 1 .. (Len(s) - 1)
      /\ \A i \in 1 .. (Len(s) - 1) : r[i] = s[i + 1]
  BY TailValue
<1> HIDE DEF r
<1>2. ASSUME NEW i \in 1 .. (Len(s) - 1), NEW j \in 1 .. (Len(s) - 1), i < j
      PROVE  <<r[i].id, r[j].id>> \in pairs
  <2>1. i + 1 \in 1 .. Len(s) /\ j + 1 \in 1 .. Len(s) /\ i + 1 < j + 1
    BY <1>1, <1>2
  <2>2. QED
    BY <1>1, <2>1 DEF InOrder
<1>3. InOrder(pairs, r)
  BY <1>1, <1>2 DEF InOrder
<1>4. QED
  BY <1>3 DEF r

LEMMA InOrderRemove ==
    ASSUME NEW pairs, NEW s \in Seq(Ball), NEW id, InOrder(pairs, s)
    PROVE  /\ InOrder(pairs, RemoveScoringBall(s, id))
           /\ (\A a : <<a, a>> \notin pairs) => id \notin Ids(RemoveScoringBall(s, id))
<1>1. CASE id \notin Ids(s)
  BY <1>1 DEF RemoveScoringBall
<1>2. CASE id \in Ids(s)
  <2> DEFINE r == RemoveScoringBall(s, id)
  <2>1. PICK k \in DOMAIN s :
           /\ s[k].id = id
           /\ r \in Seq(Ball)
           /\ Len(r) = Len(s) - 1
           /\ \A j \in 1 .. (Len(s) - 1) : r[j] = s[IF j < k THEN j ELSE j + 1]
    BY <1>2, RemoveValue
  <2> HIDE DEF r
  <2>2. DOMAIN s = 1 .. Len(s) /\ DOMAIN r = 1 .. (Len(s) - 1) /\ Len(s) \in Nat /\ k \in 1 .. Len(s)
    BY <2>1
  <2> DEFINE from(j) == IF j < k THEN j ELSE j + 1
  <2>3. \A j \in 1 .. (Len(s) - 1) : from(j) \in 1 .. Len(s) /\ from(j) # k /\ r[j] = s[from(j)]
    BY <2>1, <2>2
  <2>4. \A i, j \in 1 .. (Len(s) - 1) : i < j => from(i) < from(j)
    BY <2>2
  <2> HIDE DEF from
  <2>5. InOrder(pairs, r)
    BY <2>2, <2>3, <2>4 DEF InOrder
  <2>6. ASSUME \A a : <<a, a>> \notin pairs, id \in Ids(r) PROVE FALSE
    <3>1. PICK j \in 1 .. (Len(s) - 1) : r[j].id = id
      BY <2>2, <2>6 DEF Ids
    <3>2. from(j) \in 1 .. Len(s) /\ from(j) # k /\ s[from(j)].id = id
      BY <2>3, <3>1
    <3>3. from(j) < k \/ k < from(j)
      BY <2>2, <3>2
    <3>4. QED
      BY <2>1, <2>2, <2>6, <3>2, <3>3 DEF InOrder
  <2>7. QED
    BY <2>5, <2>6 DEF r
<1>3. QED
  BY <1>1, <1>2

LEMMA InOrderReplace ==
    ASSUME NEW pairs, NEW s \in Seq(Ball), NEW id, NEW p \in Players, NEW last,
           InOrder(pairs, s)
    PROVE  InOrder(pairs, ReplaceQueuedScoringBall(s, id, p, last))
BY ReplaceValue DEF InOrder

\* A step of a screen or of the network that leaves the ledger alone: the
\* outboxes lose deliveries, batches are taken from them, and what was posted
\* may stay on its way.
LEMMA ScreenStepInOrder ==
    ASSUME Shape, OrderInv, UNCHANGED <<ledger, version, history.recorded>>,
           \A d \in Devices :
              /\ Ids(queue'[d]) \subseteq Ids(queue[d])
              /\ Ids(flush'[d].batch) \subseteq Pending(d)
              /\ ScreenInOrder(Precedes, queue'[d], flush'[d].batch)
              /\ flush'[d].version =< version,
           \A r \in Late' : r \in Late \/ \E d \in Devices : r \in Abandoned(d)
    PROVE  OrderInv'
<1>1. /\ UNCHANGED Precedes /\ UNCHANGED Recorded /\ RecordedOnce'
      /\ \A d \in Devices : UNCHANGED RecordedOn(d)
  BY SameOrder DEF OrderInv
<1>2. \A d \in Devices : Pending(d)' \subseteq Pending(d)
  BY DEF Pending
<1>3. ASSUME NEW r \in Late', r \notin Late
      PROVE  \E d \in Devices : /\ flush[d].batch # <<>>
                                /\ r.ball = Head(flush[d].batch) /\ r.version = flush[d].version
  <2>1. PICK d \in Devices : r \in Abandoned(d)
    BY <1>3
  <2>2. flush[d].phase = "posting" /\ r.ball = Head(flush[d].batch) /\ r.version = flush[d].version
    BY <2>1 DEF Abandoned
  <2>3. flush[d].batch # <<>>
    BY <2>2 DEF Shape, FlushesShaped, FlushShape
  <2>4. QED
    BY <2>2, <2>3
<1>4. AllRecorded'
  <2>1. \A d \in Devices : Pending(d)' \subseteq RecordedOn(d)'
    BY <1>1, <1>2 DEF OrderInv, AllRecorded
  <2>2. ASSUME NEW r \in Late' PROVE r.ball.id \in Recorded
    <3>1. CASE r \in Late
      BY <3>1 DEF OrderInv, AllRecorded
    <3>2. CASE r \notin Late
      <4>1. PICK d \in Devices : flush[d].batch # <<>> /\ r.ball = Head(flush[d].batch)
        BY <1>3, <3>2
      <4>2. r.ball.id \in Pending(d)
        <5>1. flush[d].batch \in Seq(Ball)
          BY DEF Shape, FlushesShaped, FlushType
        <5>2. QED
          BY <4>1, <5>1, IdsTail DEF Pending
      <4>3. QED
        BY <4>2, PrecedesFacts DEF OrderInv, AllRecorded
    <3>3. QED
      BY <3>1, <3>2
  <2>3. QED
    BY <1>1, <2>1, <2>2 DEF OrderInv, AllRecorded
<1>5. ScreensInOrder'
  BY <1>1 DEF ScreensInOrder
<1>6. LateInOrder'
  <2> SUFFICES ASSUME NEW r \in Late', NEW e \in Devices, NEW x \in Pending(e)'
               PROVE  <<x, r.ball.id>> \notin Precedes
    BY <1>1 DEF LateInOrder
  <2>1. x \in Pending(e)
    BY <1>2
  <2>2. CASE r \in Late
    BY <2>1, <2>2 DEF OrderInv, LateInOrder
  <2>3. CASE r \notin Late
    <3>1. PICK d \in Devices : flush[d].batch # <<>> /\ r.ball = Head(flush[d].batch)
      BY <1>3, <2>3
    <3>2. <<x, Head(flush[d].batch).id>> \notin Precedes
      BY <2>1, <3>1, HeadIsFirst
    <3>3. QED
      BY <3>1, <3>2
  <2>4. QED
    BY <2>2, <2>3
<1>7. NothingOvertaken'
  BY <1>1, <1>2 DEF OrderInv, NothingOvertaken
<1>8. LateNotOvertaken'
  <2>1. ASSUME NEW r \in Late'
        PROVE  /\ r.version =< version
               /\ r.version = version /\ r.ball.id \notin Ids(ledger) =>
                     \A e \in Ids(ledger) : <<r.ball.id, e>> \notin Precedes
    <3>1. CASE r \in Late
      BY <3>1 DEF OrderInv, LateNotOvertaken
    <3>2. CASE r \notin Late
      <4>1. PICK d \in Devices : /\ flush[d].batch # <<>>
                                 /\ r.ball = Head(flush[d].batch) /\ r.version = flush[d].version
        BY <1>3, <3>2
      <4>2. r.ball.id \in Pending(d)
        <5>1. flush[d].batch \in Seq(Ball)
          BY DEF Shape, FlushesShaped, FlushType
        <5>2. QED
          BY <4>1, <5>1, IdsTail DEF Pending
      <4>3. r.version =< version
        BY <4>1 DEF OrderInv, LateNotOvertaken
      <4>4. QED
        BY <4>2, <4>3 DEF OrderInv, NothingOvertaken
    <3>3. QED
      BY <3>1, <3>2
  <2>2. QED
    BY <1>1, <2>1 DEF LateNotOvertaken
<1>9. LedgerInOrder'
  BY <1>1 DEF OrderInv, LedgerInOrder
<1>10. QED
  BY <1>1, <1>4, <1>5, <1>6, <1>7, <1>8, <1>9 DEF OrderInv

\* The server accepts a delivery that precedes what is pending and has not
\* been overtaken.
LEMMA CreateInOrder ==
    ASSUME Shape, OrderInv, NEW ball, ball \in Ball, CreateLiveBall(ball),
           ball.id \notin Ids(ledger), ball.id \in Recorded,
           UNCHANGED queue, wire' \subseteq wire,
           \A d \in Devices :
              flush'[d].batch = flush[d].batch /\ flush'[d].version =< version + 1,
           \A e \in Ids(ledger) : <<ball.id, e>> \notin Precedes,
           \A d \in Devices : \A x \in Pending(d) : <<x, ball.id>> \notin Precedes
    PROVE  OrderInv'
<1>1. version \in Nat /\ ledger \in Seq(Ball) /\ history \in HistoryType
  BY DEF Shape, ServerTyped
<1>2. /\ version' = version + 1 /\ ledger' = Append(ledger, ball)
      /\ history'.recorded = history.recorded
  BY <1>1 DEF CreateLiveBall, HistoryType
<1>3. /\ UNCHANGED Precedes /\ UNCHANGED Recorded /\ RecordedOnce'
      /\ \A d \in Devices : UNCHANGED RecordedOn(d)
  BY <1>2, SameOrder DEF OrderInv
<1>4. \A d \in Devices : Pending(d)' = Pending(d)
  BY DEF Pending
<1>5. Late' \subseteq Late
  BY DEF Late
<1>6. Ids(ledger') = Ids(ledger) \cup {ball.id}
  BY <1>1, <1>2, IdsAppend
<1>7. AllRecorded'
  BY <1>3, <1>4, <1>5, <1>6 DEF OrderInv, AllRecorded
<1>8. ScreensInOrder'
  BY <1>3 DEF OrderInv, ScreensInOrder
<1>9. LateInOrder'
  BY <1>3, <1>4, <1>5 DEF OrderInv, LateInOrder
<1>10. NothingOvertaken'
  BY <1>3, <1>4, <1>6 DEF OrderInv, NothingOvertaken
<1>11. LateNotOvertaken'
  <2>1. ASSUME NEW r \in Late' PROVE r.version =< version' /\ r.version # version'
    <3>1. r.version =< version /\ r.version \in Nat
      BY <1>5 DEF OrderInv, LateNotOvertaken, Shape, WireShaped, Late, BallRequest, UndoRequest
    <3>2. QED
      BY <1>1, <1>2, <3>1
  <2>2. QED
    BY <1>2, <2>1 DEF LateNotOvertaken
<1>12. LedgerInOrder'
  <2>1. /\ Len(ledger) \in Nat /\ DOMAIN ledger = 1 .. Len(ledger)
        /\ DOMAIN ledger' = 1 .. Len(ledger) + 1
        /\ \A i \in 1 .. Len(ledger) : ledger'[i] = ledger[i]
        /\ ledger'[Len(ledger) + 1] = ball
    BY <1>1, <1>2, AppendValue
  <2>2. <<ball.id, ball.id>> \notin Precedes
    BY PrecedesFacts DEF OrderInv
  <2>3. \A k \in 1 .. Len(ledger) : ledger[k].id \in Ids(ledger)
    BY <2>1 DEF Ids
  <2> SUFFICES ASSUME NEW k \in 1 .. Len(ledger) + 1, NEW l \in 1 .. Len(ledger) + 1,
                      <<ledger'[k].id, ledger'[l].id>> \in Precedes
               PROVE  k < l
    BY <1>3, <2>1 DEF LedgerInOrder
  <2>4. CASE k \in 1 .. Len(ledger) /\ l \in 1 .. Len(ledger)
    BY <2>1, <2>4 DEF OrderInv, LedgerInOrder
  <2>5. CASE k = Len(ledger) + 1 /\ l = Len(ledger) + 1
    BY <2>1, <2>2, <2>5
  <2>6. CASE k = Len(ledger) + 1 /\ l \in 1 .. Len(ledger)
    <3>1. ledger'[k].id = ball.id /\ ledger'[l].id \in Ids(ledger)
      BY <2>1, <2>3, <2>6
    <3>2. QED
      BY <3>1
  <2>7. CASE k \in 1 .. Len(ledger) /\ l = Len(ledger) + 1
    BY <2>1, <2>7
  <2>8. QED
    BY <2>1, <2>4, <2>5, <2>6, <2>7
<1>13. QED
  BY <1>3, <1>7, <1>8, <1>9, <1>10, <1>11, <1>12 DEF OrderInv

\* An undo takes the last delivery of the ledger, which precedes none that
\* stays.
LEMMA DeleteInOrder ==
    ASSUME Shape, OrderInv, ledger # <<>>, DeleteLastLiveBall,
           UNCHANGED <<queue, flush>>, wire' \subseteq wire
    PROVE  OrderInv'
<1>1. version \in Nat /\ ledger \in Seq(Ball) /\ history \in HistoryType
  BY DEF Shape, ServerTyped
<1>2. /\ version' = version + 1 /\ ledger' = Front(ledger)
      /\ history'.recorded = history.recorded
  BY <1>1 DEF DeleteLastLiveBall, HistoryType
<1>3. /\ UNCHANGED Precedes /\ UNCHANGED Recorded /\ RecordedOnce'
      /\ \A d \in Devices : UNCHANGED RecordedOn(d)
  BY <1>2, SameOrder DEF OrderInv
<1>4. \A d \in Devices : Pending(d)' = Pending(d)
  BY DEF Pending
<1>5. Late' \subseteq Late
  BY DEF Late
<1> DEFINE last == Last(ledger).id
<1>6. Ids(ledger) = Ids(ledger') \cup {last}
  BY <1>1, <1>2, IdsFront
<1>7. /\ Len(ledger) \in 1 .. Len(ledger) /\ Len(ledger) \in Nat
      /\ DOMAIN ledger = 1 .. Len(ledger) /\ DOMAIN ledger' = 1 .. (Len(ledger) - 1)
      /\ last = ledger[Len(ledger)].id
      /\ \A i \in 1 .. (Len(ledger) - 1) : ledger'[i] = ledger[i]
  BY <1>1, <1>2, FrontValue
<1> HIDE DEF last
<1>8. \A e \in Ids(ledger') : <<last, e>> \notin Precedes
  <2> SUFFICES ASSUME NEW e \in Ids(ledger'), <<last, e>> \in Precedes PROVE FALSE
    OBVIOUS
  <2>1. PICK i \in 1 .. (Len(ledger) - 1) : e = ledger'[i].id
    BY <1>7 DEF Ids
  <2>2. i \in DOMAIN ledger /\ Len(ledger) \in DOMAIN ledger /\ e = ledger[i].id
    BY <1>7, <2>1
  <2>3. <<ledger[Len(ledger)].id, ledger[i].id>> \in Precedes
    BY <1>7, <2>2
  <2>4. Len(ledger) < i
    BY <2>2, <2>3 DEF OrderInv, LedgerInOrder
  <2>5. QED
    BY <1>7, <2>1, <2>4
<1>9. AllRecorded'
  BY <1>3, <1>4, <1>5, <1>6 DEF OrderInv, AllRecorded
<1>10. ScreensInOrder'
  BY <1>3 DEF OrderInv, ScreensInOrder
<1>11. LateInOrder'
  BY <1>3, <1>4, <1>5 DEF OrderInv, LateInOrder
<1>12. NothingOvertaken'
  BY <1>3, <1>4, <1>6, <1>8 DEF OrderInv, NothingOvertaken
<1>13. LateNotOvertaken'
  <2>1. ASSUME NEW r \in Late' PROVE r.version =< version' /\ r.version # version'
    <3>1. r.version =< version /\ r.version \in Nat
      BY <1>5 DEF OrderInv, LateNotOvertaken, Shape, WireShaped, Late, BallRequest, UndoRequest
    <3>2. QED
      BY <1>1, <1>2, <3>1
  <2>2. \A d \in Devices : flush'[d].version =< version'
    <3>1. \A d \in Devices : flush[d].version =< version /\ flush[d].version \in Nat
      BY DEF OrderInv, LateNotOvertaken, Shape, FlushesShaped, FlushType
    <3>2. QED
      BY <1>1, <1>2, <3>1
  <2>3. QED
    BY <2>1, <2>2 DEF LateNotOvertaken
<1>14. LedgerInOrder'
  <2> SUFFICES ASSUME NEW k \in 1 .. (Len(ledger) - 1), NEW l \in 1 .. (Len(ledger) - 1),
                      <<ledger'[k].id, ledger'[l].id>> \in Precedes
               PROVE  k < l
    BY <1>3, <1>7 DEF LedgerInOrder
  <2>1. k \in DOMAIN ledger /\ l \in DOMAIN ledger
    BY <1>7
  <2>2. <<ledger[k].id, ledger[l].id>> \in Precedes
    BY <1>7
  <2>3. QED
    BY <2>1, <2>2 DEF OrderInv, LedgerInOrder
<1>15. QED
  BY <1>3, <1>9, <1>10, <1>11, <1>12, <1>13, <1>14 DEF OrderInv

\* A new delivery comes after the earlier ones of its screen, and before none.
LEMMA RecordExtends ==
    ASSUME Shape, RecordedOnce, NEW d \in Devices, NEW id \in BallIds, id \notin Recorded,
           history'.recorded = Append(history.recorded, [id |-> id, device |-> d])
    PROVE  /\ RecordedOnce'
           /\ Recorded' = Recorded \cup {id}
           /\ \A e \in Devices : RecordedOn(e) \subseteq RecordedOn(e)'
           /\ id \in RecordedOn(d)'
           /\ \A a, b : <<a, b>> \in Precedes' <=>
                 <<a, b>> \in Precedes \/ (a \in RecordedOn(d) /\ b = id)
<1> DEFINE rs == history.recorded
           new == history'.recorded
           r == [id |-> id, device |-> d]
           n == Len(rs)
<1>1. rs \in Seq(RecordType) /\ r \in RecordType /\ r.id = id /\ r.device = d
  BY RecordedValue DEF RecordType
<1>2. /\ n \in Nat /\ DOMAIN rs = 1 .. n
      /\ \A i \in 1 .. n : rs[i].id \in BallIds
  BY RecordedValue
<1>3. new = Append(rs, r)
  OBVIOUS
<1>4. \A i \in DOMAIN rs : rs[i].id # id
  BY DEF Recorded
<1>5. \A i, j \in DOMAIN rs : rs[i].id = rs[j].id => i = j
  BY DEF RecordedOnce
<1>6. \A a, b : <<a, b>> \in Precedes <=>
          \E i, j \in 1 .. n :
              i < j /\ rs[i].device = rs[j].device /\ a = rs[i].id /\ b = rs[j].id
  BY <1>2 DEF Precedes
<1>7. \A a : \A e : a \in RecordedOn(e) <=> \E i \in 1 .. n : rs[i].id = a /\ rs[i].device = e
  BY <1>2 DEF RecordedOn
<1>8. \A a : a \in Recorded <=> \E i \in 1 .. n : rs[i].id = a
  BY <1>2 DEF Recorded
<1>9. \A a : a \in Recorded' <=> \E i \in DOMAIN new : new[i].id = a
  BY DEF Recorded
<1>10. RecordedOnce' <=> \A i, j \in DOMAIN new : new[i].id = new[j].id => i = j
  BY DEF RecordedOnce
<1>11. \A a, b : <<a, b>> \in Precedes' <=>
          /\ a \in BallIds /\ b \in BallIds
          /\ \E i, j \in DOMAIN new :
              i < j /\ new[i].device = new[j].device /\ a = new[i].id /\ b = new[j].id
  BY DEF Precedes
<1>12. \A e \in Devices : \A a : a \in RecordedOn(e)' <=>
          a \in BallIds /\ \E i \in DOMAIN new : new[i].id = a /\ new[i].device = e
  BY DEF RecordedOn
<1> HIDE DEF rs, new, r, n
<1>13. /\ DOMAIN new = 1 .. n + 1
       /\ \A i \in 1 .. n : new[i] = rs[i]
       /\ new[n + 1] = r
  BY <1>1, <1>3, AppendValue DEF n
<1>14. \A i \in DOMAIN new : i \in 1 .. n \/ i = n + 1
  BY <1>2, <1>13
<1>15. \A i \in 1 .. n : i \in DOMAIN new /\ i < n + 1
  BY <1>2, <1>13
<1>16. n + 1 \in DOMAIN new /\ ~ (n + 1 < n + 1) /\ \A i \in 1 .. n : ~ (n + 1 < i)
  BY <1>2, <1>13
<1>17. RecordedOnce'
  BY <1>1, <1>2, <1>4, <1>5, <1>10, <1>13, <1>14
<1>18. Recorded' = Recorded \cup {id}
  <2>1. ASSUME NEW a \in Recorded' PROVE a \in Recorded \cup {id}
    BY <1>1, <1>8, <1>9, <1>13, <1>14
  <2>2. ASSUME NEW a \in Recorded PROVE a \in Recorded'
    <3>1. PICK i \in 1 .. n : rs[i].id = a
      BY <1>8
    <3>2. i \in DOMAIN new /\ new[i].id = a
      BY <1>13, <1>15, <3>1
    <3>3. QED
      BY <1>9, <3>2
  <2>3. id \in Recorded'
    BY <1>1, <1>9, <1>13, <1>16
  <2>4. QED
    BY <2>1, <2>2, <2>3
<1>19. id \in RecordedOn(d)' /\ \A e \in Devices : RecordedOn(e) \subseteq RecordedOn(e)'
  <2>1. id \in RecordedOn(d)'
    BY <1>1, <1>12, <1>13, <1>16
  <2>2. ASSUME NEW e \in Devices, NEW a \in RecordedOn(e) PROVE a \in RecordedOn(e)'
    <3>1. PICK i \in 1 .. n : rs[i].id = a /\ rs[i].device = e
      BY <1>7
    <3>2. i \in DOMAIN new /\ new[i].id = a /\ new[i].device = e /\ a \in BallIds
      BY <1>2, <1>13, <1>15, <3>1
    <3>3. QED
      BY <1>12, <3>2
  <2>3. QED
    BY <2>1, <2>2
<1>20. ASSUME NEW a, NEW b, <<a, b>> \in Precedes'
       PROVE  <<a, b>> \in Precedes \/ (a \in RecordedOn(d) /\ b = id)
  <2>1. PICK i, j \in DOMAIN new :
           i < j /\ new[i].device = new[j].device /\ a = new[i].id /\ b = new[j].id
    BY <1>11, <1>20
  <2>2. i \in 1 .. n
    BY <1>14, <1>16, <2>1
  <2>3. CASE j \in 1 .. n
    BY <1>6, <1>13, <2>1, <2>2, <2>3
  <2>4. CASE j = n + 1
    BY <1>1, <1>7, <1>13, <2>1, <2>2, <2>4
  <2>5. QED
    BY <1>14, <2>3, <2>4
<1>21. ASSUME NEW a, NEW b, <<a, b>> \in Precedes PROVE <<a, b>> \in Precedes'
  <2>1. PICK i, j \in 1 .. n :
           i < j /\ rs[i].device = rs[j].device /\ a = rs[i].id /\ b = rs[j].id
    BY <1>6, <1>21
  <2>2. QED
    BY <1>2, <1>11, <1>13, <1>15, <2>1
<1>22. ASSUME NEW a, a \in RecordedOn(d) PROVE <<a, id>> \in Precedes'
  <2>1. PICK i \in 1 .. n : rs[i].id = a /\ rs[i].device = d
    BY <1>7, <1>22
  <2>2. QED
    BY <1>1, <1>2, <1>11, <1>13, <1>15, <1>16, <2>1
<1>23. QED
  BY <1>17, <1>18, <1>19, <1>20, <1>21, <1>22

\* Recording a delivery puts it behind all that its screen has pending.
LEMMA RecordInOrder ==
    ASSUME OwnBrowsers, Shape, KeepInv, OrderInv,
           NEW d \in Devices, NEW id \in BallIds, NEW p \in Players, RecordBall(d, id, p)
    PROVE  OrderInv'
<1> DEFINE ball == [id |-> id, player |-> p]
           q == EnqueueScoringBall(queue[d], ball)
<1>1. /\ RecordedOnce'
      /\ Recorded' = Recorded \cup {id}
      /\ \A e \in Devices : RecordedOn(e) \subseteq RecordedOn(e)'
      /\ id \in RecordedOn(d)'
      /\ \A a, b : <<a, b>> \in Precedes' <=>
            <<a, b>> \in Precedes \/ (a \in RecordedOn(d) /\ b = id)
  <2>1. id \notin Recorded
    BY DEF RecordBall
  <2>2. history'.recorded = Append(history.recorded, [id |-> id, device |-> d])
    BY RecordKeeps
  <2>3. QED
    BY <2>1, <2>2, RecordExtends DEF OrderInv
<1>2. id \notin Recorded /\ UNCHANGED <<ledger, version, flush, wire>> /\ SaveOutbox(d, q)
  BY DEF RecordBall, serverVars
<1>3. /\ \A e \in Devices : Pending(e) \subseteq Recorded
      /\ \A e \in Devices : Pending(e) \subseteq RecordedOn(e)
      /\ \A e \in Ids(ledger) : e \in Recorded
      /\ \A r \in Late : r.ball.id \in Recorded
  BY PrecedesFacts DEF OrderInv, AllRecorded
<1>4. queue[d] \in Seq(Ball) /\ ball \in Ball /\ ball.id = id
  BY DEF Shape, QueuesTyped, Ball
<1>5. id \notin Ids(queue[d])
  BY <1>2, <1>3 DEF Pending
<1>6. q = Append(queue[d], ball)
  BY <1>4, <1>5 DEF EnqueueScoringBall
<1>7. Ids(q) = Ids(queue[d]) \cup {id}
  BY <1>4, <1>6, IdsAppend
<1>8. /\ queue'[d] = q /\ \A e \in Devices : e # d => queue'[e] = queue[e]
  BY <1>2, SavedBy DEF KeepInv
<1>9. /\ Late' = Late /\ Ids(ledger') = Ids(ledger)
      /\ Pending(d)' = Pending(d) \cup {id}
      /\ \A e \in Devices : e # d => Pending(e)' = Pending(e)
  BY <1>2, <1>7, <1>8 DEF Pending, Late
<1>10. AllRecorded'
  <2>1. \A e \in Devices : Pending(e)' \subseteq RecordedOn(e)'
    BY <1>1, <1>3, <1>9
  <2>2. QED
    BY <1>1, <1>3, <1>9, <2>1 DEF AllRecorded
<1>11. ASSUME NEW s \in Seq(Ball), InOrder(Precedes, s) PROVE InOrder(Precedes', s)
  BY <1>1, <1>11 DEF InOrder
<1>12. \A x, e : e # id => (<<x, e>> \in Precedes' <=> <<x, e>> \in Precedes)
  BY <1>1
<1>13. \A e \in Devices : /\ flush[e].batch \in Seq(Ball) /\ queue[e] \in Seq(Ball)
                          /\ ScreenInOrder(Precedes, queue[e], flush[e].batch)
                          /\ id \notin Ids(flush[e].batch)
  BY <1>2, <1>3 DEF Shape, FlushesShaped, FlushType, QueuesTyped, OrderInv, ScreensInOrder, Pending
<1>14. InOrder(Precedes', q)
  <2> DEFINE s == queue[d]
  <2>1. /\ DOMAIN q = 1 .. Len(s) + 1 /\ DOMAIN s = 1 .. Len(s) /\ Len(s) \in Nat
        /\ \A i \in 1 .. Len(s) : q[i] = s[i]
        /\ q[Len(s) + 1] = ball
    <3> HIDE DEF ball, q
    <3>1. QED
      BY <1>4, <1>6, AppendValue
  <2>2. InOrder(Precedes', s)
    BY <1>11, <1>13 DEF ScreenInOrder
  <2>3. \A i \in 1 .. Len(s) : s[i].id \in RecordedOn(d)
    BY <1>3, <2>1 DEF Ids, Pending
  <2> HIDE DEF s, q
  <2> SUFFICES ASSUME NEW i \in 1 .. Len(s) + 1, NEW j \in 1 .. Len(s) + 1, i < j
               PROVE  <<q[i].id, q[j].id>> \in Precedes'
    BY <2>1 DEF InOrder
  <2>4. i \in 1 .. Len(s) /\ (j \in 1 .. Len(s) \/ j = Len(s) + 1)
    BY <2>1
  <2>5. CASE j \in 1 .. Len(s)
    BY <2>1, <2>2, <2>4, <2>5 DEF InOrder
  <2>6. CASE j = Len(s) + 1
    BY <1>1, <1>4, <2>1, <2>3, <2>4, <2>6
  <2>7. QED
    BY <2>4, <2>5, <2>6
<1> HIDE DEF ball, q
<1>15. ScreensInOrder'
  <2> SUFFICES ASSUME NEW e \in Devices PROVE ScreenInOrder(Precedes', queue'[e], flush[e].batch)
    BY <1>2 DEF ScreensInOrder
  <2>1. InOrder(Precedes', flush[e].batch)
    BY <1>11, <1>13 DEF ScreenInOrder
  <2>2. InOrder(Precedes', queue'[e])
    BY <1>8, <1>11, <1>13, <1>14 DEF ScreenInOrder
  <2>3. ASSUME NEW x \in Ids(queue'[e]), NEW y \in Ids(flush[e].batch), <<x, y>> \in Precedes'
        PROVE  x \in Ids(flush[e].batch)
    <3>1. y # id
      BY <1>13
    <3>2. <<x, y>> \in Precedes
      BY <1>12, <2>3, <3>1
    <3>3. x # id
      BY <1>2, <3>2, PrecedesFacts DEF OrderInv
    <3>4. x \in Ids(queue[e])
      BY <1>7, <1>8, <3>3
    <3>5. QED
      BY <1>13, <3>2, <3>4 DEF ScreenInOrder
  <2>4. QED
    BY <2>1, <2>2, <2>3 DEF ScreenInOrder
<1>16. \A x : <<id, x>> \notin Precedes'
  <2>1. id \notin RecordedOn(d)
    BY <1>2, PrecedesFacts DEF OrderInv
  <2>2. \A x : <<id, x>> \notin Precedes
    BY <1>2, PrecedesFacts DEF OrderInv
  <2>3. QED
    BY <1>1, <2>1, <2>2
<1>17. LateInOrder'
  <2> SUFFICES ASSUME NEW r \in Late, NEW e \in Devices, NEW x \in Pending(e)'
               PROVE  <<x, r.ball.id>> \notin Precedes'
    BY <1>9 DEF LateInOrder
  <2>1. r.ball.id # id
    BY <1>2, <1>3
  <2>2. CASE x = id
    BY <1>16, <2>2
  <2>3. CASE x # id
    <3>1. x \in Pending(e)
      BY <1>9, <2>3
    <3>2. <<x, r.ball.id>> \notin Precedes
      BY <3>1 DEF OrderInv, LateInOrder
    <3>3. QED
      BY <1>12, <2>1, <3>2
  <2>4. QED
    BY <2>2, <2>3
<1>18. NothingOvertaken'
  <2> SUFFICES ASSUME NEW e \in Devices, NEW x \in Pending(e)', x \notin Ids(ledger), NEW y \in Ids(ledger)
               PROVE  <<x, y>> \notin Precedes'
    BY <1>9 DEF NothingOvertaken
  <2>1. y # id
    BY <1>2, <1>3
  <2>2. CASE x = id
    BY <1>16, <2>2
  <2>3. CASE x # id
    <3>1. x \in Pending(e)
      BY <1>9, <2>3
    <3>2. <<x, y>> \notin Precedes
      BY <3>1 DEF OrderInv, NothingOvertaken
    <3>3. QED
      BY <1>12, <2>1, <3>2
  <2>4. QED
    BY <2>2, <2>3
<1>19. \A y \in Ids(ledger) : y # id
  BY <1>2, <1>3
<1>20. LateNotOvertaken'
  BY <1>2, <1>9, <1>12, <1>19 DEF OrderInv, LateNotOvertaken
<1>21. LedgerInOrder'
  <2>1. \A l \in DOMAIN ledger : ledger[l].id # id
    BY <1>19 DEF Ids
  <2>2. QED
    BY <1>2, <1>12, <2>1 DEF OrderInv, LedgerInOrder
<1>22. QED
  BY <1>1, <1>10, <1>15, <1>17, <1>18, <1>20, <1>21 DEF OrderInv

\* A step that neither an outbox nor a flush takes part in.
LEMMA QuietInOrder ==
    ASSUME Shape, OrderInv, UNCHANGED <<ledger, version, history, queue, flush>>, Late' \subseteq Late
    PROVE  OrderInv'
BY ScreenStepInOrder DEF OrderInv, ScreensInOrder, LateNotOvertaken, Pending

\* A flush that ends leaves the outbox in order.
LEMMA EmptyBatchInOrder ==
    ASSUME NEW pairs, NEW s, InOrder(pairs, s)
    PROVE  ScreenInOrder(pairs, s, <<>>)
BY DEF ScreenInOrder, InOrder, Ids

\* One screen's flush changes, its outbox at most loses deliveries.
LEMMA FlushInOrder ==
    ASSUME Shape, OrderInv, UNCHANGED <<ledger, version, history>>, NEW d \in Devices, NEW f,
           flush' = [flush EXCEPT ![d] = f],
           \A e \in Devices : e # d => queue'[e] = queue[e],
           Ids(queue'[d]) \subseteq Ids(queue[d]),
           Ids(f.batch) \subseteq Pending(d),
           ScreenInOrder(Precedes, queue'[d], f.batch),
           f.version =< version,
           wire' \subseteq wire \cup Abandoned(d)
    PROVE  OrderInv'
<1>1. flush'[d] = f /\ \A e \in Devices : e # d => flush'[e] = flush[e]
  BY FlushPhases
<1>2. ASSUME NEW e \in Devices
      PROVE  /\ Ids(queue'[e]) \subseteq Ids(queue[e])
             /\ Ids(flush'[e].batch) \subseteq Pending(e)
             /\ ScreenInOrder(Precedes, queue'[e], flush'[e].batch)
             /\ flush'[e].version =< version
  <2>1. CASE e = d
    BY <1>1, <2>1
  <2>2. CASE e # d
    BY <1>1, <2>2 DEF OrderInv, ScreensInOrder, LateNotOvertaken, Pending
  <2>3. QED
    BY <2>1, <2>2
<1>3. \A r \in Late' : r \in Late \/ r \in Abandoned(d)
  BY DEF Late
<1>4. QED
  BY <1>2, <1>3, ScreenStepInOrder

LEMMA FlushEndsInOrder ==
    ASSUME Shape, OrderInv, UNCHANGED <<ledger, version, history, queue>>, NEW d \in Devices,
           flush' = [flush EXCEPT ![d] = NoFlush], wire' \subseteq wire \cup Abandoned(d)
    PROVE  OrderInv'
<1>1. InOrder(Precedes, queue[d])
  BY DEF OrderInv, ScreensInOrder, ScreenInOrder
<1>2. ScreenInOrder(Precedes, queue[d], <<>>)
  BY <1>1, EmptyBatchInOrder
<1>3. NoFlush.batch = <<>> /\ NoFlush.version = 0 /\ Ids(<<>>) = {} /\ 0 =< version
  BY DEF NoFlush, Ids, Shape, ServerTyped
<1>4. QED
  BY <1>2, <1>3, FlushInOrder

\* The head of the batch is accepted: it comes before all that is pending.
LEMMA PostInOrder ==
    ASSUME Shape, OrderInv, NEW d \in Devices, ServerHandlesPost(d)
    PROVE  OrderInv'
<1> DEFINE ball == Head(flush[d].batch)
<1>1. /\ flush[d] \in FlushType /\ flush \in [Devices -> FlushType]
      /\ flush[d].batch # <<>> /\ flush[d].batch \in Seq(Ball)
  BY DEF ServerHandlesPost, Shape, FlushesShaped, FlushShape, FlushType
<1>2. ball \in Ball /\ ball.id \in Pending(d)
  BY <1>1, TailValue, IdsTail DEF Pending
<1>3. \A e \in Devices : \A x \in Pending(e) : <<x, ball.id>> \notin Precedes
  BY <1>1, HeadIsFirst
<1>4. /\ UNCHANGED <<queue, wire>>
      /\ \/ /\ ball.id \notin Ids(ledger)
            /\ CreateLiveBall(ball)
            /\ flush' = [flush EXCEPT ![d].phase = "accepted", ![d].version = version + 1]
         \/ /\ flush' = [flush EXCEPT ![d].phase = "accepted", ![d].version = version]
            /\ UNCHANGED <<serverVars, history>>
         \/ /\ flush' = [flush EXCEPT ![d].phase = "refused"]
            /\ UNCHANGED <<serverVars, history>>
  BY DEF ServerHandlesPost, IsNewBall, Moved
<1> HIDE DEF ball
<1>5. version \in Nat /\ \A e \in Devices : flush[e].version \in Nat /\ flush[e].version =< version
  BY DEF Shape, ServerTyped, FlushesShaped, FlushType, OrderInv, LateNotOvertaken
<1>6. CASE /\ ball.id \notin Ids(ledger)
           /\ CreateLiveBall(ball)
           /\ flush' = [flush EXCEPT ![d].phase = "accepted", ![d].version = version + 1]
  <2>1. \A e \in Devices : flush'[e].batch = flush[e].batch /\ flush'[e].version =< version + 1
    BY <1>1, <1>5, <1>6 DEF FlushType
  <2>2. ball.id \in Recorded
    BY <1>2, PrecedesFacts DEF OrderInv, AllRecorded
  <2>3. \A e \in Ids(ledger) : <<ball.id, e>> \notin Precedes
    BY <1>2, <1>6 DEF OrderInv, NothingOvertaken
  <2>4. QED
    BY <1>2, <1>3, <1>4, <1>6, <2>1, <2>2, <2>3, CreateInOrder
<1>7. ASSUME UNCHANGED <<serverVars, history>>,
             \/ flush' = [flush EXCEPT ![d].phase = "accepted", ![d].version = version]
             \/ flush' = [flush EXCEPT ![d].phase = "refused"]
      PROVE  OrderInv'
  <2>1. \A e \in Devices : flush'[e].batch = flush[e].batch /\ flush'[e].version =< version
    <3>1. CASE flush' = [flush EXCEPT ![d].phase = "accepted", ![d].version = version]
      BY <1>1, <1>5, <3>1 DEF FlushType
    <3>2. CASE flush' = [flush EXCEPT ![d].phase = "refused"]
      BY <1>1, <1>5, <3>2 DEF FlushType
    <3>3. QED
      BY <1>7, <3>1, <3>2
  <2>2. \A e \in Devices : ScreenInOrder(Precedes, queue[e], flush[e].batch)
    BY DEF OrderInv, ScreensInOrder
  <2>3. Late' = Late /\ UNCHANGED <<ledger, version, history.recorded>>
    BY <1>4, <1>7 DEF Late, serverVars
  <2>4. QED
    BY <1>4, <2>1, <2>2, <2>3, ScreenStepInOrder DEF Pending
<1>8. QED
  BY <1>4, <1>6, <1>7

\* The acknowledged delivery leaves the outbox and the batch together.
LEMMA AcknowledgeInOrder ==
    ASSUME OwnBrowsers, Shape, KeepInv, OrderInv, NEW d \in Devices, BallAcknowledged(d)
    PROVE  OrderInv'
<1> DEFINE batch == flush[d].batch
           id == Head(batch).id
           rest == Tail(batch)
           entries == queue[d]
           q == RemoveScoringBall(entries, id)
           f == IF rest = <<>> THEN NoFlush ELSE [flush[d] EXCEPT !.phase = "posting", !.batch = rest]
<1>1. /\ flush[d] \in FlushType /\ batch # <<>> /\ batch \in Seq(Ball) /\ entries \in Seq(Ball)
  BY DEF BallAcknowledged, Shape, FlushesShaped, FlushShape, FlushType, QueuesTyped
<1>2. ScreenInOrder(Precedes, entries, batch)
  BY DEF OrderInv, ScreensInOrder
<1>3. /\ SaveOutbox(d, q) /\ UNCHANGED <<serverVars, history, wire>>
      /\ flush' = [flush EXCEPT ![d] = f]
  BY DEF BallAcknowledged
<1>4. f.batch = rest /\ f.version =< version
  <2>1. flush[d].version =< version /\ version \in Nat
    BY DEF OrderInv, LateNotOvertaken, Shape, ServerTyped
  <2>2. NoFlush.batch = <<>> /\ NoFlush.version = 0
    BY DEF NoFlush
  <2> DEFINE g == [flush[d] EXCEPT !.phase = "posting", !.batch = rest]
  <2>3. g.batch = rest /\ g.version = flush[d].version
    BY <1>1 DEF FlushType
  <2>4. f = IF rest = <<>> THEN NoFlush ELSE g
    OBVIOUS
  <2> HIDE DEF f, g, rest, batch
  <2>5. QED
    BY <2>1, <2>2, <2>3, <2>4
<1>5. queue'[d] = q /\ \A e \in Devices : e # d => queue'[e] = queue[e]
  BY <1>3, SavedBy DEF KeepInv
<1>6. Ids(entries) \subseteq Pending(d) /\ Ids(batch) \subseteq Pending(d)
  BY DEF Pending
<1> HIDE DEF batch, f, entries, q, rest
<1>7. Ids(q) \subseteq Ids(entries)
  BY <1>1, RemoveIds DEF q
<1>8. \A a : <<a, a>> \notin Precedes
  BY PrecedesFacts DEF OrderInv
<1>9. InOrder(Precedes, q) /\ id \notin Ids(q)
  BY <1>1, <1>2, <1>8, InOrderRemove DEF q, ScreenInOrder
<1>10. Ids(batch) = Ids(rest) \cup {id}
  BY <1>1, IdsTail DEF rest
<1>11. InOrder(Precedes, rest)
  BY <1>1, <1>2, InOrderTail DEF rest, ScreenInOrder
<1>12. ScreenInOrder(Precedes, q, rest)
  BY <1>2, <1>7, <1>9, <1>10, <1>11 DEF ScreenInOrder
<1>13. UNCHANGED <<ledger, version, history>>
  BY <1>3 DEF serverVars
<1>14. Ids(q) \subseteq Ids(queue[d])
  BY <1>7 DEF entries
<1>15. Ids(rest) \subseteq Pending(d)
  BY <1>6, <1>10
<1>16. QED
  BY <1>3, <1>4, <1>5, <1>12, <1>13, <1>14, <1>15, FlushInOrder

LEMMA FlushStepInOrder ==
    ASSUME OwnBrowsers, Shape, KeepInv, OrderInv, NEW d \in Devices, FlushStep(d)
    PROVE  OrderInv'
<1>1. /\ flush[d] \in FlushType /\ FlushShape(d, flush[d]) /\ flush[d].version =< version
      /\ version \in Nat /\ ScreenInOrder(Precedes, queue[d], flush[d].batch)
  BY DEF Shape, FlushesShaped, ServerTyped, OrderInv, LateNotOvertaken, ScreensInOrder
<1>2. CASE StartFlush(d)
  <2> DEFINE f == [flush[d] EXCEPT !.phase = "loading", !.token = token[d]]
  <2>1. f.batch = flush[d].batch /\ f.version = flush[d].version
    BY <1>1 DEF FlushType
  <2>2. flush' = [flush EXCEPT ![d] = f] /\ UNCHANGED <<ledger, version, history, queue, wire>>
    BY <1>2 DEF StartFlush, serverVars, Shape, FlushesShaped
  <2> HIDE DEF f
  <2>3. QED
    BY <1>1, <2>1, <2>2, FlushInOrder DEF Pending
<1>3. CASE FlushLoaded(d)
  <2>1. UNCHANGED <<ledger, version, history, queue, wire>>
    BY <1>3 DEF FlushLoaded, serverVars
  <2>2. CASE queue[d] = <<>>
    <3>1. flush' = [flush EXCEPT ![d] = NoFlush]
      BY <1>3, <2>2 DEF FlushLoaded
    <3>2. QED
      BY <2>1, <3>1, FlushEndsInOrder
  <2>3. CASE queue[d] # <<>>
    <3> DEFINE f == [flush[d] EXCEPT !.phase = "posting", !.batch = queue[d], !.version = version]
    <3>1. f.batch = queue[d] /\ f.version = version
      BY <1>1 DEF FlushType
    <3>2. flush' = [flush EXCEPT ![d] = f]
      BY <1>3, <2>3 DEF FlushLoaded
    <3> HIDE DEF f
    <3>3. ScreenInOrder(Precedes, queue'[d], f.batch)
      BY <1>1, <2>1, <3>1 DEF ScreenInOrder
    <3>4. Ids(f.batch) \subseteq Pending(d) /\ Ids(queue'[d]) \subseteq Ids(queue[d])
      BY <2>1, <3>1 DEF Pending
    <3>5. f.version =< version
      BY <1>1, <3>1
    <3>6. QED
      BY <2>1, <3>2, <3>3, <3>4, <3>5, FlushInOrder
  <2>4. QED
    BY <2>2, <2>3
<1>4. CASE BallRefused(d)
  BY <1>4, FlushEndsInOrder DEF BallRefused, serverVars
<1>5. QED
  BY <1>2, <1>3, <1>4, PostInOrder, AcknowledgeInOrder DEF FlushStep

LEMMA FinishCorrectionInOrder ==
    ASSUME OwnBrowsers, Shape, KeepInv, OrderInv, NEW d \in Devices, FinishCorrection(d)
    PROVE  OrderInv'
<1> DEFINE id == correction[d].id
           to == correction[d].to
           entries == queue[d]
           batch == flush[d].batch
<1>1. to \in Players \cup {Removed} /\ entries \in Seq(Ball) /\ history \in HistoryType
  BY DEF FinishCorrection, Shape, CorrectionsTyped, CorrectionType, QueuesTyped
<1>2. ScreenInOrder(Precedes, entries, batch)
  BY DEF OrderInv, ScreensInOrder
<1>3. \A a : <<a, a>> \notin Precedes
  BY PrecedesFacts DEF OrderInv
<1>4. UNCHANGED <<serverVars, flush, wire>>
  BY DEF FinishCorrection
<1>5. \/ UNCHANGED <<queue, history>>
      \/ /\ to # Removed
         /\ \E last \in DOMAIN entries :
                SaveOutbox(d, ReplaceQueuedScoringBall(entries, id, to, last))
         /\ UNCHANGED history
      \/ /\ SaveOutbox(d, RemoveScoringBall(entries, id))
         /\ history' = [history EXCEPT !.removed = @ \cup {id}]
  BY DEF FinishCorrection
<1> HIDE DEF id, to, entries, batch
<1>6. CASE UNCHANGED <<queue, history>>
  BY <1>4, <1>6, QuietInOrder DEF serverVars, Late
<1>7. ASSUME NEW q, SaveOutbox(d, q), Ids(q) \subseteq Ids(entries), InOrder(Precedes, q),
             UNCHANGED history.recorded
      PROVE  OrderInv'
  <2>1. queue'[d] = q /\ \A e \in Devices : e # d => queue'[e] = queue[e]
    BY <1>7, SavedBy DEF KeepInv
  <2>2. ScreenInOrder(Precedes, q, batch)
    BY <1>2, <1>7 DEF ScreenInOrder
  <2>3. ASSUME NEW e \in Devices
        PROVE  /\ Ids(queue'[e]) \subseteq Ids(queue[e])
               /\ Ids(flush'[e].batch) \subseteq Pending(e)
               /\ ScreenInOrder(Precedes, queue'[e], flush'[e].batch)
               /\ flush'[e].version =< version
    <3>1. flush'[e] = flush[e] /\ Ids(flush[e].batch) \subseteq Pending(e)
      BY <1>4 DEF Pending
    <3>2. flush[e].version =< version /\ ScreenInOrder(Precedes, queue[e], flush[e].batch)
      BY DEF OrderInv, LateNotOvertaken, ScreensInOrder
    <3>3. CASE e = d
      BY <1>7, <2>1, <2>2, <3>1, <3>2, <3>3 DEF entries, batch
    <3>4. CASE e # d
      BY <2>1, <3>1, <3>2, <3>4
    <3>5. QED
      BY <3>3, <3>4
  <2>4. Late' = Late /\ UNCHANGED <<ledger, version, history.recorded>>
    BY <1>4, <1>7 DEF Late, serverVars
  <2>5. QED
    BY <2>3, <2>4, ScreenStepInOrder
<1>8. ASSUME to # Removed, NEW last,
             SaveOutbox(d, ReplaceQueuedScoringBall(entries, id, to, last)),
             UNCHANGED history
      PROVE  OrderInv'
  <2>1. to \in Players
    BY <1>1, <1>8
  <2> DEFINE q == ReplaceQueuedScoringBall(entries, id, to, last)
  <2>2. Ids(q) = Ids(entries) /\ InOrder(Precedes, q) /\ SaveOutbox(d, q)
    BY <1>1, <1>2, <1>8, <2>1, ReplaceValue, InOrderReplace DEF ScreenInOrder
  <2>3. UNCHANGED history.recorded
    BY <1>8
  <2> HIDE DEF q
  <2>4. QED
    BY <1>7, <2>2, <2>3
<1>9. CASE /\ SaveOutbox(d, RemoveScoringBall(entries, id))
           /\ history' = [history EXCEPT !.removed = @ \cup {id}]
  <2> DEFINE q == RemoveScoringBall(entries, id)
  <2>1. Ids(q) \subseteq Ids(entries) /\ InOrder(Precedes, q) /\ SaveOutbox(d, q)
    BY <1>1, <1>2, <1>9, RemoveIds, InOrderRemove DEF ScreenInOrder
  <2>2. UNCHANGED history.recorded
    BY <1>1, <1>9 DEF HistoryType
  <2> HIDE DEF q
  <2>3. QED
    BY <1>7, <2>1, <2>2
<1>10. QED
  BY <1>5, <1>6, <1>8, <1>9

LEMMA LateStepInOrder ==
    ASSUME Shape, OrderInv, NEW r \in wire, ServerHandlesLate(r)
    PROVE  OrderInv'
<1>1. UNCHANGED <<queue, flush>> /\ wire' \subseteq wire /\ Late' \subseteq Late
  BY DEF ServerHandlesLate, screenVars, Late
<1>2. \/ /\ r.kind = "ball" /\ r.version = version /\ r.ball.id \notin Ids(ledger)
         /\ CreateLiveBall(r.ball)
      \/ ledger # <<>> /\ DeleteLastLiveBall
      \/ UNCHANGED <<serverVars, history>>
  BY DEF ServerHandlesLate, IsUndo, IsNewBall
<1>3. CASE /\ r.kind = "ball" /\ r.version = version /\ r.ball.id \notin Ids(ledger)
           /\ CreateLiveBall(r.ball)
  <2>1. r \in Late /\ r.ball \in Ball
    BY <1>3 DEF Late, Shape, WireShaped, BallRequest, UndoRequest
  <2>2. r.ball.id \in Recorded /\ \A e \in Ids(ledger) : <<r.ball.id, e>> \notin Precedes
    BY <1>3, <2>1 DEF OrderInv, AllRecorded, LateNotOvertaken
  <2>3. \A d \in Devices : \A x \in Pending(d) : <<x, r.ball.id>> \notin Precedes
    BY <2>1 DEF OrderInv, LateInOrder
  <2>4. \A d \in Devices : flush'[d].batch = flush[d].batch /\ flush'[d].version =< version + 1
    <3>1. \A d \in Devices : flush[d].version =< version /\ flush[d].version \in Nat /\ version \in Nat
      BY DEF OrderInv, LateNotOvertaken, Shape, ServerTyped, FlushesShaped, FlushType
    <3>2. QED
      BY <1>1, <3>1
  <2>5. QED
    BY <1>1, <1>3, <2>1, <2>2, <2>3, <2>4, CreateInOrder
<1>4. CASE ledger # <<>> /\ DeleteLastLiveBall
  BY <1>1, <1>4, DeleteInOrder
<1>5. CASE UNCHANGED <<serverVars, history>>
  BY <1>1, <1>5, QuietInOrder DEF serverVars
<1>6. QED
  BY <1>2, <1>3, <1>4, <1>5

LEMMA OrderStep ==
    ASSUME OwnBrowsers, Shape, KeepInv, OrderInv, [Next]_vars
    PROVE  OrderInv'
<1>1. ASSUME NEW d \in Devices, OperatorStep(d) \/ PollSession(d) \/ RefreshLive(d)
      PROVE  OrderInv'
  <2>1. ASSUME NEW id \in BallIds, NEW p \in Players, RecordBall(d, id, p) PROVE OrderInv'
    BY <2>1, RecordInOrder
  <2>2. CASE TakeOverScoring(d) \/ PollSession(d)
    BY <2>2, QuietInOrder DEF TakeOverScoring, PollSession, OpenLease, Late
  <2>3. CASE SyncQueued(d)
    <3> DEFINE f == [flush[d] EXCEPT !.phase = "loading", !.token = token[d]]
    <3>1. /\ f.batch = flush[d].batch /\ f.version = flush[d].version
          /\ flush' = [flush EXCEPT ![d] = f]
      BY <2>3 DEF SyncQueued, Shape, FlushesShaped, FlushType
    <3>2. UNCHANGED <<ledger, version, history, queue, wire>>
      BY <2>3 DEF SyncQueued, serverVars
    <3> HIDE DEF f
    <3>3. flush[d].version =< version /\ ScreenInOrder(Precedes, queue[d], flush[d].batch)
      BY DEF OrderInv, LateNotOvertaken, ScreensInOrder
    <3>4. QED
      BY <3>1, <3>2, <3>3, FlushInOrder DEF Pending
  <2>4. CASE UndoLast(d)
    BY <2>4, QuietInOrder DEF UndoLast, serverVars, screenVars, Late
  <2>5. ASSUME NEW id, NEW to, StartCorrection(d, id, to) PROVE OrderInv'
    BY <2>5, QuietInOrder DEF StartCorrection, serverVars, Late
  <2>6. CASE RefreshLive(d)
    BY <2>6, QuietInOrder DEF RefreshLive, serverVars, Late
  <2>7. QED
    BY <1>1, <2>1, <2>2, <2>3, <2>4, <2>5, <2>6 DEF OperatorStep
<1>2. ASSUME NEW d \in Devices, FailureStep(d) PROVE OrderInv'
  <2>1. CASE FlushFails(d)
    BY <2>1, FlushEndsInOrder DEF FlushFails, serverVars
  <2>2. CASE ReloadScreen(d)
    <3>1. SaveOutbox(d, queue[d])
      BY <2>2 DEF ReloadScreen, KeepInv, QueuesSaved
    <3>2. UNCHANGED queue
      BY <3>1 DEF SaveOutbox, Shape, QueuesTyped
    <3>3. QED
      BY <2>2, <3>2, FlushEndsInOrder DEF ReloadScreen, serverVars
  <2>3. CASE CorrectionFails(d)
    BY <2>3, QuietInOrder DEF CorrectionFails, serverVars, Late
  <2>4. QED
    BY <1>2, <2>1, <2>2, <2>3 DEF FailureStep
<1>3. CASE LeaseLapses
  BY <1>3, QuietInOrder DEF LeaseLapses, CloseLease, screenVars, Late
<1>4. CASE UNCHANGED vars
  BY <1>4, QuietInOrder DEF vars, serverVars, screenVars, Late
<1>5. QED
  BY <1>1, <1>2, <1>3, <1>4, FlushStepInOrder, FinishCorrectionInOrder, LateStepInOrder DEF Next

LEMMA InitInOrder == Init => OrderInv
<1> SUFFICES ASSUME Init PROVE OrderInv
  OBVIOUS
<1>1. /\ history.recorded = <<>> /\ ledger = <<>> /\ version = 0 /\ wire = {}
      /\ \A d \in Devices : queue[d] = <<>> /\ flush[d].batch = <<>> /\ flush[d].version = 0
  BY DEF Init, ServerInit, NoFlush
<1>2. Ids(<<>>) = {} /\ Late = {} /\ \A d \in Devices : Pending(d) = {}
  BY <1>1 DEF Ids, Late, Pending
<1>3. InOrder(Precedes, <<>>)
  BY DEF InOrder
<1>4. ScreenInOrder(Precedes, <<>>, <<>>)
  BY <1>3, EmptyBatchInOrder
<1>5. QED
  BY <1>1, <1>2, <1>4
     DEF OrderInv, RecordedOnce, AllRecorded, ScreensInOrder, LateInOrder, NothingOvertaken,
         LateNotOvertaken, LedgerInOrder

LEMMA OrderImplies == Shape /\ OrderInv => RecordedOrderKept
<1> SUFFICES ASSUME Shape, OrderInv,
                    NEW i \in DOMAIN history.recorded, NEW j \in DOMAIN history.recorded, i < j,
                    history.recorded[i].device = history.recorded[j].device,
                    NEW k \in DOMAIN ledger, NEW l \in DOMAIN ledger,
                    ledger[k].id = history.recorded[i].id, ledger[l].id = history.recorded[j].id
             PROVE  k < l
  BY DEF RecordedOrderKept
<1>1. history.recorded[i].id \in BallIds /\ history.recorded[j].id \in BallIds
  BY RecordedValue
<1>2. <<history.recorded[i].id, history.recorded[j].id>> \in Precedes
  BY <1>1 DEF Precedes
<1>3. <<ledger[k].id, ledger[l].id>> \in Precedes
  BY <1>2, Zenon
<1>4. QED
  BY <1>3 DEF OrderInv, LedgerInOrder

LEMMA OrderAlways == OwnBrowsers => (Spec => []OrderInv)
<1> SUFFICES ASSUME OwnBrowsers PROVE Spec => []OrderInv
  OBVIOUS
<1>1. Spec => []KeepInv
  BY KeepAlways
<1>2. Shape /\ KeepInv /\ OrderInv /\ [Next]_vars => OrderInv'
  BY OrderStep
<1>3. QED
  BY <1>1, <1>2, InitInOrder, ShapeKept, PTL DEF Spec

\* On screens with browsers of their own the deliveries of one screen enter
\* the ledger in the order in which they were recorded, whatever was lost,
\* retried, refused, corrected, undone, taken over or handled late.
THEOREM RecordedOrderIsKept == OwnBrowsers => (Spec => []RecordedOrderKept)
BY OrderAlways, OrderImplies, ShapeKept, PTL

-----------------------------------------------------------------------------
(* Scoring is only paused for a reason *)

\* One screen has held the only lease so far, or nobody has held any, and
\* nothing was undone or corrected.
OneHolder ==
    /\ Len(leases) =< 1
    /\ lease = Len(leases)
    /\ used.undo = 0
    /\ used.correction = 0

Leads(batch, entries) ==
    Len(batch) =< Len(entries) /\ \A i \in 1 .. Len(batch) : batch[i] = entries[i]

\* A screen that posts the front of its outbox against the version the server
\* has, unless the server has the delivery already; f is its flush, p whether
\* it is paused, v the version of the server and sent the deliveries it has.
InStep(v, sent, entries, f, p) ==
    /\ Leads(f.batch, entries)
    /\ f.phase = "posting" => f.version = v \/ Head(f.batch).id \in sent
    /\ f.phase = "accepted" => f.version = v /\ Head(f.batch).id \in sent
    /\ f.phase = "refused" => Head(f.batch).player \in Ineligible
    /\ p => entries # <<>> /\ Head(entries).player \in Ineligible

ScreensInStep ==
    \A d \in Devices : InStep(version, Ids(ledger), queue[d], flush[d], paused[d])

\* What is still on its way is the delivery at the head of the outbox.
WireInStep ==
    \A r \in wire :
        /\ r.kind = "ball"
        /\ r.ball.id \notin Ids(ledger) =>
              queue[leases[1]] # <<>> /\ r.ball = Head(queue[leases[1]])

NoCorrections == \A d \in Devices : correction[d] = NoCorrection

PausedIdle == \A d \in Devices : paused[d] => flush[d].phase = "idle"

\* The inductive invariant.  PausedForAReason is not inductive: it does not
\* say why the version a flush works with is still the one of the server when
\* a request of an earlier flush is handled in between.
HolderInv ==
    /\ PausedIdle
    /\ OneHolder => ScreensInStep /\ WireInStep /\ NoCorrections

LEMMA LeadsHead ==
    ASSUME NEW s \in Seq(Ball), NEW t \in Seq(Ball), s # <<>>, Leads(s, t)
    PROVE  t # <<>> /\ Head(s) = Head(t)
<1>1. Len(s) >= 1 /\ Len(s) \in Nat /\ Len(t) \in Nat /\ Head(s) = s[1]
  BY TailValue
<1>2. Len(t) >= 1 /\ s[1] = t[1]
  BY <1>1 DEF Leads
<1>3. t # <<>>
  BY <1>2
<1>4. Head(t) = t[1]
  BY <1>3, TailValue
<1>5. QED
  BY <1>1, <1>2, <1>3, <1>4

LEMMA LeadsAppend ==
    ASSUME NEW s \in Seq(Ball), NEW t \in Seq(Ball), NEW b \in Ball, Leads(s, t)
    PROVE  Leads(s, Append(t, b))
<1> DEFINE r == Append(t, b)
<1>1. /\ Len(s) \in Nat /\ Len(t) \in Nat /\ Len(r) = Len(t) + 1
      /\ \A i \in 1 .. Len(t) : r[i] = t[i]
  BY AppendValue
<1> HIDE DEF r
<1>2. Leads(s, r)
  BY <1>1 DEF Leads
<1>3. QED
  BY <1>2 DEF r

LEMMA LeadsTail ==
    ASSUME NEW s \in Seq(Ball), NEW t \in Seq(Ball), s # <<>>, Leads(s, t)
    PROVE  Leads(Tail(s), Tail(t))
<1> DEFINE r == Tail(s)
           u == Tail(t)
<1>1. /\ Len(s) >= 1 /\ Len(s) \in Nat /\ Len(r) = Len(s) - 1
      /\ \A i \in 1 .. (Len(s) - 1) : r[i] = s[i + 1]
  BY TailValue
<1>2. t # <<>>
  BY LeadsHead
<1>3. /\ Len(t) >= 1 /\ Len(t) \in Nat /\ Len(u) = Len(t) - 1
      /\ \A i \in 1 .. (Len(t) - 1) : u[i] = t[i + 1]
  BY <1>2, TailValue
<1> HIDE DEF r, u
<1>4. ASSUME NEW i \in 1 .. Len(r) PROVE r[i] = u[i]
  <2>1. i + 1 \in 1 .. Len(s) /\ i \in 1 .. (Len(t) - 1)
    BY <1>1, <1>3 DEF Leads
  <2>2. QED
    BY <1>1, <1>3, <2>1 DEF Leads
<1>5. Len(r) =< Len(u)
  BY <1>1, <1>3 DEF Leads
<1>6. Leads(r, u)
  BY <1>4, <1>5 DEF Leads
<1>7. QED
  BY <1>6 DEF r, u

\* An outbox in order names its first delivery once.
LEMMA RemoveHead ==
    ASSUME NEW pairs, \A a : <<a, a>> \notin pairs, NEW s \in Seq(Ball), s # <<>>, InOrder(pairs, s)
    PROVE  RemoveScoringBall(s, Head(s).id) = Tail(s)
<1> DEFINE id == Head(s).id
           r == RemoveScoringBall(s, id)
           u == Tail(s)
<1>1. id \in Ids(s)
  BY IdsTail
<1>2. PICK k \in DOMAIN s :
         /\ s[k].id = id
         /\ r \in Seq(Ball)
         /\ Len(r) = Len(s) - 1
         /\ \A j \in 1 .. (Len(s) - 1) : r[j] = s[IF j < k THEN j ELSE j + 1]
  BY <1>1, RemoveValue
<1>3. /\ Len(s) >= 1 /\ Len(s) \in Nat /\ DOMAIN s = 1 .. Len(s) /\ id = s[1].id
      /\ u \in Seq(Ball) /\ Len(u) = Len(s) - 1
      /\ \A i \in 1 .. (Len(s) - 1) : u[i] = s[i + 1]
  BY TailValue
<1> HIDE DEF id, r, u
<1>4. k = 1
  <2> SUFFICES ASSUME k # 1 PROVE FALSE
    OBVIOUS
  <2>1. 1 \in DOMAIN s /\ 1 < k
    BY <1>3
  <2>2. <<s[1].id, s[k].id>> \in pairs
    BY <2>1 DEF InOrder
  <2>3. s[1].id = s[k].id
    BY <1>2, <1>3
  <2>4. QED
    BY <2>2, <2>3
<1>5. \A j \in 1 .. (Len(s) - 1) : r[j] = u[j]
  BY <1>2, <1>3, <1>4
<1>6. r = u
  BY <1>2, <1>3, <1>5
<1>7. QED
  BY <1>6 DEF r, u, id

\* Only the holder flushes and has a token; what is on its way is its own.
LEMMA HolderOnly ==
    ASSUME Shape, OneHolder
    PROVE  /\ \A d \in Devices : flush[d].phase # "idle" => d = leases[1] /\ flush[d].token = lease
           /\ \A d \in Devices : token[d] # NoToken => d = leases[1]
           /\ \A r \in wire : r.token = lease /\ Len(leases) = 1
<1>1. Len(leases) \in Nat /\ (Len(leases) = 0 \/ Len(leases) = 1) /\ lease = Len(leases)
  BY DEF OneHolder, Shape, ServerTyped
<1>2. \A n \in 1 .. Len(leases) : n = 1 /\ n = lease /\ Len(leases) = 1
  BY <1>1
<1>3. \A d \in Devices : flush[d].phase # "idle" =>
          flush[d].token \in 1 .. Len(leases) /\ leases[flush[d].token] = d
  BY DEF Shape, FlushesShaped, FlushShape
<1>4. \A d \in Devices : token[d] # NoToken => token[d] \in 1 .. Len(leases) /\ leases[token[d]] = d
  BY <1>1 DEF Shape, TokensIssued, NoToken
<1>5. \A r \in wire : r.token \in 1 .. Len(leases)
  BY DEF Shape, WireShaped
<1>6. QED
  BY <1>2, <1>3, <1>4, <1>5

\* A screen that waits for nothing is not disturbed by the server.
LEMMA WaitsInStep ==
    ASSUME NEW v, NEW sent, NEW w, NEW more, NEW entries, NEW f, NEW p,
           InStep(v, sent, entries, f, p), f.phase \notin {"posting", "accepted"}
    PROVE  InStep(w, more, entries, f, p)
BY DEF InStep

\* A flush that ends, with the pause it leaves.
LEMMA EndsInStep ==
    ASSUME NEW v, NEW sent, NEW entries \in Seq(Ball), NEW p,
           p => entries # <<>> /\ Head(entries).player \in Ineligible
    PROVE  InStep(v, sent, entries, NoFlush, p)
<1>1. Len(<<>>) = 0 /\ Len(entries) \in Nat
  OBVIOUS
<1>2. Leads(<<>>, entries)
  BY <1>1 DEF Leads
<1>3. QED
  BY <1>2 DEF InStep, NoFlush

\* A step of the holder keeps the invariant if it keeps its own part: the
\* other screens wait for nothing.
LEMMA HolderMoves ==
    ASSUME Shape, OneHolder, HolderInv, NEW d \in Devices, d = leases[1],
           UNCHANGED <<leases, correction>>,
           \A e \in Devices : e # d => /\ queue'[e] = queue[e]
                                       /\ flush'[e] = flush[e]
                                       /\ paused'[e] = paused[e],
           InStep(version', Ids(ledger'), queue'[d], flush'[d], paused'[d]),
           WireInStep'
    PROVE  (ScreensInStep /\ WireInStep /\ NoCorrections)'
<1>1. NoCorrections'
  BY DEF HolderInv, NoCorrections
<1>2. ASSUME NEW e \in Devices, e # d
      PROVE  InStep(version', Ids(ledger'), queue'[e], flush'[e], paused'[e])
  <2>1. flush[e].phase = "idle"
    BY <1>2, HolderOnly
  <2>2. InStep(version, Ids(ledger), queue[e], flush[e], paused[e])
    BY DEF HolderInv, ScreensInStep
  <2>3. InStep(version', Ids(ledger'), queue[e], flush[e], paused[e])
    BY <2>1, <2>2, WaitsInStep
  <2>4. QED
    BY <1>2, <2>3
<1>3. ScreensInStep'
  BY <1>2 DEF ScreensInStep
<1>4. QED
  BY <1>1, <1>3

HolderKept == (ScreensInStep /\ WireInStep /\ NoCorrections)'

\* Nobody becomes the only holder later on.
LEMMA HolderBefore ==
    ASSUME Shape, [Next]_vars, OneHolder'
    PROVE  OneHolder
<1>1. leases \in Seq(Devices) /\ Len(leases) \in Nat /\ lease \in 0 .. Len(leases)
  BY DEF Shape, ServerTyped
<1>2. used \in UsedType
  BY DEF Shape
<1>3. (used'.undo = 0 => used.undo = 0) /\ (used'.correction = 0 => used.correction = 0)
  <2>1. CASE UNCHANGED used
    BY <2>1
  <2>2. CASE Fault
    BY <1>2, <2>2 DEF Fault, UsedType
  <2>3. ASSUME NEW d \in Devices, UndoLast(d)
        PROVE  used'.undo # 0
    BY <1>2, <2>3 DEF UndoLast, UsedType
  <2>4. ASSUME NEW d \in Devices, NEW id, NEW to, StartCorrection(d, id, to)
        PROVE  used'.correction # 0
    BY <1>2, <2>4 DEF StartCorrection, UsedType
  <2>5. ASSUME NEW d \in Devices, OperatorStep(d)
        PROVE  (used'.undo = 0 => used.undo = 0) /\ (used'.correction = 0 => used.correction = 0)
    <3>1. ASSUME NEW id, NEW p, RecordBall(d, id, p) PROVE UNCHANGED used
      BY <3>1 DEF RecordBall
    <3>2. TakeOverScoring(d) \/ SyncQueued(d) => UNCHANGED used
      BY DEF TakeOverScoring, SyncQueued
    <3>3. UndoLast(d) => used'.undo # 0
      BY <2>3
    <3>4. QED
      BY <2>1, <2>4, <2>5, <3>1, <3>2, <3>3 DEF OperatorStep, OneHolder
  <2>6. ASSUME NEW d \in Devices, FlushStep(d) \/ PollSession(d) \/ RefreshLive(d) \/ FinishCorrection(d)
        PROVE  UNCHANGED used
    BY <2>6 DEF FlushStep, StartFlush, FlushLoaded, ServerHandlesPost, BallAcknowledged, BallRefused,
                PollSession, RefreshLive, FinishCorrection
  <2>7. ASSUME NEW d \in Devices, FailureStep(d) PROVE Fault
    BY <2>7 DEF FailureStep, FlushFails, ReloadScreen, CorrectionFails
  <2>8. ASSUME NEW r \in wire, ServerHandlesLate(r) PROVE UNCHANGED used
    BY <2>8 DEF ServerHandlesLate
  <2>9. LeaseLapses \/ UNCHANGED vars => UNCHANGED used
    BY DEF LeaseLapses, vars
  <2>10. QED
    BY <2>1, <2>2, <2>5, <2>6, <2>7, <2>8, <2>9 DEF Next
<1>4. \/ UNCHANGED <<lease, leases>>
      \/ lease' = NoToken /\ UNCHANGED leases
      \/ \E d \in Devices : lease' = Len(leases') /\ leases' = Append(leases, d)
  <2>1. ASSUME NEW d \in Devices,
               FlushStep(d) \/ OperatorStep(d) \/ RefreshLive(d) \/ FinishCorrection(d) \/ FailureStep(d)
        PROVE  UNCHANGED <<lease, leases>> \/ (lease' = Len(leases') /\ leases' = Append(leases, d))
    <3>1. FlushStep(d) => UNCHANGED <<lease, leases>>
      BY DEF FlushStep, StartFlush, FlushLoaded, ServerHandlesPost, BallAcknowledged, BallRefused,
             CreateLiveBall, serverVars
    <3>2. RefreshLive(d) \/ FinishCorrection(d) \/ FailureStep(d) => UNCHANGED <<lease, leases>>
      BY DEF RefreshLive, FinishCorrection, FailureStep, FlushFails, ReloadScreen, CorrectionFails,
             serverVars
    <3>3. ASSUME NEW id, NEW p, RecordBall(d, id, p) PROVE UNCHANGED <<lease, leases>>
      BY <3>3 DEF RecordBall, serverVars
    <3>4. ASSUME NEW id, NEW to, StartCorrection(d, id, to) PROVE UNCHANGED <<lease, leases>>
      BY <3>4 DEF StartCorrection, serverVars
    <3>5. TakeOverScoring(d) => lease' = Len(leases') /\ leases' = Append(leases, d)
      BY DEF TakeOverScoring, OpenLease
    <3>6. SyncQueued(d) \/ UndoLast(d) => UNCHANGED <<lease, leases>>
      BY DEF SyncQueued, UndoLast, serverVars
    <3>7. QED
      BY <2>1, <3>1, <3>2, <3>3, <3>4, <3>5, <3>6 DEF OperatorStep
  <2>2. ASSUME NEW d \in Devices, PollSession(d)
        PROVE  UNCHANGED <<lease, leases>> \/ (lease' = Len(leases') /\ leases' = Append(leases, d))
    BY <2>2 DEF PollSession, OpenLease
  <2>3. ASSUME NEW r \in wire, ServerHandlesLate(r) PROVE UNCHANGED <<lease, leases>>
    BY <2>3 DEF ServerHandlesLate, CreateLiveBall, DeleteLastLiveBall, serverVars
  <2>4. LeaseLapses => lease' = NoToken /\ UNCHANGED leases
    BY DEF LeaseLapses, CloseLease
  <2>5. UNCHANGED vars => UNCHANGED <<lease, leases>>
    BY DEF vars, serverVars
  <2>6. QED
    BY <2>1, <2>2, <2>3, <2>4, <2>5 DEF Next
<1>5. Len(leases) =< 1 /\ lease = Len(leases)
  <2>1. CASE UNCHANGED <<lease, leases>>
    BY <2>1 DEF OneHolder
  <2>2. CASE lease' = NoToken /\ UNCHANGED leases
    <3>1. Len(leases) = 0
      BY <2>2 DEF OneHolder, NoToken
    <3>2. QED
      BY <1>1, <3>1
  <2>3. ASSUME NEW d \in Devices, leases' = Append(leases, d)
        PROVE  Len(leases) = 0
    <3>1. Len(leases') = Len(leases) + 1
      BY <1>1, <2>3, AppendValue
    <3>2. QED
      BY <1>1, <3>1 DEF OneHolder
  <2>4. QED
    BY <1>1, <1>4, <2>1, <2>2, <2>3
<1>6. QED
  BY <1>3, <1>5 DEF OneHolder

\* Steps that change nothing the invariant speaks of.
LEMMA QuietHolder ==
    ASSUME HolderInv, OneHolder,
           UNCHANGED <<version, ledger, leases, queue, flush, paused, correction, wire>>
    PROVE  HolderKept
BY DEF HolderInv, ScreensInStep, WireInStep, NoCorrections, HolderKept

LEMMA RecordInStep ==
    ASSUME OwnBrowsers, Shape, KeepInv, HolderInv, OneHolder,
           NEW d \in Devices, NEW id \in BallIds, NEW p \in Players, RecordBall(d, id, p)
    PROVE  HolderKept
<1> DEFINE ball == [id |-> id, player |-> p]
           q == EnqueueScoringBall(queue[d], ball)
<1>1. /\ UNCHANGED <<version, ledger, leases, flush, paused, correction, wire>>
      /\ SaveOutbox(d, q)
  BY DEF RecordBall, serverVars
<1>2. ball \in Ball /\ queue[d] \in Seq(Ball) /\ flush[d].batch \in Seq(Ball)
  BY DEF Ball, Shape, QueuesTyped, FlushesShaped, FlushType
<1>3. q = queue[d] \/ q = Append(queue[d], ball)
  BY DEF EnqueueScoringBall
<1>4. queue'[d] = q /\ \A e \in Devices : e # d => queue'[e] = queue[e]
  BY <1>1, SavedBy DEF KeepInv
<1> HIDE DEF ball, q
<1>5. queue[d] # <<>> => q # <<>> /\ Head(q) = Head(queue[d])
  <2>1. CASE q = queue[d]
    BY <2>1
  <2>2. ASSUME q = Append(queue[d], ball), queue[d] # <<>>
        PROVE  q # <<>> /\ Head(q) = Head(queue[d])
    <3>1. Head(queue[d]) = queue[d][1] /\ Len(queue[d]) >= 1 /\ Len(queue[d]) \in Nat
      BY <1>2, <2>2, TailValue
    <3>2. q \in Seq(Ball) /\ q # <<>> /\ q[1] = queue[d][1]
      BY <1>2, <2>2, <3>1, AppendValue
    <3>3. Head(q) = q[1]
      BY <3>2, TailValue
    <3>4. QED
      BY <3>1, <3>2, <3>3
  <2>3. QED
    BY <1>3, <2>1, <2>2
<1>6. \A e \in Devices : InStep(version, Ids(ledger), queue[e], flush[e], paused[e])
  BY DEF HolderInv, ScreensInStep
<1>7. Leads(flush[d].batch, q)
  <2>1. Leads(flush[d].batch, queue[d])
    BY <1>6 DEF InStep
  <2>2. QED
    BY <1>2, <1>3, <2>1, LeadsAppend
<1>8. InStep(version, Ids(ledger), q, flush[d], paused[d])
  BY <1>5, <1>6, <1>7 DEF InStep
<1>9. ScreensInStep'
  <2>1. ASSUME NEW e \in Devices PROVE InStep(version, Ids(ledger), queue'[e], flush[e], paused[e])
    BY <1>4, <1>6, <1>8
  <2>2. QED
    BY <1>1, <2>1 DEF ScreensInStep
<1>10. WireInStep'
  <2> SUFFICES ASSUME NEW r \in wire
               PROVE  /\ r.kind = "ball"
                      /\ r.ball.id \notin Ids(ledger) =>
                            queue'[leases[1]] # <<>> /\ r.ball = Head(queue'[leases[1]])
    BY <1>1 DEF WireInStep
  <2>1. /\ r.kind = "ball"
        /\ r.ball.id \notin Ids(ledger) =>
              queue[leases[1]] # <<>> /\ r.ball = Head(queue[leases[1]])
    BY DEF HolderInv, WireInStep
  <2>2. leases[1] \in Devices
    BY HolderOnly DEF Shape, ServerTyped
  <2>3. CASE leases[1] = d
    BY <1>4, <1>5, <2>1, <2>3
  <2>4. CASE leases[1] # d
    BY <1>4, <2>1, <2>2, <2>4
  <2>5. QED
    BY <2>3, <2>4
<1>11. NoCorrections'
  BY <1>1 DEF HolderInv, NoCorrections
<1>12. QED
  BY <1>9, <1>10, <1>11 DEF HolderKept

\* The first lease: until then nothing is posted.
LEMMA FirstLease ==
    ASSUME Shape, HolderInv, OneHolder, NEW d \in Devices, OpenLease(d), OneHolder',
           UNCHANGED <<queue, flush, paused, correction, wire>>
    PROVE  HolderKept
<1>1. leases \in Seq(Devices) /\ Len(leases) \in Nat
  BY DEF Shape, ServerTyped
<1>2. Len(leases) = 0
  <2>1. Len(leases') = Len(leases) + 1 /\ Len(leases') =< 1
    BY <1>1, AppendValue DEF OpenLease, OneHolder
  <2>2. QED
    BY <1>1, <2>1
<1>3. wire = {}
  BY <1>2 DEF Shape, WireShaped
<1>4. UNCHANGED <<version, ledger>>
  BY DEF OpenLease
<1>5. QED
  BY <1>3, <1>4 DEF HolderInv, ScreensInStep, WireInStep, NoCorrections, HolderKept

\* The server answers the holder with the version the holder posted against,
\* or has the delivery: only a delivery of an ineligible player is refused.
LEMMA PostInStep ==
    ASSUME Shape, HolderInv, OneHolder, NEW d \in Devices, ServerHandlesPost(d)
    PROVE  HolderKept
<1> DEFINE batch == flush[d].batch
           ball == Head(batch)
           sent == Ids(ledger)
<1>1. /\ flush[d] \in FlushType /\ flush \in [Devices -> FlushType]
      /\ flush[d].phase = "posting" /\ batch # <<>> /\ batch \in Seq(Ball)
      /\ queue[d] \in Seq(Ball) /\ ledger \in Seq(Ball) /\ version \in Nat
  BY DEF ServerHandlesPost, Shape, ServerTyped, QueuesTyped, FlushesShaped, FlushShape, FlushType
<1>2. d = leases[1] /\ flush[d].token = lease
  BY <1>1, HolderOnly
<1>3. InStep(version, sent, queue[d], flush[d], paused[d]) /\ WireInStep /\ ~paused[d]
  BY <1>1 DEF HolderInv, ScreensInStep, PausedIdle
<1>4. ball \in Ball
  BY <1>1, TailValue
<1>5. UNCHANGED <<leases, queue, paused, correction, wire>>
  BY DEF ServerHandlesPost, CreateLiveBall, serverVars
<1>6. /\ Leads(batch, queue[d])
      /\ flush[d].version = version \/ ball.id \in sent
  BY <1>1, <1>3 DEF InStep
<1>7. \/ /\ CreateLiveBall(ball)
         /\ flush' = [flush EXCEPT ![d].phase = "accepted", ![d].version = version + 1]
      \/ /\ ball.id \in sent
         /\ flush' = [flush EXCEPT ![d].phase = "accepted", ![d].version = version]
         /\ UNCHANGED <<serverVars, history>>
      \/ /\ ball.player \in Ineligible
         /\ flush' = [flush EXCEPT ![d].phase = "refused"]
         /\ UNCHANGED <<serverVars, history>>
  BY <1>2, <1>6 DEF ServerHandlesPost, Moved, IsNewBall, IsRetry
<1> HIDE DEF ball, batch, sent
<1>8. /\ \A e \in Devices : e # d => flush'[e] = flush[e]
      /\ flush'[d].batch = batch
      /\ \/ flush'[d].phase = "accepted" /\ flush'[d].version = version' /\ ball.id \in Ids(ledger')
         \/ flush'[d].phase = "refused" /\ ball.player \in Ineligible
      /\ sent \subseteq Ids(ledger')
  <2>1. CASE /\ CreateLiveBall(ball)
             /\ flush' = [flush EXCEPT ![d].phase = "accepted", ![d].version = version + 1]
    <3>1. version' = version + 1 /\ Ids(ledger') = sent \cup {ball.id}
      BY <1>1, <1>4, <2>1, IdsAppend DEF CreateLiveBall, sent
    <3>2. /\ flush'[d].batch = batch /\ flush'[d].phase = "accepted" /\ flush'[d].version = version + 1
          /\ \A e \in Devices : e # d => flush'[e] = flush[e]
      BY <1>1, <2>1 DEF FlushType, batch
    <3>3. QED
      BY <3>1, <3>2
  <2>2. CASE /\ ball.id \in sent
             /\ flush' = [flush EXCEPT ![d].phase = "accepted", ![d].version = version]
             /\ UNCHANGED <<serverVars, history>>
    BY <1>1, <2>2 DEF FlushType, batch, sent, serverVars
  <2>3. CASE /\ ball.player \in Ineligible
             /\ flush' = [flush EXCEPT ![d].phase = "refused"]
             /\ UNCHANGED <<serverVars, history>>
    BY <1>1, <2>3 DEF FlushType, batch, sent, serverVars
  <2>4. QED
    BY <1>7, <2>1, <2>2, <2>3
<1>9. InStep(version', Ids(ledger'), queue'[d], flush'[d], paused'[d])
  <2>1. Head(flush'[d].batch) = ball
    BY <1>8 DEF ball
  <2>2. queue'[d] = queue[d] /\ ~paused'[d]
    BY <1>3, <1>5
  <2>3. QED
    BY <1>6, <1>8, <2>1, <2>2 DEF InStep
<1>10. WireInStep'
  BY <1>3, <1>5, <1>8 DEF WireInStep, sent
<1>11. QED
  BY <1>2, <1>5, <1>8, <1>9, <1>10, HolderMoves DEF HolderKept

\* The acknowledged delivery is the first of the outbox: what follows in the
\* batch is what follows in the outbox.
LEMMA AcknowledgeInStep ==
    ASSUME OwnBrowsers, Shape, KeepInv, OrderInv, HolderInv, OneHolder,
           NEW d \in Devices, BallAcknowledged(d)
    PROVE  HolderKept
<1> DEFINE batch == flush[d].batch
           entries == queue[d]
           rest == Tail(batch)
           f == IF rest = <<>> THEN NoFlush ELSE [flush[d] EXCEPT !.phase = "posting", !.batch = rest]
<1>1. /\ flush[d] \in FlushType /\ flush[d].phase = "accepted"
      /\ batch # <<>> /\ batch \in Seq(Ball) /\ entries \in Seq(Ball)
  BY DEF BallAcknowledged, Shape, FlushesShaped, FlushShape, FlushType, QueuesTyped
<1>2. /\ SaveOutbox(d, RemoveScoringBall(entries, Head(batch).id))
      /\ flush' = [flush EXCEPT ![d] = f]
      /\ UNCHANGED <<version, ledger, leases, paused, correction, wire>>
  BY DEF BallAcknowledged, serverVars
<1>3. InStep(version, Ids(ledger), entries, flush[d], paused[d]) /\ WireInStep /\ ~paused[d]
  BY <1>1 DEF HolderInv, ScreensInStep, PausedIdle
<1>4. Leads(batch, entries) /\ flush[d].version = version /\ Head(batch).id \in Ids(ledger)
  BY <1>1, <1>3 DEF InStep
<1>5. entries # <<>> /\ Head(batch) = Head(entries)
  BY <1>1, <1>4, LeadsHead
<1>6. RemoveScoringBall(entries, Head(batch).id) = Tail(entries)
  <2>1. InOrder(Precedes, entries) /\ \A a : <<a, a>> \notin Precedes
    BY PrecedesFacts DEF OrderInv, ScreensInOrder, ScreenInOrder
  <2>2. RemoveScoringBall(entries, Head(entries).id) = Tail(entries)
    BY <1>1, <1>5, <2>1, RemoveHead
  <2>3. QED
    BY <1>5, <2>2
<1>7. queue'[d] = Tail(entries) /\ \A e \in Devices : e # d => queue'[e] = queue[e]
  BY <1>2, <1>6, SavedBy DEF KeepInv
<1>8. flush'[d] = f /\ \A e \in Devices : e # d => flush'[e] = flush[e]
  BY <1>2, FlushPhases
<1>9. Tail(entries) \in Seq(Ball) /\ rest \in Seq(Ball) /\ Leads(rest, Tail(entries))
  BY <1>1, <1>4, <1>5, TailValue, LeadsTail
<1>10. d = leases[1]
  BY <1>1, HolderOnly
<1>11. InStep(version, Ids(ledger), Tail(entries), f, paused[d])
  <2>1. CASE rest = <<>>
    BY <1>3, <1>9, <2>1, EndsInStep
  <2>2. CASE rest # <<>>
    <3>1. f.batch = rest /\ f.phase = "posting" /\ f.version = version
      BY <1>1, <1>4, <2>2 DEF FlushType
    <3> HIDE DEF f, rest, entries
    <3>2. QED
      BY <1>3, <1>9, <3>1 DEF InStep
  <2>3. QED
    BY <2>1, <2>2
<1>12. WireInStep'
  <2> SUFFICES ASSUME NEW r \in wire PROVE r.kind = "ball" /\ r.ball.id \in Ids(ledger)
    BY <1>2 DEF WireInStep
  <2>1. /\ r.kind = "ball"
        /\ r.ball.id \notin Ids(ledger) => r.ball = Head(entries)
    BY <1>3, <1>10 DEF WireInStep
  <2>2. QED
    BY <1>4, <1>5, <2>1
<1>13. InStep(version', Ids(ledger'), queue'[d], flush'[d], paused'[d])
  BY <1>2, <1>7, <1>8, <1>11
<1>14. \A e \in Devices : e # d => /\ queue'[e] = queue[e]
                                   /\ flush'[e] = flush[e]
                                   /\ paused'[e] = paused[e]
  BY <1>2, <1>7, <1>8
<1>15. QED
  BY <1>2, <1>10, <1>12, <1>13, <1>14, HolderMoves DEF HolderKept

\* A flush ends, and leaves on its way what it was posting.
LEMMA EndsHolder ==
    ASSUME Shape, HolderInv, OneHolder, NEW d \in Devices, flush[d].phase # "idle",
           flush' = [flush EXCEPT ![d] = NoFlush],
           wire' \subseteq wire \cup Abandoned(d),
           UNCHANGED <<version, ledger, leases, queue, correction>>,
           \A e \in Devices : e # d => paused'[e] = paused[e],
           paused'[d] => queue[d] # <<>> /\ Head(queue[d]).player \in Ineligible
    PROVE  HolderKept
<1>1. d = leases[1]
  BY HolderOnly
<1>2. flush'[d] = NoFlush /\ \A e \in Devices : e # d => flush'[e] = flush[e]
  BY FlushPhases
<1>3. queue[d] \in Seq(Ball) /\ flush[d].batch \in Seq(Ball)
  BY DEF Shape, QueuesTyped, FlushesShaped, FlushType
<1>4. InStep(version', Ids(ledger'), queue'[d], flush'[d], paused'[d])
  <2>1. InStep(version, Ids(ledger), queue[d], NoFlush, paused'[d])
    BY <1>3, EndsInStep
  <2>2. QED
    BY <1>2, <2>1
<1>5. ASSUME NEW r \in Abandoned(d)
      PROVE  r.kind = "ball" /\ queue[d] # <<>> /\ r.ball = Head(queue[d])
  <2>1. /\ flush[d].phase = "posting" /\ r.kind = "ball"
        /\ r.ball = Head(flush[d].batch)
    BY <1>5 DEF Abandoned
  <2>2. flush[d].batch # <<>>
    BY <2>1 DEF Shape, FlushesShaped, FlushShape
  <2>3. Leads(flush[d].batch, queue[d])
    BY DEF HolderInv, ScreensInStep, InStep
  <2>4. QED
    BY <1>3, <2>1, <2>2, <2>3, LeadsHead
<1>6. WireInStep'
  <2> SUFFICES ASSUME NEW r \in wire \cup Abandoned(d)
               PROVE  /\ r.kind = "ball"
                      /\ r.ball.id \notin Ids(ledger) =>
                            queue[leases[1]] # <<>> /\ r.ball = Head(queue[leases[1]])
    BY DEF WireInStep
  <2>1. CASE r \in wire
    BY <2>1 DEF HolderInv, WireInStep
  <2>2. CASE r \in Abandoned(d)
    BY <1>1, <1>5, <2>2
  <2>3. QED
    BY <2>1, <2>2
<1>7. QED
  BY <1>1, <1>2, <1>4, <1>6, HolderMoves DEF HolderKept

\* A screen waits for nothing, or only for the version of the server.
LEMMA WaitsHolder ==
    ASSUME Shape, HolderInv, OneHolder, NEW d \in Devices,
           NEW f, f.phase = "idle" \/ f.phase = "loading", f.batch = <<>>,
           flush' = [flush EXCEPT ![d] = f],
           UNCHANGED <<version, ledger, leases, queue, correction>>, wire' \subseteq wire,
           \A e \in Devices : paused'[e] => paused[e]
    PROVE  HolderKept
<1>1. flush'[d] = f /\ \A e \in Devices : e # d => flush'[e] = flush[e]
  BY FlushPhases
<1>2. \A e \in Devices : InStep(version, Ids(ledger), queue[e], flush[e], paused[e])
  BY DEF HolderInv, ScreensInStep
<1>3. \A e \in Devices : InStep(version, Ids(ledger), queue[e], flush[e], paused'[e])
  BY <1>2 DEF InStep
<1>4. InStep(version, Ids(ledger), queue[d], f, paused'[d])
  <2>1. Len(<<>>) = 0 /\ Len(queue[d]) \in Nat
    BY DEF Shape, QueuesTyped
  <2>2. Leads(<<>>, queue[d])
    BY <2>1 DEF Leads
  <2>3. QED
    BY <1>3, <2>2 DEF InStep
<1>5. ScreensInStep'
  <2>1. ASSUME NEW e \in Devices PROVE InStep(version, Ids(ledger), queue[e], flush'[e], paused'[e])
    BY <1>1, <1>3, <1>4
  <2>2. QED
    BY <2>1 DEF ScreensInStep
<1>6. WireInStep' /\ NoCorrections'
  BY DEF HolderInv, WireInStep, NoCorrections
<1>7. QED
  BY <1>5, <1>6 DEF HolderKept

LEMMA FlushStepInStep ==
    ASSUME OwnBrowsers, Shape, KeepInv, OrderInv, HolderInv, OneHolder,
           NEW d \in Devices, FlushStep(d)
    PROVE  HolderKept
<1>1. flush[d] \in FlushType /\ FlushShape(d, flush[d]) /\ queue[d] \in Seq(Ball)
  BY DEF Shape, FlushesShaped, QueuesTyped
<1>2. CASE StartFlush(d)
  <2> DEFINE f == [flush[d] EXCEPT !.phase = "loading", !.token = token[d]]
  <2>1. f.phase = "loading" /\ f.batch = <<>>
    BY <1>1, <1>2 DEF FlushType, FlushShape, StartFlush
  <2>2. /\ flush' = [flush EXCEPT ![d] = f]
        /\ UNCHANGED <<version, ledger, leases, queue, paused, correction, wire>>
    BY <1>2 DEF StartFlush, serverVars, Shape, FlushesShaped
  <2> HIDE DEF f
  <2>3. wire' \subseteq wire /\ \A e \in Devices : paused'[e] => paused[e]
    BY <2>2
  <2>4. QED
    BY <2>1, <2>2, <2>3, WaitsHolder
<1>3. CASE FlushLoaded(d)
  <2>1. /\ UNCHANGED <<version, ledger, leases, queue, paused, correction, wire>>
        /\ flush[d].phase = "loading"
    BY <1>3 DEF FlushLoaded, serverVars
  <2>2. CASE queue[d] = <<>>
    <3>1. flush' = [flush EXCEPT ![d] = NoFlush] /\ NoFlush.phase = "idle" /\ NoFlush.batch = <<>>
      BY <1>3, <2>2 DEF FlushLoaded, NoFlush
    <3>2. wire' \subseteq wire /\ \A e \in Devices : paused'[e] => paused[e]
      BY <2>1
    <3>3. QED
      BY <2>1, <3>1, <3>2, WaitsHolder
  <2>3. CASE queue[d] # <<>>
    <3> DEFINE f == [flush[d] EXCEPT !.phase = "posting", !.batch = queue[d], !.version = version]
    <3>1. f.batch = queue[d] /\ f.version = version /\ f.phase = "posting"
      BY <1>1 DEF FlushType
    <3>2. flush' = [flush EXCEPT ![d] = f]
      BY <1>3, <2>3 DEF FlushLoaded
    <3> HIDE DEF f
    <3>3. flush'[d] = f /\ \A e \in Devices : e # d => flush'[e] = flush[e]
      BY <3>2, FlushPhases
    <3>4. Leads(queue[d], queue[d])
      BY <1>1 DEF Leads
    <3>5. InStep(version, Ids(ledger), queue[d], flush[d], paused[d])
      BY DEF HolderInv, ScreensInStep
    <3>6. InStep(version, Ids(ledger), queue[d], f, paused[d])
      BY <3>1, <3>4, <3>5 DEF InStep
    <3>7. InStep(version', Ids(ledger'), queue'[d], flush'[d], paused'[d])
      BY <2>1, <3>3, <3>6
    <3>8. d = leases[1]
      BY <2>1, HolderOnly
    <3>9. WireInStep'
      BY <2>1 DEF HolderInv, WireInStep
    <3>10. \A e \in Devices : e # d => /\ queue'[e] = queue[e]
                                       /\ flush'[e] = flush[e]
                                       /\ paused'[e] = paused[e]
      BY <2>1, <3>3
    <3>11. QED
      BY <2>1, <3>7, <3>8, <3>9, <3>10, HolderMoves DEF HolderKept
  <2>4. QED
    BY <2>2, <2>3
<1>4. CASE BallRefused(d)
  <2>1. /\ UNCHANGED <<version, ledger, leases, queue, correction, wire>>
        /\ flush[d].phase = "refused" /\ flush[d].batch # <<>> /\ flush[d].batch \in Seq(Ball)
        /\ flush' = [flush EXCEPT ![d] = NoFlush]
        /\ \A e \in Devices : e # d => paused'[e] = paused[e]
    BY <1>1, <1>4 DEF BallRefused, serverVars, FlushShape, FlushType, Shape, PausesTyped
  <2>2. InStep(version, Ids(ledger), queue[d], flush[d], paused[d])
    BY DEF HolderInv, ScreensInStep
  <2>3. Leads(flush[d].batch, queue[d]) /\ Head(flush[d].batch).player \in Ineligible
    BY <2>1, <2>2 DEF InStep
  <2>4. queue[d] # <<>> /\ Head(queue[d]) = Head(flush[d].batch)
    BY <1>1, <2>1, <2>3, LeadsHead
  <2>5. queue[d] # <<>> /\ Head(queue[d]).player \in Ineligible
    BY <2>3, <2>4
  <2>6. QED
    BY <2>1, <2>5, EndsHolder
<1>5. QED
  BY <1>2, <1>3, <1>4, PostInStep, AcknowledgeInStep DEF FlushStep

LEMMA ReloadInStep ==
    ASSUME OwnBrowsers, Shape, KeepInv, HolderInv, OneHolder, NEW d \in Devices, ReloadScreen(d)
    PROVE  HolderKept
<1>1. UNCHANGED queue
  <2>1. SaveOutbox(d, queue[d])
    BY DEF ReloadScreen, KeepInv, QueuesSaved
  <2>2. QED
    BY <2>1 DEF SaveOutbox, Shape, QueuesTyped
<1>2. UNCHANGED correction
  <2>1. correction \in [Devices -> CorrectionType] /\ correction[d] = NoCorrection
    BY DEF Shape, CorrectionsTyped, HolderInv, NoCorrections
  <2>2. QED
    BY <2>1 DEF ReloadScreen
<1>3. /\ ~paused'[d] /\ \A e \in Devices : e # d => paused'[e] = paused[e]
      /\ flush' = [flush EXCEPT ![d] = NoFlush]
      /\ wire' \subseteq wire \cup Abandoned(d)
      /\ UNCHANGED <<version, ledger, leases>>
  BY DEF ReloadScreen, Shape, PausesTyped, serverVars
<1>4. CASE flush[d].phase # "idle"
  BY <1>1, <1>2, <1>3, <1>4, EndsHolder
<1>5. CASE flush[d].phase = "idle"
  <2>1. wire' \subseteq wire
    BY <1>3, <1>5 DEF Abandoned
  <2>2. NoFlush.phase = "idle" /\ NoFlush.batch = <<>>
    BY DEF NoFlush
  <2>3. \A e \in Devices : paused'[e] => paused[e]
    BY <1>3
  <2>4. QED
    BY <1>1, <1>2, <1>3, <2>1, <2>2, <2>3, WaitsHolder
<1>6. QED
  BY <1>4, <1>5

\* A late request that is accepted is the delivery the holder would post next,
\* or is posting: the answer to it will be that of a retry.
LEMMA LateInStep ==
    ASSUME Shape, HolderInv, OneHolder, NEW r \in wire, ServerHandlesLate(r)
    PROVE  HolderKept
<1>1. r.kind = "ball" /\ WireInStep /\ ScreensInStep
  BY DEF HolderInv, WireInStep
<1>2. /\ UNCHANGED <<queue, flush, paused, correction>> /\ wire' \subseteq wire
      /\ \/ r.ball.id \notin Ids(ledger) /\ CreateLiveBall(r.ball)
         \/ UNCHANGED serverVars
  BY <1>1 DEF ServerHandlesLate, IsNewBall, screenVars
<1>3. CASE UNCHANGED serverVars
  BY <1>2, <1>3 DEF HolderInv, ScreensInStep, WireInStep, NoCorrections, HolderKept, serverVars
<1>4. CASE r.ball.id \notin Ids(ledger) /\ CreateLiveBall(r.ball)
  <2> DEFINE d == leases[1]
  <2>1. d \in Devices
    BY HolderOnly DEF Shape, ServerTyped
  <2>2. r.ball \in Ball /\ ledger \in Seq(Ball)
    BY <1>1 DEF Shape, ServerTyped, WireShaped, BallRequest, UndoRequest
  <2>3. Ids(ledger') = Ids(ledger) \cup {r.ball.id} /\ UNCHANGED leases
    BY <1>4, <2>2, IdsAppend DEF CreateLiveBall
  <2>4. queue[d] # <<>> /\ r.ball = Head(queue[d])
    BY <1>1, <1>4 DEF WireInStep
  <2>5. /\ queue[d] \in Seq(Ball) /\ flush[d].batch \in Seq(Ball)
        /\ flush[d].phase \in {"posting", "accepted"} => flush[d].batch # <<>>
    BY <2>1 DEF Shape, QueuesTyped, FlushesShaped, FlushType, FlushShape
  <2>6. InStep(version, Ids(ledger), queue[d], flush[d], paused[d])
    BY <1>1, <2>1 DEF ScreensInStep
  <2>7. flush[d].phase \in {"posting", "accepted"} => Head(flush[d].batch) = r.ball
    BY <2>4, <2>5, <2>6, LeadsHead DEF InStep
  <2> HIDE DEF d
  <2>8. InStep(version', Ids(ledger'), queue[d], flush[d], paused[d])
    BY <1>4, <2>3, <2>6, <2>7 DEF InStep
  <2>9. WireInStep'
    <3> SUFFICES ASSUME NEW q \in wire
                 PROVE  /\ q.kind = "ball"
                        /\ q.ball.id \notin Ids(ledger') =>
                              queue[leases[1]] # <<>> /\ q.ball = Head(queue[leases[1]])
      BY <1>2, <2>3 DEF WireInStep
    <3>1. QED
      BY <1>1, <2>3 DEF WireInStep
  <2>10. QED
    BY <1>2, <2>1, <2>3, <2>8, <2>9, HolderMoves DEF HolderKept, d
<1>5. QED
  BY <1>2, <1>3, <1>4

LEMMA HolderStep ==
    ASSUME OwnBrowsers, Shape, KeepInv, OrderInv, HolderInv, OneHolder, OneHolder', [Next]_vars
    PROVE  HolderKept
<1>1. ASSUME NEW d \in Devices, OperatorStep(d) \/ PollSession(d) \/ RefreshLive(d) \/ FinishCorrection(d)
      PROVE  HolderKept
  <2>1. ASSUME NEW id \in BallIds, NEW p \in Players, RecordBall(d, id, p) PROVE HolderKept
    BY <2>1, RecordInStep
  <2>2. CASE TakeOverScoring(d)
    <3>1. OpenLease(d) /\ UNCHANGED <<queue, flush, paused, correction, wire>>
      BY <2>2 DEF TakeOverScoring
    <3>2. QED
      BY <3>1, FirstLease
  <2>3. CASE PollSession(d)
    <3>1. /\ UNCHANGED <<queue, flush, paused, correction, wire>>
          /\ OpenLease(d) \/ UNCHANGED <<version, ledger, leases>>
      BY <2>3 DEF PollSession
    <3>2. QED
      BY <3>1, FirstLease, QuietHolder
  <2>4. CASE SyncQueued(d)
    <3> DEFINE f == [flush[d] EXCEPT !.phase = "loading", !.token = token[d]]
    <3>1. f.phase = "loading" /\ f.batch = <<>>
      BY <2>4 DEF SyncQueued, Shape, FlushesShaped, FlushType, FlushShape
    <3>2. /\ flush' = [flush EXCEPT ![d] = f]
          /\ UNCHANGED <<version, ledger, leases, queue, correction, wire>>
      BY <2>4 DEF SyncQueued, serverVars, Shape, FlushesShaped
    <3>3. \A e \in Devices : paused'[e] => paused[e]
      BY <2>4 DEF SyncQueued, Shape, PausesTyped
    <3> HIDE DEF f
    <3>4. wire' \subseteq wire
      BY <3>2
    <3>5. QED
      BY <3>1, <3>2, <3>3, <3>4, WaitsHolder
  <2>5. ~ UndoLast(d)
    BY DEF UndoLast, OneHolder, Shape, UsedType
  <2>6. ASSUME NEW id, NEW to, StartCorrection(d, id, to) PROVE FALSE
    BY <2>6 DEF StartCorrection, OneHolder, Shape, UsedType
  <2>7. CASE RefreshLive(d)
    BY <2>7, QuietHolder DEF RefreshLive, serverVars
  <2>8. ~ FinishCorrection(d)
    BY DEF FinishCorrection, HolderInv, NoCorrections
  <2>9. QED
    BY <1>1, <2>1, <2>2, <2>3, <2>4, <2>5, <2>6, <2>7, <2>8 DEF OperatorStep
<1>2. ASSUME NEW d \in Devices, FailureStep(d) PROVE HolderKept
  <2>1. CASE FlushFails(d)
    <3>1. /\ flush[d].phase # "idle" /\ flush' = [flush EXCEPT ![d] = NoFlush]
          /\ wire' \subseteq wire \cup Abandoned(d)
          /\ UNCHANGED <<version, ledger, leases, queue, paused, correction>>
      BY <2>1 DEF FlushFails, serverVars
    <3>2. ~paused'[d]
      BY <3>1 DEF HolderInv, PausedIdle
    <3>3. QED
      BY <3>1, <3>2, EndsHolder
  <2>2. CASE ReloadScreen(d)
    BY <2>2, ReloadInStep
  <2>3. ~ CorrectionFails(d)
    BY DEF CorrectionFails, HolderInv, NoCorrections
  <2>4. QED
    BY <1>2, <2>1, <2>2, <2>3 DEF FailureStep
<1>3. CASE LeaseLapses
  BY <1>3, QuietHolder DEF LeaseLapses, CloseLease, screenVars
<1>4. CASE UNCHANGED vars
  BY <1>4, QuietHolder DEF vars, serverVars, screenVars
<1>5. QED
  BY <1>1, <1>2, <1>3, <1>4, FlushStepInStep, LateInStep DEF Next

\* A flush never starts, and never goes on, while its screen is paused.
LEMMA PausedIdleStep ==
    ASSUME Shape, PausedIdle, [Next]_vars
    PROVE  PausedIdle'
<1>1. flush \in [Devices -> FlushType] /\ paused \in [Devices -> BOOLEAN]
  BY DEF Shape, FlushesShaped, PausesTyped
<1>2. ASSUME UNCHANGED flush, \A e \in Devices : paused'[e] => paused[e] PROVE PausedIdle'
  BY <1>2 DEF PausedIdle
<1>3. ASSUME NEW d \in Devices, NEW f, flush' = [flush EXCEPT ![d] = f],
             f.phase = "idle" \/ ~paused'[d],
             \A e \in Devices : e # d => paused'[e] = paused[e]
      PROVE  PausedIdle'
  BY <1>1, <1>3 DEF PausedIdle
<1>4. ASSUME NEW d \in Devices, FlushStep(d) PROVE PausedIdle'
  <2>1. CASE StartFlush(d)
    BY <2>1, <1>1 DEF StartFlush, PausedIdle, FlushType
  <2>2. CASE FlushLoaded(d)
    BY <2>2, <1>3 DEF FlushLoaded, PausedIdle
  <2>3. CASE ServerHandlesPost(d)
    BY <2>3, <1>1 DEF ServerHandlesPost, Moved, PausedIdle, FlushType
  <2>4. CASE BallAcknowledged(d)
    <3>1. UNCHANGED paused /\ ~paused[d]
      BY <2>4 DEF BallAcknowledged, PausedIdle
    <3>2. QED
      BY <2>4, <3>1, <1>3 DEF BallAcknowledged
  <2>5. CASE BallRefused(d)
    <3>1. NoFlush.phase = "idle" /\ \A e \in Devices : e # d => paused'[e] = paused[e]
      BY <1>1, <2>5 DEF BallRefused, NoFlush
    <3>2. QED
      BY <2>5, <3>1, <1>3 DEF BallRefused
  <2>6. QED
    BY <1>4, <2>1, <2>2, <2>3, <2>4, <2>5 DEF FlushStep
<1>5. ASSUME NEW d \in Devices, OperatorStep(d) \/ PollSession(d) \/ RefreshLive(d)
      PROVE  PausedIdle'
  <2>1. ASSUME NEW id, NEW p, RecordBall(d, id, p) PROVE PausedIdle'
    BY <2>1, <1>2 DEF RecordBall
  <2>2. CASE TakeOverScoring(d) \/ PollSession(d) \/ RefreshLive(d)
    BY <2>2, <1>2 DEF TakeOverScoring, PollSession, RefreshLive
  <2>3. CASE SyncQueued(d)
    BY <2>3, <1>1 DEF SyncQueued, PausedIdle, FlushType
  <2>4. CASE UndoLast(d)
    BY <2>4, <1>2 DEF UndoLast, screenVars
  <2>5. ASSUME NEW id, NEW to, StartCorrection(d, id, to) PROVE PausedIdle'
    BY <2>5, <1>2 DEF StartCorrection
  <2>6. QED
    BY <1>5, <2>1, <2>2, <2>3, <2>4, <2>5 DEF OperatorStep
<1>6. ASSUME NEW d \in Devices, FinishCorrection(d) PROVE PausedIdle'
  <2>1. paused' = [paused EXCEPT ![d] = FALSE] \/ UNCHANGED paused
    BY <1>6 DEF FinishCorrection
  <2>2. \A e \in Devices : paused'[e] => paused[e]
    BY <1>1, <2>1
  <2>3. QED
    BY <1>2, <1>6, <2>2 DEF FinishCorrection
<1>7. ASSUME NEW d \in Devices, FailureStep(d) PROVE PausedIdle'
  <2>1. CASE FlushFails(d)
    <3>1. NoFlush.phase = "idle"
      BY DEF NoFlush
    <3>2. QED
      BY <2>1, <3>1, <1>3 DEF FlushFails
  <2>2. CASE ReloadScreen(d)
    <3>1. NoFlush.phase = "idle" /\ \A e \in Devices : e # d => paused'[e] = paused[e]
      BY <1>1, <2>2 DEF ReloadScreen, NoFlush
    <3>2. QED
      BY <2>2, <3>1, <1>3 DEF ReloadScreen
  <2>3. CASE CorrectionFails(d)
    BY <2>3, <1>2 DEF CorrectionFails
  <2>4. QED
    BY <1>7, <2>1, <2>2, <2>3 DEF FailureStep
<1>8. ASSUME NEW r \in wire, ServerHandlesLate(r) PROVE PausedIdle'
  BY <1>8, <1>2 DEF ServerHandlesLate, screenVars
<1>9. CASE LeaseLapses \/ UNCHANGED vars
  BY <1>9, <1>2 DEF LeaseLapses, vars, screenVars
<1>10. QED
  BY <1>4, <1>5, <1>6, <1>7, <1>8, <1>9 DEF Next

LEMMA HolderImplies == Shape /\ HolderInv => PausedForAReason
<1> SUFFICES ASSUME Shape, HolderInv, NEW d \in Devices, paused[d], lease # NoToken, Len(leases) = 1,
                    used.undo = 0, used.correction = 0
             PROVE  queue[d] # <<>> /\ Head(queue[d]).player \in Ineligible
  BY DEF PausedForAReason
<1>1. OneHolder
  BY DEF OneHolder, NoToken, Shape, ServerTyped
<1>2. InStep(version, Ids(ledger), queue[d], flush[d], paused[d])
  BY <1>1 DEF HolderInv, ScreensInStep
<1>3. QED
  BY <1>2 DEF InStep

\* On screens with browsers of their own: as long as one screen has held the
\* only lease and nothing was undone or corrected, no lost reply, retry, late
\* request or reload pauses scoring; only a delivery the server cannot accept
\* does, and it is the first of the outbox.
THEOREM ScoringPausesForAReason == OwnBrowsers => (Spec => []PausedForAReason)
<1> SUFFICES ASSUME OwnBrowsers PROVE Spec => []PausedForAReason
  OBVIOUS
<1>1. Init => HolderInv
  <2> SUFFICES ASSUME Init PROVE HolderInv
    OBVIOUS
  <2>1. InStep(0, {}, <<>>, NoFlush, FALSE)
    <3>1. Leads(<<>>, <<>>)
      BY DEF Leads
    <3>2. QED
      BY <3>1 DEF InStep, NoFlush
  <2>2. Ids(<<>>) = {}
    BY DEF Ids
  <2>3. QED
    BY <2>1, <2>2
       DEF Init, ServerInit, HolderInv, PausedIdle, ScreensInStep, WireInStep, NoCorrections
<1>2. Shape /\ KeepInv /\ OrderInv /\ HolderInv /\ [Next]_vars => HolderInv'
  <2> SUFFICES ASSUME Shape, KeepInv, OrderInv, HolderInv, [Next]_vars PROVE HolderInv'
    OBVIOUS
  <2>1. PausedIdle'
    BY PausedIdleStep DEF HolderInv
  <2>2. ASSUME OneHolder' PROVE (ScreensInStep /\ WireInStep /\ NoCorrections)'
    BY <2>2, HolderBefore, HolderStep DEF HolderKept
  <2>3. QED
    BY <2>1, <2>2 DEF HolderInv
<1>3. Spec => []KeepInv /\ []OrderInv
  BY KeepAlways, OrderAlways
<1>4. QED
  BY <1>1, <1>2, <1>3, HolderImplies, ShapeKept, PTL DEF Spec
=============================================================================
