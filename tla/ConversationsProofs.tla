------------------------ MODULE ConversationsProofs ------------------------
(***************************************************************************)
(* Theorems of Conversations, for any messages, gaps, limits and restarts. *)
(* Segments and plans are computed message by message and piece by piece,  *)
(* so what they are is shown by induction: a number for which it failed    *)
(* would have a least one.                                                 *)
(***************************************************************************)
EXTENDS Conversations, FiniteSetTheorems, WellFoundedInduction, TLAPS

-----------------------------------------------------------------------------
(***************************************************************************)
(* Least and greatest.                                                     *)
(***************************************************************************)
LEMMA Least ==
    ASSUME NEW T, T \subseteq Nat, T # {}
    PROVE  \E m \in T : \A k \in T : m <= k
<1> DEFINE R == {p \in Nat \X Nat : p[1] < p[2]}
<1>1. IsWellFoundedOn(R, Nat)
  BY NatLessThanWellFounded DEF OpToRel
<1> HIDE DEF R
<1>2. PICK m \in T : \A y \in T : ~(<<y, m>> \in R)
  BY <1>1, WFMin
<1>3. \A y \in T : y \in Nat /\ m \in Nat /\ (<<y, m>> \in R <=> y < m)
  BY DEF R
<1>4. ASSUME NEW k \in T PROVE m <= k
  <2>1. k \in Nat /\ m \in Nat /\ ~(k < m)
    BY <1>2, <1>3
  <2> QED BY <2>1
<1> QED BY <1>4

LEMMA Upwards ==
    ASSUME NEW N \in Nat, NEW T, 0 \in T, \A n \in T : n \in Nat /\ n < N => n + 1 \in T
    PROVE  \A n \in 0..N : n \in T
<1> DEFINE Missing == {n \in 0..N : n \notin T}
<1> SUFFICES ASSUME Missing # {} PROVE FALSE
  OBVIOUS
<1>1. PICK n \in Missing : \A k \in Missing : n <= k
  <2>1. Missing \subseteq Nat
    OBVIOUS
  <2> QED BY <2>1, Least
<1>2. n \in Nat /\ n # 0 /\ n <= N
  BY <1>1
<1>3. n - 1 \in Nat /\ n - 1 < N /\ n - 1 \notin Missing /\ (n - 1) + 1 = n
  BY <1>1, <1>2
<1>4. n - 1 \in T
  BY <1>2, <1>3
<1> QED BY <1>1, <1>3, <1>4

LEMMA MaxIs ==
    ASSUME NEW S, S \subseteq Nat, NEW m \in S, \A k \in S : k <= m
    PROVE  Max(S) = m
<1>1. PICK n : n = Max(S)
  OBVIOUS
<1>2. n \in S /\ \A k \in S : n >= k
  BY <1>1 DEF Max
<1> QED BY <1>1, <1>2

LEMMA MinIs ==
    ASSUME NEW S, S \subseteq Nat, NEW m \in S, \A k \in S : m <= k
    PROVE  Min(S) = m
<1>1. PICK n : n = Min(S)
  OBVIOUS
<1>2. n \in S /\ \A k \in S : n <= k
  BY <1>1 DEF Min
<1> QED BY <1>1, <1>2

LEMMA MaxOfBounded ==
    ASSUME NEW S, S \subseteq Nat, S # {}, NEW B \in Nat, \A k \in S : k <= B
    PROVE  Max(S) \in S /\ \A k \in S : k <= Max(S)
<1> DEFINE U == {b \in Nat : \A k \in S : k <= b}
<1>1. PICK b \in U : \A c \in U : b <= c
  BY Least
<1>2. b \in Nat /\ \A k \in S : k <= b
  BY <1>1
<1>3. b \in S
  <2> SUFFICES ASSUME b \notin S PROVE FALSE
    OBVIOUS
  <2>1. ASSUME NEW k \in S PROVE k <= b - 1
    <3>1. k \in Nat /\ k <= b /\ k # b
      BY <1>2
    <3> QED BY <1>2, <3>1
  <2>2. PICK k \in S : TRUE
    OBVIOUS
  <2>3. b - 1 \in Nat
    <3>1. k \in Nat /\ k <= b - 1
      BY <2>1
    <3> QED BY <1>2, <3>1
  <2>4. b - 1 \in U
    BY <2>1, <2>3
  <2>5. b <= b - 1
    BY <1>1, <2>4
  <2> QED BY <1>2, <2>5
<1>4. Max(S) = b
  BY <1>2, <1>3, MaxIs
<1> QED BY <1>2, <1>3, <1>4

LEMMA MinOfNat ==
    ASSUME NEW S, S \subseteq Nat, S # {}
    PROVE  Min(S) \in S /\ \A k \in S : Min(S) <= k
<1>1. PICK m \in S : \A k \in S : m <= k
  BY Least
<1>2. Min(S) = m
  BY <1>1, MinIs
<1> QED BY <1>1, <1>2

-----------------------------------------------------------------------------
(***************************************************************************)
(* Segments.                                                               *)
(***************************************************************************)
LEMMA MsgFacts ==
    /\ Msg \subseteq Nat \ {0} /\ \A m \in Msg : SentAt[m] \in Nat \ {0}
    /\ \A m, n \in Msg : m <= n => SentAt[m] <= SentAt[n]
    /\ MaxMsg \in Nat \ {0} /\ Cap \in Nat \ {0} /\ Gaps \subseteq Nat \ {0}
BY BoundsAssumption, SentAtAssumption DEF Msg

LEMMA MsgFinite ==
    /\ IsFiniteSet(Msg) /\ Cardinality(Msg) = MaxMsg
    /\ \A T \in SUBSET Msg : IsFiniteSet(T) /\ Cardinality(T) \in Nat
<1>1. IsFiniteSet(Msg) /\ Cardinality(Msg) = MaxMsg
  BY FS_Interval, MsgFacts DEF Msg
<1>2. \A T \in SUBSET Msg : IsFiniteSet(T) /\ Cardinality(T) \in Nat
  BY <1>1, FS_Subset, FS_CardinalityType
<1> QED BY <1>1, <1>2

LEMMA FewerWithout ==
    ASSUME NEW T \in SUBSET Msg, NEW U \in SUBSET T, NEW n \in T \ U
    PROVE  Cardinality(U) < Cardinality(T)
<1>1. IsFiniteSet(T) /\ Cardinality(T) \in Nat /\ Cardinality(U) \in Nat
  BY MsgFinite
<1>2. IsFiniteSet(T \ {n}) /\ Cardinality(T \ {n}) = Cardinality(T) - 1
  BY <1>1, FS_RemoveElement
<1>3. U \subseteq T \ {n}
  OBVIOUS
<1>4. Cardinality(U) <= Cardinality(T \ {n})
  BY <1>2, <1>3, FS_Subset
<1> QED BY <1>1, <1>2, <1>4

LEMMA AtMost ==
    ASSUME NEW T \in SUBSET Msg, NEW U \in SUBSET T
    PROVE  Cardinality(U) <= Cardinality(T)
BY MsgFinite, FS_Subset

\* P lists the messages of S in order, in pieces of 1 to Cap.
Sized(P) == P \in Seq(Seq(Msg)) /\ \A i \in 1..Len(P) : Len(P[i]) \in 1..Cap

Lists(S, P) ==
    /\ \A i \in 1..Len(P) : \A a \in 1..Len(P[i]) : P[i][a] \in S
    /\ \A m \in S : \E i \in 1..Len(P) : \E a \in 1..Len(P[i]) : P[i][a] = m

InOrder(P) ==
    /\ \A i \in 1..Len(P) : \A a, b \in 1..Len(P[i]) : a < b => P[i][a] < P[i][b]
    /\ \A i, j \in 1..Len(P) : \A a \in 1..Len(P[i]), b \in 1..Len(P[j]) :
          i < j => P[i][a] < P[j][b]

\* No gap within a piece; a piece ends at a gap, or full.
Cut(g, P) ==
    /\ \A i \in 1..Len(P) : \A a \in 1..Len(P[i]) - 1 : ~Separates(g, P[i][a], P[i][a + 1])
    /\ \A i \in 1..Len(P) - 1 : Separates(g, P[i][Len(P[i])], P[i + 1][1]) \/ Len(P[i]) = Cap

Segments(g, S, P) == Sized(P) /\ Lists(S, P) /\ InOrder(P) /\ Cut(g, P)

LEMMA PlaceBegins ==
    ASSUME NEW g \in Nat, NEW P \in Seq(Seq(Msg)), NEW m \in Msg,
           \/ P = <<>> \/ Separates(g, Last(Last(P)), m) \/ Len(Last(P)) >= Cap
    PROVE  LET Q == Place(g, P, m) IN
           /\ Q \in Seq(Seq(Msg)) /\ Len(Q) = Len(P) + 1
           /\ \A i \in 1..Len(P) : Q[i] = P[i]
           /\ Q[Len(P) + 1] = <<m>>
<1>1. Place(g, P, m) = Append(P, <<m>>)
  BY DEF Place
<1>2. <<m>> \in Seq(Msg)
  OBVIOUS
<1> QED BY <1>1, <1>2

LEMMA PlaceExtends ==
    ASSUME NEW g \in Nat, NEW P \in Seq(Seq(Msg)), NEW m \in Msg,
           P # <<>>, ~Separates(g, Last(Last(P)), m), ~(Len(Last(P)) >= Cap)
    PROVE  LET Q == Place(g, P, m) IN
           /\ Q \in Seq(Seq(Msg)) /\ Len(Q) = Len(P)
           /\ \A i \in 1..Len(P) - 1 : Q[i] = P[i]
           /\ Q[Len(P)] = Append(P[Len(P)], m)
<1>1. Place(g, P, m) = Front(P) \o <<Append(Last(P), m)>>
  BY DEF Place
<1>2. Len(P) \in Nat \ {0} /\ P[Len(P)] \in Seq(Msg) /\ Last(P) = P[Len(P)]
  BY DEF Last
<1>3. Append(P[Len(P)], m) \in Seq(Msg)
  BY <1>2
<1>4. Front(P) \in Seq(Seq(Msg)) /\ Len(Front(P)) = Len(P) - 1
      /\ \A i \in 1..Len(P) - 1 : Front(P)[i] = P[i]
  <2>1. Len(P) - 1 \in Nat /\ Len(P) - 1 <= Len(P)
    BY <1>2
  <2>2. \A i \in 1..Len(P) - 1 : P[i] \in Seq(Msg)
    BY <1>2
  <2> DEFINE k == Len(P) - 1
  <2> HIDE DEF k
  <2>3. Front(P) = [i \in 1..k |-> P[i]]
    <3>1. Front(P) = SubSeq(P, 1, k)
      BY DEF Front, k
    <3> QED BY <2>1, <3>1 DEF k
  <2>4. k \in Nat /\ \A i \in 1..k : P[i] \in Seq(Msg)
    BY <2>1, <2>2 DEF k
  <2>5. Front(P) \in Seq(Seq(Msg)) /\ Len(Front(P)) = k /\ \A i \in 1..k : Front(P)[i] = P[i]
    BY <2>3, <2>4
  <2> QED BY <2>5 DEF k
<1> HIDE DEF Front, Last
<1> DEFINE x == Append(P[Len(P)], m)
<1> HIDE DEF x
<1>5. Place(g, P, m) = Front(P) \o <<x>> /\ x \in Seq(Msg)
  BY <1>1, <1>2, <1>3 DEF x
<1>6. /\ Front(P) \o <<x>> \in Seq(Seq(Msg)) /\ Len(Front(P) \o <<x>>) = Len(P)
      /\ \A i \in 1..Len(P) - 1 : (Front(P) \o <<x>>)[i] = P[i]
      /\ (Front(P) \o <<x>>)[Len(P)] = x
  BY <1>2, <1>4, <1>5, SMTT(30)
<1> QED BY <1>5, <1>6 DEF x

\* Placing a message later than those of S keeps what Segments says.
LEMMA Placed ==
    ASSUME NEW g \in Nat, NEW S \in SUBSET Msg, NEW P, Segments(g, S, P),
           NEW m \in Msg, \A k \in S : k < m
    PROVE  Segments(g, S \cup {m}, Place(g, P, m))
<1>1. /\ P \in Seq(Seq(Msg)) /\ Len(P) \in Nat
      /\ \A i \in 1..Len(P) : P[i] \in Seq(Msg) /\ Len(P[i]) \in 1..Cap
      /\ \A i \in 1..Len(P) : \A a \in 1..Len(P[i]) : P[i][a] \in Msg
  BY DEF Segments, Sized
<1>2. Msg \subseteq Nat /\ Cap \in Nat \ {0} /\ m \in Nat
  BY MsgFacts
<1>3. \A i \in 1..Len(P) : \A a \in 1..Len(P[i]) : P[i][a] \in S /\ P[i][a] < m
  BY DEF Segments, Lists
<1> DEFINE Q == Place(g, P, m)
<1>4. CASE \/ P = <<>> \/ Separates(g, Last(Last(P)), m) \/ Len(Last(P)) >= Cap
  <2>1. /\ Q \in Seq(Seq(Msg)) /\ Len(Q) = Len(P) + 1
        /\ \A i \in 1..Len(P) : Q[i] = P[i]
        /\ Q[Len(P) + 1] = <<m>>
    BY <1>1, <1>4, PlaceBegins
  <2> HIDE DEF Q
  <2>2. \A i \in 1..Len(Q) : (i \in 1..Len(P) /\ Q[i] = P[i]) \/ (i = Len(P) + 1 /\ Q[i] = <<m>>)
    <3>1. \A i \in 1..Len(Q) : i \in 1..Len(P) \/ i = Len(P) + 1
      BY <1>1, <2>1
    <3> TAKE i \in 1..Len(Q)
    <3>2. CASE i \in 1..Len(P)
      BY <2>1, <3>2
    <3>3. CASE i = Len(P) + 1
      BY <2>1, <3>3
    <3> QED BY <3>1, <3>2, <3>3
  <2>3. Sized(Q)
    <3>1. \A i \in 1..Len(Q) : Len(Q[i]) \in 1..Cap
      <4>1. Len(<<m>>) \in 1..Cap
        BY <1>2
      <4> QED BY <1>1, <2>2, <4>1
    <3> QED BY <2>1, <3>1 DEF Sized
  <2>4. Lists(S \cup {m}, Q)
    <3>1. ASSUME NEW i \in 1..Len(Q), NEW a \in 1..Len(Q[i]) PROVE Q[i][a] \in S \cup {m}
      BY <1>3, <2>2
    <3>2. ASSUME NEW n \in S PROVE \E i \in 1..Len(Q) : \E a \in 1..Len(Q[i]) : Q[i][a] = n
      <4>1. PICK i \in 1..Len(P) : \E a \in 1..Len(P[i]) : P[i][a] = n
        BY DEF Segments, Lists
      <4>2. i \in 1..Len(Q) /\ Q[i] = P[i]
        BY <1>1, <2>1
      <4> QED BY <4>1, <4>2
    <3>3. \E i \in 1..Len(Q) : \E a \in 1..Len(Q[i]) : Q[i][a] = m
      <4>1. Len(Q) \in 1..Len(Q) /\ Q[Len(Q)] = <<m>> /\ 1 \in 1..Len(<<m>>) /\ <<m>>[1] = m
        BY <1>1, <2>1
      <4> QED BY <4>1
    <3> QED BY <3>1, <3>2, <3>3 DEF Lists
  <2>5. InOrder(Q)
    <3>1. ASSUME NEW i \in 1..Len(Q), NEW a \in 1..Len(Q[i]), NEW b \in 1..Len(Q[i]), a < b
          PROVE  Q[i][a] < Q[i][b]
      <4>1. CASE i \in 1..Len(P) /\ Q[i] = P[i]
        BY <3>1, <4>1 DEF Segments, InOrder
      <4>2. CASE Q[i] = <<m>>
        BY <3>1, <4>2
      <4> QED BY <2>2, <4>1, <4>2
    <3>2. ASSUME NEW i \in 1..Len(Q), NEW j \in 1..Len(Q), NEW a \in 1..Len(Q[i]),
                 NEW b \in 1..Len(Q[j]), i < j
          PROVE  Q[i][a] < Q[j][b]
      <4>1. i \in 1..Len(P) /\ Q[i] = P[i]
        BY <1>1, <2>1, <3>2, SMTT(30)
      <4>2. CASE j \in 1..Len(P)
        <5>1. Q[j] = P[j]
          BY <2>1, <4>2
        <5> QED BY <3>2, <4>1, <4>2, <5>1 DEF Segments, InOrder
      <4>3. CASE Q[j] = <<m>>
        <5>1. Q[j][b] = m
          BY <4>3
        <5> QED BY <1>3, <4>1, <5>1
      <4> QED BY <2>2, <4>2, <4>3
    <3> QED BY <3>1, <3>2 DEF InOrder
  <2>6. Cut(g, Q)
    <3>1. ASSUME NEW i \in 1..Len(Q), NEW a \in 1..Len(Q[i]) - 1
          PROVE  ~Separates(g, Q[i][a], Q[i][a + 1])
      <4>1. CASE i \in 1..Len(P) /\ Q[i] = P[i]
        BY <4>1 DEF Segments, Cut
      <4>2. CASE Q[i] = <<m>>
        BY <4>2
      <4> QED BY <2>2, <4>1, <4>2
    <3>2. ASSUME NEW i \in 1..Len(Q) - 1
          PROVE  Separates(g, Q[i][Len(Q[i])], Q[i + 1][1]) \/ Len(Q[i]) = Cap
      <4>1. CASE i \in 1..Len(P) - 1
        <5>1. i \in 1..Len(P) /\ i + 1 \in 1..Len(P)
          BY <1>1, <4>1
        <5>2. Q[i] = P[i] /\ Q[i + 1] = P[i + 1]
          BY <2>1, <5>1
        <5> QED BY <4>1, <5>2 DEF Segments, Cut
      <4>2. CASE i = Len(P)
        <5>1. P # <<>> /\ i \in 1..Len(P) /\ i + 1 = Len(P) + 1
          BY <1>1, <2>1, <3>2, <4>2
        <5>2. Q[i] = Last(P) /\ Q[i + 1][1] = m /\ Last(P) = P[i]
          BY <2>1, <4>2, <5>1 DEF Last
        <5>3. CASE Separates(g, Last(Last(P)), m)
          BY <5>2, <5>3 DEF Last
        <5>4. CASE Len(Last(P)) >= Cap
          <6>1. Len(P[i]) \in 1..Cap
            BY <1>1, <5>1
          <6> QED BY <1>2, <5>2, <5>4, <6>1
        <5> QED BY <1>4, <5>1, <5>3, <5>4
      <4> QED BY <1>1, <2>1, <4>1, <4>2
    <3> QED BY <3>1, <3>2 DEF Cut
  <2> QED BY <2>3, <2>4, <2>5, <2>6 DEF Segments, Q
<1>5. CASE P # <<>> /\ ~Separates(g, Last(Last(P)), m) /\ ~(Len(Last(P)) >= Cap)
  <2> DEFINE n == Len(P)
  <2>1. /\ Q \in Seq(Seq(Msg)) /\ Len(Q) = n
        /\ \A i \in 1..n - 1 : Q[i] = P[i]
        /\ Q[n] = Append(P[n], m)
    BY <1>1, <1>5, PlaceExtends
  <2>2. n \in 1..n /\ n \in Nat /\ Last(P) = P[n]
    BY <1>1, <1>5 DEF Last
  <2> HIDE DEF Q, n
  <2>3. Len(P[n]) \in Nat /\ Len(P[n]) < Cap /\ Len(P[n]) >= 1 /\ P[n] \in Seq(Msg)
    <3>1. Len(P[n]) \in 1..Cap /\ P[n] \in Seq(Msg)
      BY <1>1, <2>2 DEF n
    <3> QED BY <1>2, <1>5, <2>2, <3>1
  <2>4. /\ Len(Q[n]) = Len(P[n]) + 1 /\ Q[n][Len(P[n]) + 1] = m
        /\ \A a \in 1..Len(P[n]) : Q[n][a] = P[n][a]
    BY <2>1, <2>3
  <2>5. /\ \A i \in 1..n : Len(Q[i]) \in Nat /\ Len(P[i]) \in Nat /\ Len(P[i]) <= Len(Q[i])
        /\ \A i \in 1..n : \A a \in 1..Len(P[i]) : a \in 1..Len(Q[i]) /\ Q[i][a] = P[i][a]
        /\ \A i \in 1..n : \A a \in 1..Len(Q[i]) :
              \/ a \in 1..Len(P[i]) /\ Q[i][a] = P[i][a]
              \/ i = n /\ a = Len(P[n]) + 1 /\ Q[i][a] = m
        /\ \A i \in 1..n : i = n \/ (Q[i] = P[i] /\ i \in 1..n - 1)
    <3>1. \A i \in 1..n : i = n \/ i \in 1..n - 1
      BY <2>2
    <3>2. ASSUME NEW i \in 1..n, i \in 1..n - 1
          PROVE  Q[i] = P[i] /\ Len(P[i]) \in Nat
      <4>1. i \in 1..Len(P) /\ Q[i] = P[i]
        BY <2>1, <3>2 DEF n
      <4>2. Len(P[i]) \in 1..Cap
        BY <1>1, <4>1
      <4> QED BY <1>2, <4>1, <4>2
    <3>3. ASSUME NEW i \in 1..n, i \in 1..n - 1
          PROVE  /\ Len(Q[i]) = Len(P[i]) /\ Len(P[i]) \in Nat /\ i # n
                 /\ \A a \in 1..Len(Q[i]) : a \in 1..Len(P[i]) /\ Q[i][a] = P[i][a]
      BY <2>2, <3>2, <3>3
    <3>4. \A a \in 1..Len(Q[n]) : a \in 1..Len(P[n]) \/ a = Len(P[n]) + 1
      BY <2>3, <2>4
    <3>5. \A a \in 1..Len(P[n]) : a \in 1..Len(Q[n])
      BY <2>3, <2>4
    <3>6. \A i \in 1..n : Len(Q[i]) \in Nat /\ Len(P[i]) \in Nat /\ Len(P[i]) <= Len(Q[i])
      BY <2>3, <2>4, <3>1, <3>3
    <3>7. \A i \in 1..n : \A a \in 1..Len(P[i]) : a \in 1..Len(Q[i]) /\ Q[i][a] = P[i][a]
      BY <2>4, <3>1, <3>3, <3>5
    <3>8. ASSUME NEW i \in 1..n, NEW a \in 1..Len(Q[i])
          PROVE  \/ a \in 1..Len(P[i]) /\ Q[i][a] = P[i][a]
                 \/ i = n /\ a = Len(P[n]) + 1 /\ Q[i][a] = m
      <4>1. CASE i = n
        <5>1. a \in 1..Len(P[n]) \/ a = Len(P[n]) + 1
          BY <3>4, <4>1
        <5>2. CASE a \in 1..Len(P[n])
          BY <2>4, <4>1, <5>2
        <5>3. CASE a = Len(P[n]) + 1
          BY <2>4, <4>1, <5>3
        <5> QED BY <5>1, <5>2, <5>3
      <4>2. CASE i \in 1..n - 1
        BY <3>3, <4>2
      <4> QED BY <3>1, <4>1, <4>2
    <3>9. \A i \in 1..n : i = n \/ (Q[i] = P[i] /\ i \in 1..n - 1)
      BY <3>1, <3>2
    <3> QED BY <3>6, <3>7, <3>8, <3>9, Zenon
  <2>6. Sized(Q)
    <3>1. \A i \in 1..n : Len(Q[i]) \in 1..Cap
      <4> TAKE i \in 1..n
      <4>1. CASE i = n
        BY <1>2, <2>3, <2>4, <4>1
      <4>2. CASE Q[i] = P[i]
        BY <1>1, <4>2 DEF n
      <4> QED BY <2>5, <4>1, <4>2
    <3> QED BY <2>1, <3>1 DEF Sized
  <2>7. Lists(S \cup {m}, Q)
    <3>1. ASSUME NEW i \in 1..n, NEW a \in 1..Len(Q[i]) PROVE Q[i][a] \in S \cup {m}
      BY <1>3, <2>5 DEF n
    <3>2. ASSUME NEW k \in S PROVE \E i \in 1..n : \E a \in 1..Len(Q[i]) : Q[i][a] = k
      <4>1. PICK i \in 1..n : \E a \in 1..Len(P[i]) : P[i][a] = k
        BY DEF Segments, Lists, n
      <4> QED BY <2>5, <4>1
    <3>3. \E i \in 1..n : \E a \in 1..Len(Q[i]) : Q[i][a] = m
      <4>1. Len(P[n]) + 1 \in 1..Len(Q[n])
        BY <2>3, <2>4
      <4> QED BY <2>2, <2>4, <4>1
    <3> QED BY <2>1, <3>1, <3>2, <3>3 DEF Lists
  <2>8. InOrder(Q)
    <3>1. ASSUME NEW i \in 1..n, NEW a \in 1..Len(Q[i]), NEW b \in 1..Len(Q[i]), a < b
          PROVE  Q[i][a] < Q[i][b]
      <4>1. CASE b \in 1..Len(P[i])
        <5>1. a \in 1..Len(P[i])
          BY <2>5, <3>1, <4>1
        <5>2. P[i][a] < P[i][b]
          BY <3>1, <4>1, <5>1 DEF Segments, InOrder, n
        <5> QED BY <2>5, <4>1, <5>1, <5>2
      <4>2. CASE i = n /\ b = Len(P[n]) + 1 /\ Q[i][b] = m
        <5>1. a \in 1..Len(P[n])
          BY <2>3, <3>1, <4>2
        <5>2. Q[i][a] = P[i][a]
          BY <2>5, <4>2, <5>1
        <5> QED BY <1>3, <2>2, <4>2, <5>1, <5>2 DEF n
      <4> QED BY <2>5, <4>1, <4>2
    <3>2. ASSUME NEW i \in 1..n, NEW j \in 1..n, NEW a \in 1..Len(Q[i]),
                 NEW b \in 1..Len(Q[j]), i < j
          PROVE  Q[i][a] < Q[j][b]
      <4>1. a \in 1..Len(P[i]) /\ Q[i][a] = P[i][a]
        <5>1. i # n
          BY <2>2, <3>2
        <5> QED BY <2>5, <5>1
      <4>2. CASE b \in 1..Len(P[j]) /\ Q[j][b] = P[j][b]
        <5>1. P[i][a] < P[j][b]
          BY <3>2, <4>1, <4>2 DEF Segments, InOrder, n
        <5> QED BY <4>1, <4>2, <5>1
      <4>3. CASE Q[j][b] = m
        BY <1>3, <4>1, <4>3 DEF n
      <4> QED BY <2>5, <4>2, <4>3
    <3> QED BY <2>1, <3>1, <3>2 DEF InOrder
  <2>9. Cut(g, Q)
    <3>1. ASSUME NEW i \in 1..n, NEW a \in 1..Len(Q[i]) - 1
          PROVE  ~Separates(g, Q[i][a], Q[i][a + 1])
      <4>0. Len(Q[i]) \in Nat /\ a \in Nat /\ a >= 1 /\ a + 1 <= Len(Q[i])
        BY <2>5
      <4>1. CASE a + 1 \in 1..Len(P[i])
        <5>1. a \in 1..Len(P[i]) - 1 /\ a \in 1..Len(P[i])
          BY <2>5, <4>0, <4>1
        <5>2. ~Separates(g, P[i][a], P[i][a + 1])
          BY <5>1 DEF Segments, Cut, n
        <5> QED BY <2>5, <4>1, <5>1, <5>2
      <4>2. CASE i = n /\ a + 1 = Len(P[n]) + 1 /\ Q[i][a + 1] = m
        <5>1. a = Len(P[n]) /\ a \in 1..Len(P[n])
          BY <2>3, <4>0, <4>2
        <5>2. Q[i][a] = Last(Last(P))
          BY <2>2, <2>4, <4>2, <5>1 DEF Last
        <5> QED BY <1>5, <4>2, <5>2
      <4>3. a + 1 \in 1..Len(Q[i])
        BY <4>0
      <4> QED BY <2>5, <4>1, <4>2, <4>3
    <3>2. ASSUME NEW i \in 1..n - 1
          PROVE  Separates(g, Q[i][Len(Q[i])], Q[i + 1][1]) \/ Len(Q[i]) = Cap
      <4>1. i + 1 \in 1..n /\ i \in 1..n /\ Q[i] = P[i]
        BY <2>1, <2>2
      <4>2. 1 \in 1..Len(P[i + 1])
        BY <1>1, <1>2, <4>1 DEF n
      <4>3. Q[i + 1][1] = P[i + 1][1]
        BY <2>5, <4>1, <4>2
      <4> QED BY <4>1, <4>3 DEF Segments, Cut, n
    <3> QED BY <2>1, <3>1, <3>2 DEF Cut
  <2> QED BY <2>6, <2>7, <2>8, <2>9 DEF Segments, Q
<1> QED BY <1>4, <1>5

\* What Divide has placed when it has come to m.
DivideTo(g, S, m, P) == IF m = 0 THEN <<>> ELSE IF m \in S THEN Place(g, P, m) ELSE P

LEMMA DivideUnfolds ==
    ASSUME NEW g \in Nat, NEW S \in SUBSET Msg
    PROVE  \E f : /\ Divide(g, S) = f[MaxMsg] /\ f[0] = <<>>
                  /\ \A m \in Msg : f[m] = DivideTo(g, S, m, f[m - 1])
<1> DEFINE Def(f) == [m \in 0..MaxMsg |-> DivideTo(g, S, m, f[m - 1])]
           Good(n) == \E h : \A m \in 0..n : h[m] = DivideTo(g, S, m, h[m - 1])
           Goods == {n \in Nat : Good(n)}
<1>1. Good(0)
  <2> DEFINE h == [i \in {0} |-> <<>>]
  <2>1. \A m \in 0..0 : m = 0
    OBVIOUS
  <2>2. h[0] = <<>>
    OBVIOUS
  <2>3. \A m \in 0..0 : h[m] = DivideTo(g, S, m, h[m - 1])
    BY <2>1, <2>2 DEF DivideTo
  <2> QED BY <2>3
<1>2. ASSUME NEW n \in Nat, Good(n) PROVE Good(n + 1)
  <2>1. PICK h : \A m \in 0..n : h[m] = DivideTo(g, S, m, h[m - 1])
    BY <1>2
  <2> DEFINE k == [m \in 0..n + 1 |-> IF m = n + 1 THEN DivideTo(g, S, m, h[n]) ELSE h[m]]
  <2>2. ASSUME NEW m \in 0..n + 1 PROVE k[m] = DivideTo(g, S, m, k[m - 1])
    <3>1. CASE m = n + 1
      <4>1. k[m] = DivideTo(g, S, m, h[n]) /\ m - 1 = n /\ n \in 0..n + 1 /\ k[n] = h[n]
        BY <3>1
      <4> QED BY <4>1
    <3>2. CASE m \in 1..n
      <4>1. m \in 0..n /\ m - 1 \in 0..n + 1 /\ m - 1 # n + 1 /\ m # n + 1
        BY <3>2
      <4>2. k[m] = h[m] /\ k[m - 1] = h[m - 1]
        BY <4>1
      <4> QED BY <2>1, <4>1, <4>2
    <3>3. CASE m = 0
      <4>1. k[0] = h[0] /\ 0 \in 0..n
        BY <3>3
      <4> QED BY <2>1, <3>3, <4>1 DEF DivideTo
    <3> QED BY <3>1, <3>2, <3>3
  <2> HIDE DEF k
  <2> QED BY <2>2
<1> HIDE DEF Good
<1>3. \A n \in 0..MaxMsg : n \in Goods
  <2>1. 0 \in Goods /\ \A n \in Goods : n \in Nat /\ n < MaxMsg => n + 1 \in Goods
    BY <1>1, <1>2
  <2> HIDE DEF Goods
  <2> QED BY <2>1, Upwards, MsgFacts
<1>4. Good(MaxMsg)
  BY <1>3, MsgFacts
<1>5. PICK h : \A m \in 0..MaxMsg : h[m] = DivideTo(g, S, m, h[m - 1])
  BY <1>4 DEF Good
<1> DEFINE e == [m \in 0..MaxMsg |-> h[m]]
<1>6. e = Def(e)
  <2>1. ASSUME NEW m \in 0..MaxMsg PROVE h[m] = DivideTo(g, S, m, e[m - 1])
    <3>1. CASE m = 0
      BY <1>5, <3>1 DEF DivideTo
    <3>2. CASE m # 0
      <4>1. m - 1 \in 0..MaxMsg
        BY <3>2, MsgFacts
      <4> QED BY <1>5, <4>1
    <3> QED BY <3>1, <3>2
  <2> QED BY <2>1
<1> HIDE DEF e
<1> DEFINE c == CHOOSE f : f = Def(f)
<1>7. c = Def(c)
  BY <1>6
<1>8. Divide(g, S) = c[MaxMsg]
  BY DEF Divide, DivideTo
<1> HIDE DEF c
<1>9. \A m \in 0..MaxMsg : c[m] = DivideTo(g, S, m, c[m - 1])
  BY <1>7
<1>10. c[0] = <<>>
  <2>1. 0 \in 0..MaxMsg
    BY MsgFacts
  <2> QED BY <1>9, <2>1 DEF DivideTo
<1>11. \A m \in Msg : m \in 0..MaxMsg
  BY MsgFacts DEF Msg
<1> QED BY <1>8, <1>9, <1>10, <1>11

\* segment() cuts messages, in their order, where there is a gap and where a
\* conversation is full, and nowhere else.
LEMMA DivideSegments ==
    ASSUME NEW g \in Nat, NEW S \in SUBSET Msg
    PROVE  Segments(g, S, Divide(g, S))
<1>1. PICK f : /\ Divide(g, S) = f[MaxMsg] /\ f[0] = <<>>
               /\ \A m \in Msg : f[m] = DivideTo(g, S, m, f[m - 1])
  BY DivideUnfolds
<1> DEFINE To(n) == {m \in S : m <= n}
           Good(n) == Segments(g, To(n), f[n])
           Goods == {n \in Nat : Good(n)}
<1>2. Good(0)
  <2>1. To(0) = {}
    <3>1. \A m \in S : m \in Nat /\ m # 0
      BY MsgFacts
    <3>2. \A m \in S : ~(m <= 0)
      BY <3>1
    <3> QED BY <3>2
  <2>2. Segments(g, {}, <<>>)
    BY DEF Segments, Sized, Lists, InOrder, Cut
  <2> QED BY <1>1, <2>1, <2>2
<1>3. ASSUME NEW n \in Nat, n + 1 <= MaxMsg, Good(n) PROVE Good(n + 1)
  <2>1. n + 1 \in Msg /\ (n + 1) - 1 = n
    BY <1>3, MsgFacts DEF Msg
  <2>2. f[n + 1] = DivideTo(g, S, n + 1, f[n])
    BY <1>1, <2>1
  <2>3. \A m \in S : m \in Nat
    BY MsgFacts
  <2>4. CASE n + 1 \in S
    <3>1. To(n + 1) = To(n) \cup {n + 1}
      BY <2>3, <2>4
    <3>2. To(n) \in SUBSET Msg /\ \A k \in To(n) : k < n + 1
      BY <2>3
    <3>3. f[n + 1] = Place(g, f[n], n + 1)
      BY <2>2, <2>4 DEF DivideTo
    <3> HIDE DEF To
    <3>4. Segments(g, To(n) \cup {n + 1}, Place(g, f[n], n + 1))
      BY <1>3, <2>1, <3>2, Placed
    <3> QED BY <3>1, <3>3, <3>4
  <2>5. CASE n + 1 \notin S
    <3>1. To(n + 1) = To(n)
      BY <2>3, <2>5
    <3>2. f[n + 1] = f[n]
      BY <2>2, <2>5 DEF DivideTo
    <3> QED BY <1>3, <3>1, <3>2
  <2> QED BY <2>4, <2>5
<1>4. To(MaxMsg) = S
  <2>1. \A m \in S : m <= MaxMsg
    BY MsgFacts DEF Msg
  <2> QED BY <2>1
<1> HIDE DEF Good
<1>5. \A n \in 0..MaxMsg : n \in Goods
  <2>1. 0 \in Goods /\ \A n \in Goods : n \in Nat /\ n < MaxMsg => n + 1 \in Goods
    <3>1. \A n \in Nat : n < MaxMsg => n + 1 <= MaxMsg /\ n + 1 \in Nat
      BY MsgFacts
    <3> QED BY <1>2, <1>3, <3>1
  <2> HIDE DEF Goods
  <2> QED BY <2>1, Upwards, MsgFacts
<1>6. Good(MaxMsg)
  BY <1>5, MsgFacts
<1> QED BY <1>1, <1>4, <1>6 DEF Good

-----------------------------------------------------------------------------
(***************************************************************************)
(* Segments are what the order-free definition calls messages together.    *)
(***************************************************************************)
LEMMA SegmentFacts ==
    ASSUME NEW g \in Nat, NEW S \in SUBSET Msg, NEW P, Segments(g, S, P)
    PROVE  /\ P \in Seq(Seq(Msg)) /\ Len(P) \in Nat
           /\ \A i \in 1..Len(P) : /\ P[i] \in Seq(Msg) /\ Len(P[i]) \in Nat
                                    /\ Len(P[i]) >= 1 /\ Len(P[i]) <= Cap
                                    /\ 1 \in 1..Len(P[i]) /\ Len(P[i]) \in 1..Len(P[i])
           /\ \A i \in 1..Len(P) : \A a \in 1..Len(P[i]) : P[i][a] \in S /\ P[i][a] \in Nat
<1>1. P \in Seq(Seq(Msg)) /\ \A i \in 1..Len(P) : Len(P[i]) \in 1..Cap
  BY DEF Segments, Sized
<1>2. \A i \in 1..Len(P) : P[i] \in Seq(Msg) /\ Len(P[i]) \in 1..Cap
  BY <1>1
<1>3. \A i \in 1..Len(P) : \A a \in 1..Len(P[i]) : P[i][a] \in S
  BY DEF Segments, Lists
<1>4. Cap \in Nat /\ \A m \in S : m \in Nat
  BY MsgFacts
<1>5. Len(P) \in Nat
  BY <1>1
<1>6. \A n : n \in 1..Cap => n \in Nat /\ n >= 1 /\ n <= Cap /\ 1 \in 1..n /\ n \in 1..n
  BY <1>4
<1> QED BY <1>1, <1>2, <1>3, <1>4, <1>5, <1>6, Zenon

\* Nothing of S lies between neighbours.
LEMMA Neighbours ==
    ASSUME NEW g \in Nat, NEW S \in SUBSET Msg, NEW P, Segments(g, S, P),
           NEW i \in 1..Len(P)
    PROVE  /\ \A a \in 1..Len(P[i]) - 1 : \A k \in S : k <= P[i][a] \/ P[i][a + 1] <= k
           /\ i + 1 \in 1..Len(P) =>
                 \A k \in S : k <= P[i][Len(P[i])] \/ P[i + 1][1] <= k
           /\ i = 1 => \A k \in S : P[1][1] <= k
<1>0. \A k \in S : \E j \in 1..Len(P) : \E b \in 1..Len(P[j]) : P[j][b] = k
  BY DEF Segments, Lists
<1>1. \A j \in 1..Len(P) : \A a, b \in 1..Len(P[j]) : a <= b => P[j][a] <= P[j][b]
  <2> SUFFICES ASSUME NEW j \in 1..Len(P), NEW a \in 1..Len(P[j]), NEW b \in 1..Len(P[j]), a <= b
               PROVE  P[j][a] <= P[j][b]
    OBVIOUS
  <2>1. P[j][a] \in Nat /\ P[j][b] \in Nat
    BY SegmentFacts
  <2>2. CASE a < b
    BY <2>1, <2>2 DEF Segments, InOrder
  <2>3. CASE a = b
    BY <2>1, <2>3
  <2> QED BY <2>2, <2>3
<1>2. \A h, j \in 1..Len(P) : \A a \in 1..Len(P[h]), b \in 1..Len(P[j]) :
          h < j => P[h][a] <= P[j][b]
  <2> SUFFICES ASSUME NEW h \in 1..Len(P), NEW j \in 1..Len(P),
                      NEW a \in 1..Len(P[h]), NEW b \in 1..Len(P[j]), h < j
               PROVE  P[h][a] <= P[j][b]
    OBVIOUS
  <2>1. P[h][a] \in Nat /\ P[j][b] \in Nat
    BY SegmentFacts
  <2> QED BY <2>1, SMTT(30) DEF Segments, InOrder
<1>3. ASSUME NEW a \in 1..Len(P[i]) - 1, NEW k \in S
      PROVE  k <= P[i][a] \/ P[i][a + 1] <= k
  <2>0. PICK j \in 1..Len(P) : \E b \in 1..Len(P[j]) : P[j][b] = k
    BY <1>0
  <2>1. PICK b \in 1..Len(P[j]) : P[j][b] = k
    BY <2>0
  <2>2. a \in 1..Len(P[i]) /\ a + 1 \in 1..Len(P[i]) /\ (j < i \/ j > i \/ j = i)
    BY SegmentFacts
  <2>3. CASE j = i
    <3>1. b <= a \/ a + 1 <= b
      BY <2>1, <2>3
    <3> QED BY <1>1, <2>1, <2>2, <2>3, <3>1
  <2> QED BY <1>2, <2>1, <2>2, <2>3
<1>4. ASSUME i + 1 \in 1..Len(P), NEW k \in S
      PROVE  k <= P[i][Len(P[i])] \/ P[i + 1][1] <= k
  <2>0. PICK j \in 1..Len(P) : \E b \in 1..Len(P[j]) : P[j][b] = k
    BY <1>0
  <2>1. PICK b \in 1..Len(P[j]) : P[j][b] = k
    BY <2>0
  <2>2. /\ 1 \in 1..Len(P[i + 1]) /\ Len(P[i]) \in 1..Len(P[i])
        /\ (j < i \/ j = i \/ j = i + 1 \/ j > i + 1)
    <3>1. 1 \in 1..Len(P[i + 1]) /\ Len(P[i]) \in 1..Len(P[i])
      BY <1>4, SegmentFacts, Zenon
    <3>2. j < i \/ j = i \/ j = i + 1 \/ j > i + 1
      OBVIOUS
    <3> QED BY <3>1, <3>2
  <2>3. b <= Len(P[j]) /\ 1 <= b
    BY <2>1
  <2>4. CASE j = i
    BY <1>1, <2>1, <2>2, <2>3, <2>4
  <2>5. CASE j = i + 1
    BY <1>1, <2>1, <2>2, <2>3, <2>5
  <2> QED BY <1>2, <1>4, <2>1, <2>2, <2>4, <2>5
<1>5. ASSUME i = 1, NEW k \in S PROVE P[1][1] <= k
  <2>0. PICK j \in 1..Len(P) : \E b \in 1..Len(P[j]) : P[j][b] = k
    BY <1>0
  <2>1. PICK b \in 1..Len(P[j]) : P[j][b] = k
    BY <2>0
  <2>2. 1 \in 1..Len(P) /\ 1 \in 1..Len(P[1]) /\ (j = 1 \/ 1 < j) /\ 1 <= b
    BY <1>5, <2>1, SegmentFacts
  <2> QED BY <1>1, <1>2, <2>1, <2>2
<1> QED BY <1>3, <1>4, <1>5

\* A message that follows another within the gap is in its episode, next to it.
LEMMA EpisodeGoesOn ==
    ASSUME NEW g \in Nat, NEW S \in SUBSET Msg, NEW m \in S, NEW n \in S,
           m < n, \A k \in S : k <= m \/ n <= k, ~Separates(g, m, n)
    PROVE  /\ Episode(g, S, n) = Episode(g, S, m)
           /\ Rank(g, S, m) \in Nat /\ Rank(g, S, n) = Rank(g, S, m) + 1
<1>1. \A k \in S : k \in Nat
  BY MsgFacts
<1>2. \A x \in S : Silence(g, S, x, m) <=> Silence(g, S, x, n)
  BY <1>1 DEF Silence
<1>3. \A x \in S : Silence(g, S, m, x) <=> Silence(g, S, n, x)
  BY <1>1 DEF Silence
<1>4. Episode(g, S, n) = Episode(g, S, m)
  BY <1>2, <1>3 DEF Episode
<1>5. m \in Episode(g, S, m) /\ Episode(g, S, m) \subseteq S
  BY <1>1 DEF Episode, Silence
<1> DEFINE below == {k \in Episode(g, S, m) : k < m}
<1>6. {k \in Episode(g, S, m) : k < n} = below \cup {m}
  BY <1>1, <1>5
<1>7. IsFiniteSet(below) /\ m \notin below
  <2>1. IsFiniteSet(1..MaxMsg)
    BY FS_Interval, MsgFacts
  <2>2. below \subseteq 1..MaxMsg
    BY <1>5 DEF Msg
  <2>3. m \notin below
    BY <1>1
  <2> QED BY <2>1, <2>2, <2>3, FS_Subset
<1> HIDE DEF below
<1>8. Cardinality(below) \in Nat /\ Cardinality(below \cup {m}) = Cardinality(below) + 1
  BY <1>7, FS_CardinalityType, FS_AddElement
<1> QED BY <1>4, <1>6, <1>8 DEF Rank, below

\* A message with nothing before it, or a gap, is the first of its episode.
LEMMA EpisodeBegins ==
    ASSUME NEW g \in Nat, NEW S \in SUBSET Msg, NEW m \in S,
           \/ \A k \in S : m <= k
           \/ \E l \in S : l < m /\ Separates(g, l, m) /\ \A k \in S : k <= l \/ m <= k
    PROVE  Rank(g, S, m) = 0
<1>1. \A k \in S : k \in Nat /\ SentAt[k] \in Nat
  BY MsgFacts
<1>2. ASSUME NEW k \in Episode(g, S, m), k < m PROVE FALSE
  <2>1. k \in S /\ ~Silence(g, S, k, m)
    BY DEF Episode
  <2>2. PICK l \in S : l < m /\ Separates(g, l, m) /\ \A j \in S : j <= l \/ m <= j
    BY <1>1, <1>2, <2>1
  <2>3. ASSUME NEW j \in S, j > l PROVE Separates(g, l, j)
    <3>1. m <= j /\ SentAt[m] <= SentAt[j]
      BY <1>1, <2>2, <2>3, MsgFacts
    <3> QED BY <1>1, <2>2, <3>1 DEF Separates
  <2>4. k <= l
    BY <1>1, <1>2, <2>1, <2>2
  <2> QED BY <2>1, <2>2, <2>3, <2>4 DEF Silence
<1>3. {k \in Episode(g, S, m) : k < m} = {}
  BY <1>2
<1> QED BY <1>3, FS_EmptySet DEF Rank

\* The ranks of a segment's messages go up by one from r, in one episode.
Ranked(g, S, piece, r) ==
    \A a \in 1..Len(piece) : /\ Rank(g, S, piece[a]) = r + (a - 1)
                              /\ Episode(g, S, piece[a]) = Episode(g, S, piece[1])

\* Within a segment the rank goes up by one, and the episode stays.
LEMMA RankedWithin ==
    ASSUME NEW g \in Nat, NEW S \in SUBSET Msg, NEW P, Segments(g, S, P),
           NEW i \in 1..Len(P), NEW r \in Nat, Rank(g, S, P[i][1]) = r
    PROVE  Ranked(g, S, P[i], r)
<1>0. \A a \in Nat : a + 1 \in Nat /\ (a + 1) + 1 = a + 2
  OBVIOUS
<1> DEFINE T == {a \in Nat : a + 1 <= Len(P[i]) =>
                     /\ Rank(g, S, P[i][a + 1]) = r + a
                     /\ Episode(g, S, P[i][a + 1]) = Episode(g, S, P[i][1])}
<1>1. Len(P[i]) \in Nat /\ Len(P[i]) >= 1 /\ \A a \in 1..Len(P[i]) : P[i][a] \in S
  BY SegmentFacts, Zenon
<1>2. 0 \in T
  BY <1>1
<1>3. ASSUME NEW a \in T, a \in Nat, a < Len(P[i]) PROVE a + 1 \in T
  <2>0. a + 1 \in Nat /\ (a + 1) + 1 = a + 2
    BY <1>0, Zenon
  <2> SUFFICES ASSUME a + 2 <= Len(P[i])
               PROVE  /\ Rank(g, S, P[i][a + 2]) = r + (a + 1)
                      /\ Episode(g, S, P[i][a + 2]) = Episode(g, S, P[i][1])
    BY <2>0
  <2>1. a + 1 \in 1..Len(P[i]) - 1 /\ a + 1 \in 1..Len(P[i]) /\ a + 2 \in 1..Len(P[i])
        /\ (a + 1) + 1 = a + 2
    BY <1>1, <1>3
  <2>2. /\ Rank(g, S, P[i][a + 1]) = r + a
        /\ Episode(g, S, P[i][a + 1]) = Episode(g, S, P[i][1])
    BY <1>3, <2>1
  <2>3. P[i][a + 1] < P[i][a + 2]
    BY <2>1 DEF Segments, InOrder
  <2>4. ~Separates(g, P[i][a + 1], P[i][a + 2])
    <3>1. ~Separates(g, P[i][a + 1], P[i][(a + 1) + 1])
      BY <2>1 DEF Segments, Cut
    <3> QED BY <2>1, <3>1
  <2>5. \A k \in S : k <= P[i][a + 1] \/ P[i][a + 2] <= k
    <3>1. \A k \in S : k <= P[i][a + 1] \/ P[i][(a + 1) + 1] <= k
      BY <2>1, Neighbours
    <3> QED BY <2>1, <3>1
  <2>6. P[i][a + 1] \in S /\ P[i][a + 2] \in S
    BY <1>1, <2>1
  <2>7. /\ Episode(g, S, P[i][a + 2]) = Episode(g, S, P[i][a + 1])
        /\ Rank(g, S, P[i][a + 2]) = Rank(g, S, P[i][a + 1]) + 1
    BY <2>3, <2>4, <2>5, <2>6, EpisodeGoesOn
  <2>8. r \in Nat /\ a \in Nat /\ (r + a) + 1 = r + (a + 1)
    BY <1>3
  <2> QED BY <2>2, <2>7, <2>8
<1> HIDE DEF T
<1>4. \A a \in 0..Len(P[i]) : a \in T
  BY <1>1, <1>2, <1>3, Upwards
<1>5. ASSUME NEW a \in 1..Len(P[i])
      PROVE  /\ Rank(g, S, P[i][a]) = r + (a - 1)
             /\ Episode(g, S, P[i][a]) = Episode(g, S, P[i][1])
  <2>1. a - 1 \in 0..Len(P[i]) /\ (a - 1) + 1 = a /\ a <= Len(P[i])
    BY <1>1
  <2>2. a - 1 \in T
    BY <1>4, <2>1
  <2> QED BY <2>1, <2>2 DEF T
<1> QED BY <1>5 DEF Ranked

\* Every segment begins at a multiple of Cap.
LEMMA RankedFirst ==
    ASSUME NEW g \in Nat, NEW S \in SUBSET Msg, NEW P, Segments(g, S, P)
    PROVE  \A i \in 1..Len(P) : \E q \in Nat : Rank(g, S, P[i][1]) = q * Cap
<1> DEFINE T == {i \in Nat : i + 1 <= Len(P) => \E q \in Nat : Rank(g, S, P[i + 1][1]) = q * Cap}
<1>1. Cap \in Nat /\ Len(P) \in Nat
  BY MsgFacts, SegmentFacts
<1>2. ASSUME NEW m, Rank(g, S, m) = 0 PROVE \E q \in Nat : Rank(g, S, m) = q * Cap
  <2>1. 0 * Cap = 0
    BY <1>1
  <2> QED BY <1>2, <2>1
<1>3. 0 \in T
  <2> SUFFICES ASSUME 0 + 1 <= Len(P) PROVE \E q \in Nat : Rank(g, S, P[0 + 1][1]) = q * Cap
    OBVIOUS
  <2>1. 1 \in 1..Len(P) /\ 0 + 1 = 1
    BY <1>1
  <2>2. P[1][1] \in S /\ \A k \in S : P[1][1] <= k
    BY <2>1, SegmentFacts, Neighbours, Zenon
  <2>3. Rank(g, S, P[1][1]) = 0
    BY <2>2, EpisodeBegins
  <2> QED BY <1>2, <2>1, <2>3
<1>4. ASSUME NEW i \in T, i \in Nat, i < Len(P) PROVE i + 1 \in T
  <2> SUFFICES ASSUME i + 2 <= Len(P) PROVE \E q \in Nat : Rank(g, S, P[i + 2][1]) = q * Cap
    OBVIOUS
  <2> DEFINE j == i + 1
             m == P[j][Len(P[j])]
             n == P[j + 1][1]
  <2>1. j \in 1..Len(P) - 1 /\ j \in 1..Len(P) /\ j + 1 \in 1..Len(P) /\ j + 1 = i + 2 /\ j < j + 1
    BY <1>1, <1>4
  <2>2. PICK q \in Nat : Rank(g, S, P[j][1]) = q * Cap
    BY <1>4, <2>1
  <2> HIDE DEF j
  <2>3. /\ 1 \in 1..Len(P[j + 1]) /\ Len(P[j]) \in 1..Len(P[j]) /\ Len(P[j]) \in Nat
        /\ m \in S /\ n \in S
    BY <2>1, SegmentFacts, Zenon
  <2>4. m < n /\ (Separates(g, m, n) \/ Len(P[j]) = Cap)
    BY <2>1, <2>3 DEF Segments, InOrder, Cut
  <2>5. \A k \in S : k <= m \/ n <= k
    BY <2>1, Neighbours, Zenon
  <2>6. CASE Separates(g, m, n)
    <3>1. Rank(g, S, n) = 0
      BY <2>3, <2>4, <2>5, <2>6, EpisodeBegins
    <3> QED BY <1>2, <2>1, <3>1
  <2>7. CASE ~Separates(g, m, n)
    <3>1. q * Cap \in Nat /\ q * Cap + Cap = (q + 1) * Cap /\ q + 1 \in Nat
      BY <1>1
    <3>2. Rank(g, S, m) = q * Cap + (Len(P[j]) - 1)
      <4>1. PICK r \in Nat : r = q * Cap
        BY <3>1
      <4>2. Rank(g, S, P[j][1]) = r
        BY <2>2, <4>1
      <4>3. Ranked(g, S, P[j], r)
        BY <2>1, <4>2, RankedWithin
      <4>4. Rank(g, S, m) = r + (Len(P[j]) - 1)
        BY <2>1, <2>3, <4>3 DEF Ranked
      <4> QED BY <4>1, <4>4
    <3>3. Rank(g, S, n) = Rank(g, S, m) + 1
      BY <2>3, <2>4, <2>5, <2>7, EpisodeGoesOn
    <3>4. Rank(g, S, n) = q * Cap + Cap
      <4>1. Rank(g, S, m) = q * Cap + (Cap - 1)
        BY <2>4, <2>7, <3>2
      <4>2. (q * Cap + (Cap - 1)) + 1 = q * Cap + Cap
        BY <1>1, <3>1
      <4> QED BY <3>3, <4>1, <4>2
    <3> QED BY <2>1, <3>1, <3>4
  <2> QED BY <2>6, <2>7
<1> HIDE DEF T
<1>5. \A i \in 0..Len(P) : i \in T
  BY <1>1, <1>3, <1>4, Upwards
<1>6. ASSUME NEW i \in 1..Len(P) PROVE \E q \in Nat : Rank(g, S, P[i][1]) = q * Cap
  <2>1. i - 1 \in 0..Len(P) /\ (i - 1) + 1 = i /\ i <= Len(P)
    BY <1>1
  <2>2. i - 1 \in T
    BY <1>5, <2>1
  <2> QED BY <2>1, <2>2 DEF T
<1> QED BY <1>6

LEMMA RankBounded ==
    ASSUME NEW g \in Nat, NEW S \in SUBSET Msg, NEW m \in S
    PROVE  Rank(g, S, m) \in 0..MaxMsg
<1> DEFINE below == {k \in Episode(g, S, m) : k < m}
<1>1. below \subseteq Msg
  BY DEF Episode
<1> HIDE DEF below
<1>2. Cardinality(below) \in Nat /\ Cardinality(below) <= MaxMsg
  BY <1>1, MsgFinite, AtMost
<1>3. Rank(g, S, m) = Cardinality(below)
  BY DEF Rank, below
<1> QED BY <1>2, <1>3, MsgFacts

\* What begins a conversation is the first of a segment.
LEMMA BeginsSegment ==
    ASSUME NEW g \in Nat, NEW S \in SUBSET Msg, NEW P, Segments(g, S, P),
           NEW i \in 1..Len(P), NEW a \in 1..Len(P[i])
    PROVE  Begins(g, S, P[i][a]) <=> a = 1
<1>1. PICK q \in Nat : Rank(g, S, P[i][1]) = q * Cap
  BY RankedFirst
<1>2. Cap \in Nat \ {0} /\ MaxMsg \in Nat /\ q * Cap \in Nat
  BY MsgFacts
<1>3. Rank(g, S, P[i][a]) = q * Cap + (a - 1)
  <2>1. PICK r \in Nat : r = q * Cap
    BY <1>2
  <2>2. Rank(g, S, P[i][1]) = r
    BY <1>1, <2>1
  <2>3. Ranked(g, S, P[i], r)
    BY <2>2, RankedWithin
  <2> QED BY <2>1, <2>3 DEF Ranked
<1>4. a \in Nat /\ 1 <= a /\ a <= Cap /\ P[i][a] \in S
  <2>1. P[i][a] \in S /\ Len(P[i]) <= Cap /\ Len(P[i]) \in Nat
    BY SegmentFacts, Zenon
  <2> QED BY <1>2, <2>1
<1>5. CASE a = 1
  <2>1. Rank(g, S, P[i][a]) = q * Cap
    BY <1>1, <1>5
  <2>2. q * Cap <= MaxMsg
    BY <1>2, <1>4, <2>1, RankBounded
  <2>3. q <= q * Cap
    <3>1. PICK c \in Nat : Cap = c + 1
      <4>1. Cap - 1 \in Nat /\ Cap = (Cap - 1) + 1
        BY <1>2
      <4> QED BY <4>1
    <3>2. q * (c + 1) = q * c + q /\ q * c \in Nat
      OBVIOUS
    <3> QED BY <3>1, <3>2
  <2>4. q \in 0..MaxMsg
    BY <1>2, <2>2, <2>3
  <2> QED BY <1>5, <2>1, <2>4 DEF Begins
<1>6. CASE a # 1
  <2> SUFFICES ASSUME NEW p \in 0..MaxMsg, q * Cap + (a - 1) = p * Cap PROVE FALSE
    BY <1>3, <1>6 DEF Begins
  <2>1. p \in Nat /\ p * Cap \in Nat
    BY <1>2
  <2>2. CASE p <= q
    <3>1. PICK d \in Nat : q = p + d
      <4>1. q - p \in Nat /\ q = p + (q - p)
        BY <2>1, <2>2
      <4> QED BY <4>1
    <3>2. (p + d) * Cap = p * Cap + d * Cap /\ d * Cap \in Nat
      BY <1>2, <2>1
    <3> QED BY <1>2, <1>4, <1>6, <2>1, <3>1, <3>2
  <2>3. CASE q < p
    <3>1. PICK d \in Nat : p = (q + 1) + d
      <4>1. p - (q + 1) \in Nat /\ p = (q + 1) + (p - (q + 1))
        BY <2>1, <2>3
      <4> QED BY <4>1
    <3>2. ((q + 1) + d) * Cap = (q * Cap + Cap) + d * Cap /\ d * Cap \in Nat
      BY <1>2
    <3> QED BY <1>2, <1>4, <2>1, <3>1, <3>2
  <2> QED BY <2>1, <2>2, <2>3
<1> QED BY <1>5, <1>6

Members(piece) == {piece[b] : b \in 1..Len(piece)}

\* The messages together with one of a segment are those of the segment.
LEMMA TogetherIsSegment ==
    ASSUME NEW g \in Nat, NEW S \in SUBSET Msg, NEW P, Segments(g, S, P),
           NEW i \in 1..Len(P), NEW a \in 1..Len(P[i])
    PROVE  Together(g, S, P[i][a]) = Members(P[i])
<1> DEFINE m == P[i][a]
<1>1. \A k \in S : k \in Nat
  BY MsgFacts
<1>2. \A j \in 1..Len(P) : /\ P[j][1] \in S /\ 1 \in 1..Len(P[j])
                            /\ \A b \in 1..Len(P[j]) : P[j][b] \in S /\ P[j][b] \in Nat
  BY SegmentFacts, Zenon
<1>3. \A k \in S : \E j \in 1..Len(P) : \E b \in 1..Len(P[j]) : P[j][b] = k
  BY DEF Segments, Lists
<1>4. \A j \in 1..Len(P) : \A b \in 1..Len(P[j]) :
          Episode(g, S, P[j][b]) = Episode(g, S, P[j][1])
  <2> TAKE j \in 1..Len(P)
  <2>1. PICK r \in Nat : Rank(g, S, P[j][1]) = r
    <3>1. P[j][1] \in S
      BY <1>2
    <3>2. Rank(g, S, P[j][1]) \in 0..MaxMsg
      BY <3>1, RankBounded
    <3> QED BY <3>2
  <2>2. Ranked(g, S, P[j], r)
    BY <2>1, RankedWithin
  <2> QED BY <2>2 DEF Ranked
<1>5. \A k \in S : k \in Episode(g, S, k)
  BY <1>1 DEF Episode, Silence
<1>6. \A j \in 1..Len(P) : \A b \in 1..Len(P[j]) : P[j][1] <= P[j][b]
  <2> SUFFICES ASSUME NEW j \in 1..Len(P), NEW b \in 1..Len(P[j]) PROVE P[j][1] <= P[j][b]
    OBVIOUS
  <2>1. b = 1 \/ 1 < b
    OBVIOUS
  <2>2. P[j][1] \in Nat /\ P[j][b] \in Nat /\ 1 \in 1..Len(P[j])
    BY <1>2
  <2>3. CASE 1 < b
    <3>1. P[j][1] < P[j][b]
      BY <2>2, <2>3 DEF Segments, InOrder
    <3> QED BY <2>2, <3>1
  <2> QED BY <2>1, <2>2, <2>3
<1>7. \A h, j \in 1..Len(P) : \A x \in 1..Len(P[h]), y \in 1..Len(P[j]) :
          h < j => P[h][x] < P[j][y]
  BY DEF Segments, InOrder
<1>8. m \in S /\ m \in Nat
  BY <1>2
<1> HIDE DEF m
<1>9. ASSUME NEW b \in 1..Len(P[i]) PROVE P[i][b] \in Together(g, S, m)
  <2>1. P[i][b] \in Episode(g, S, m)
    <3>1. Episode(g, S, m) = Episode(g, S, P[i][b])
      BY <1>4 DEF m
    <3> QED BY <1>2, <1>5, <3>1
  <2>2. ASSUME NEW k \in Episode(g, S, m), Begins(g, S, k) PROVE k <= m <=> k <= P[i][b]
    <3>1. k \in S
      BY DEF Episode
    <3>2. PICK j \in 1..Len(P) : \E c \in 1..Len(P[j]) : P[j][c] = k
      BY <1>3, <3>1
    <3>3. PICK c \in 1..Len(P[j]) : P[j][c] = k
      BY <3>2
    <3>4. k = P[j][1] /\ 1 \in 1..Len(P[j])
      <4>1. Begins(g, S, P[j][c]) <=> c = 1
        BY BeginsSegment
      <4> QED BY <1>2, <2>2, <3>3, <4>1
    <3>5. j < i \/ j = i \/ i < j
      OBVIOUS
    <3>6. k \in Nat /\ P[i][b] \in Nat /\ m \in Nat
      BY <1>1, <1>2, <1>8, <3>1
    <3>7. CASE j < i
      <4>1. P[j][1] < P[i][a] /\ P[j][1] < P[i][b]
        BY <1>7, <3>4, <3>7
      <4>2. P[j][1] < m
        BY <4>1 DEF m
      <4>3. k < m /\ k < P[i][b]
        BY <3>4, <4>1, <4>2
      <4> QED BY <3>6, <4>3
    <3>8. CASE j = i
      BY <1>6, <3>4, <3>8 DEF m
    <3>9. CASE i < j
      <4>1. P[i][a] < P[j][1] /\ P[i][b] < P[j][1]
        BY <1>7, <3>4, <3>9
      <4>2. m < P[j][1]
        BY <4>1 DEF m
      <4>3. m < k /\ P[i][b] < k
        BY <3>4, <4>1, <4>2
      <4> QED BY <3>6, <4>3
    <3> QED BY <3>5, <3>7, <3>8, <3>9
  <2> QED BY <2>1, <2>2 DEF Together
<1>10. ASSUME NEW n \in Together(g, S, m) PROVE n \in {P[i][b] : b \in 1..Len(P[i])}
  <2>1. n \in Episode(g, S, m) /\ n \in S
        /\ \A k \in Episode(g, S, m) : Begins(g, S, k) => (k <= m <=> k <= n)
    BY DEF Together, Episode
  <2>2. PICK j \in 1..Len(P) : \E c \in 1..Len(P[j]) : P[j][c] = n
    BY <1>3, <2>1
  <2>3. PICK c \in 1..Len(P[j]) : P[j][c] = n
    BY <2>2
  <2>4. j < i \/ j = i \/ i < j
    OBVIOUS
  <2>5. n \in Nat /\ P[i][1] \in Nat /\ P[j][1] \in Nat
    BY <1>1, <1>2, <2>1
  <2>6. CASE j < i
    <3>1. P[i][1] \in Episode(g, S, m)
      <4>1. Episode(g, S, m) = Episode(g, S, P[i][1])
        BY <1>4 DEF m
      <4> QED BY <1>2, <1>5, <4>1
    <3>2. Begins(g, S, P[i][1])
      BY <1>2, BeginsSegment
    <3>3. P[i][1] <= m
      BY <1>6 DEF m
    <3>4. n < P[i][1]
      BY <1>2, <1>7, <2>3, <2>6
    <3> QED BY <2>1, <2>5, <3>1, <3>2, <3>3, <3>4
  <2>7. CASE i < j
    <3>1. P[j][1] <= n
      BY <1>6, <2>3
    <3>2. m < P[j][1]
      BY <1>2, <1>7, <2>7 DEF m
    <3>3. P[j][1] \in Episode(g, S, m)
      <4>1. P[j][1] \in S
        BY <1>2
      <4>2. ~Silence(g, S, m, P[j][1])
        <5> SUFFICES ASSUME Silence(g, S, m, P[j][1]) PROVE FALSE
          OBVIOUS
        <5>1. PICK k \in S : /\ m <= k /\ k < P[j][1]
                             /\ \A x \in S : x > k => Separates(g, k, x)
          BY DEF Silence
        <5>2. k < n
          BY <1>1, <2>5, <3>1, <5>1
        <5>3. Silence(g, S, m, n)
          BY <5>1, <5>2 DEF Silence
        <5> QED BY <2>1, <5>3 DEF Episode
      <4>3. ~Silence(g, S, P[j][1], m)
        <5>1. ASSUME NEW k \in S, P[j][1] <= k, k < m PROVE FALSE
          <6>1. k \in Nat /\ m \in Nat /\ P[j][1] \in Nat
            BY <1>1, <1>8, <2>5
          <6> QED BY <3>2, <5>1, <6>1
        <5> QED BY <5>1 DEF Silence
      <4> QED BY <4>1, <4>2, <4>3 DEF Episode
    <3>4. Begins(g, S, P[j][1])
      BY <1>2, BeginsSegment
    <3> QED BY <1>8, <2>1, <2>5, <3>1, <3>2, <3>3, <3>4
  <2>8. CASE j = i
    BY <2>3, <2>8
  <2> QED BY <2>4, <2>6, <2>7, <2>8
<1> QED BY <1>9, <1>10 DEF m, Members

LEMMA SegmentSize ==
    ASSUME NEW g \in Nat, NEW S \in SUBSET Msg, NEW P, Segments(g, S, P),
           NEW i \in 1..Len(P)
    PROVE  /\ Min(Members(P[i])) = P[i][1] /\ Max(Members(P[i])) = P[i][Len(P[i])]
           /\ Cardinality(Members(P[i])) = Len(P[i])
<1> DEFINE N == Len(P[i])
           T == {P[i][b] : b \in 1..N}
           f == [b \in 1..N |-> P[i][b]]
<1>1. N \in Nat /\ 1 \in 1..N /\ N \in 1..N /\ \A b \in 1..N : P[i][b] \in Nat
  BY SegmentFacts, Zenon
<1>2. \A b, c \in 1..N : b < c => P[i][b] < P[i][c]
  BY DEF Segments, InOrder
<1> HIDE DEF N
<1>3. \A b \in 1..N : P[i][1] <= P[i][b] /\ P[i][b] <= P[i][N]
  <2> TAKE b \in 1..N
  <2>1. (b = 1 \/ 1 < b) /\ (b = N \/ b < N)
    BY <1>1
  <2> QED BY <1>1, <1>2, <2>1
<1>4. T \subseteq Nat /\ P[i][1] \in T /\ P[i][N] \in T
  BY <1>1
<1>5. Min(T) = P[i][1]
  <2>1. \A k \in T : P[i][1] <= k
    BY <1>3
  <2> HIDE DEF T
  <2> QED BY <1>4, <2>1, MinIs
<1>6. Max(T) = P[i][N]
  <2>1. \A k \in T : k <= P[i][N]
    BY <1>3
  <2> HIDE DEF T
  <2> QED BY <1>4, <2>1, MaxIs
<1>7. Cardinality(T) = N
  <2>1. \A b, c \in 1..N : f[b] = f[c] => b = c
    <3> SUFFICES ASSUME NEW b \in 1..N, NEW c \in 1..N, P[i][b] = P[i][c] PROVE b = c
      OBVIOUS
    <3>1. b < c \/ b = c \/ c < b
      OBVIOUS
    <3>2. P[i][b] \in Nat /\ P[i][c] \in Nat
      BY <1>1
    <3> QED BY <1>2, <3>1, <3>2
  <2>2. f \in Bijection(1..N, T)
    BY <2>1 DEF Bijection, Injection, Surjection, IsInjective
  <2>3. IsFiniteSet(1..N) /\ Cardinality(1..N) = N
    <3>1. ~(1 > N) /\ N - 1 + 1 = N
      BY <1>1
    <3> QED BY <1>1, <3>1, FS_Interval
  <2> HIDE DEF T, f
  <2> QED BY <2>2, <2>3, FS_Bijection DEF ExistsBijection
<1> QED BY <1>5, <1>6, <1>7 DEF N, Members

\* The start, end and number of messages of each segment.
Spans(P) == {<<SentAt[P[i][1]], SentAt[P[i][Len(P[i])]], Len(P[i])>> : i \in 1..Len(P)}

LEMMA SpansAreExtents ==
    ASSUME NEW g \in Nat, NEW S \in SUBSET Msg, NEW P, Segments(g, S, P)
    PROVE  Spans(P) = Extents(g, S)
<1> DEFINE ext(m) == <<SentAt[Min(Together(g, S, m))], SentAt[Max(Together(g, S, m))],
                       Cardinality(Together(g, S, m))>>
           span(i) == <<SentAt[P[i][1]], SentAt[P[i][Len(P[i])]], Len(P[i])>>
<1>1. ASSUME NEW i \in 1..Len(P), NEW a \in 1..Len(P[i]) PROVE ext(P[i][a]) = span(i)
  <2>1. /\ Min(Members(P[i])) = P[i][1] /\ Max(Members(P[i])) = P[i][Len(P[i])]
        /\ Cardinality(Members(P[i])) = Len(P[i])
    BY SegmentSize
  <2>2. Together(g, S, P[i][a]) = Members(P[i])
    BY TogetherIsSegment
  <2> QED BY <2>1, <2>2
<1>2. \A k \in S : \E j \in 1..Len(P) : \E b \in 1..Len(P[j]) : P[j][b] = k
  BY DEF Segments, Lists
<1>3. \A j \in 1..Len(P) : P[j][1] \in S /\ 1 \in 1..Len(P[j])
  BY SegmentFacts, Zenon
<1> HIDE DEF ext, span
<1>4. {span(i) : i \in 1..Len(P)} = {ext(m) : m \in S}
  <2>1. ASSUME NEW i \in 1..Len(P) PROVE span(i) \in {ext(m) : m \in S}
    <3>1. span(i) = ext(P[i][1])
      BY <1>1, <1>3
    <3> QED BY <1>3, <3>1
  <2>2. ASSUME NEW m \in S PROVE ext(m) \in {span(i) : i \in 1..Len(P)}
    <3>1. PICK j \in 1..Len(P) : \E b \in 1..Len(P[j]) : P[j][b] = m
      BY <1>2
    <3>2. PICK b \in 1..Len(P[j]) : P[j][b] = m
      BY <3>1
    <3>3. ext(m) = span(j)
      BY <1>1, <3>2
    <3> QED BY <3>3
  <2> QED BY <2>1, <2>2
<1> QED BY <1>4 DEF ext, span, Spans, Extents

\* segment() goes from message to message, and what it gives does not depend on the
\* order: runs of messages without a gap, each cut after every max_messages of it.
THEOREM SegmentsAreEpisodes ==
    ASSUME NEW g \in Nat, NEW S \in SUBSET Msg
    PROVE  Spans(Divide(g, S)) = Extents(g, S)
<1>1. PICK P : P = Divide(g, S)
  OBVIOUS
<1>2. Segments(g, S, P)
  BY <1>1, DivideSegments
<1> QED BY <1>1, <1>2, SpansAreExtents

-----------------------------------------------------------------------------
(***************************************************************************)
(* Where no instant is divided, two segments share none.                   *)
(***************************************************************************)
Apart(P) ==
    \A i, j \in 1..Len(P) : \A a \in 1..Len(P[i]), b \in 1..Len(P[j]) :
        i < j => SentAt[P[i][a]] < SentAt[P[j][b]]

LEMMA SegmentsApart ==
    ASSUME Undivided, NEW g \in Nat, NEW S \in SUBSET Msg, NEW P, Segments(g, S, P)
    PROVE  Apart(P)
<1> SUFFICES ASSUME NEW i \in 1..Len(P), NEW j \in 1..Len(P),
                    NEW a \in 1..Len(P[i]), NEW b \in 1..Len(P[j]), i < j
             PROVE  SentAt[P[i][a]] < SentAt[P[j][b]]
  BY DEF Apart
<1>1. P[i][a] \in Msg /\ P[j][b] \in Msg /\ P[i][a] < P[j][b]
  <2>1. P[i][a] \in S /\ P[j][b] \in S
    BY SegmentFacts, Zenon
  <2> QED BY <2>1 DEF Segments, InOrder
<1>2. CASE \A m, n \in Msg : m < n => SentAt[m] < SentAt[n]
  BY <1>1, <1>2
<1>3. CASE Cap >= MaxMsg
  <2> DEFINE m == P[i][Len(P[i])]
             n == P[i + 1][1]
  <2>1. i \in 1..Len(P) - 1 /\ i + 1 \in 1..Len(P) /\ i < i + 1
    BY SegmentFacts
  <2>2. /\ 1 \in 1..Len(P[i + 1]) /\ Len(P[i]) \in 1..Len(P[i]) /\ Len(P[i]) \in Nat
        /\ m \in S /\ n \in S
    BY <2>1, SegmentFacts, Zenon
  <2>3. P[i][a] <= m /\ n <= P[j][b]
    <3>1. a = Len(P[i]) \/ a < Len(P[i])
      BY <2>2
    <3>2. P[i][a] < m \/ P[i][a] = m
      BY <2>2, <3>1 DEF Segments, InOrder
    <3>3. i + 1 < j \/ (i + 1 = j /\ (b = 1 \/ 1 < b))
      OBVIOUS
    <3>4. n < P[j][b] \/ n = P[j][b]
      BY <2>1, <2>2, <3>3 DEF Segments, InOrder
    <3>5. m \in Nat /\ n \in Nat
      BY <2>2, SegmentFacts, <2>1, Zenon
    <3>6. P[i][a] \in Nat /\ P[j][b] \in Nat
      BY <1>1, MsgFacts
    <3> HIDE DEF m, n
    <3> QED BY <3>2, <3>4, <3>5, <3>6, SMTT(30)
  <2>4. n \in Msg /\ m \in Msg /\ \A c \in 1..Len(P[i]) : P[i][c] \in Msg /\ P[i][c] < n
    <3>1. \A c \in 1..Len(P[i]) : P[i][c] \in S /\ P[i][c] < n
      BY <2>1, <2>2, SegmentFacts DEF Segments, InOrder
    <3> QED BY <2>2, <3>1
  <2>5. Separates(g, m, n) \/ Len(P[i]) = Cap
    BY <2>1 DEF Segments, Cut
  <2> HIDE DEF m, n
  <2>6. Len(P[i]) # Cap
    <3> SUFFICES ASSUME Len(P[i]) = Cap PROVE FALSE
      OBVIOUS
    <3> DEFINE T == Members(P[i])
    <3>1. Cardinality(T) = Cap
      BY SegmentSize
    <3>2. T \subseteq Msg /\ n \notin T
      <4>1. \A c \in 1..Len(P[i]) : P[i][c] \in Msg /\ P[i][c] # n
        <5> TAKE c \in 1..Len(P[i])
        <5>1. P[i][c] \in Nat /\ n \in Nat /\ P[i][c] < n /\ P[i][c] \in Msg
          BY <2>4, MsgFacts
        <5> QED BY <5>1
      <4> QED BY <4>1 DEF Members
    <3> HIDE DEF T
    <3>3. Cardinality(T) < Cardinality(Msg) /\ Cardinality(Msg) = MaxMsg
      BY <2>4, <3>2, FewerWithout, MsgFinite
    <3> QED BY <1>3, <3>1, <3>3, MsgFacts
  <2>7. SentAt[n] - SentAt[m] > g
    BY <2>5, <2>6 DEF Separates
  <2>8. /\ SentAt[P[i][a]] <= SentAt[m] /\ SentAt[n] <= SentAt[P[j][b]]
        /\ SentAt[P[i][a]] \in Nat /\ SentAt[m] \in Nat
        /\ SentAt[n] \in Nat /\ SentAt[P[j][b]] \in Nat
    BY <1>1, <2>3, <2>4, MsgFacts
  <2>9. SentAt[m] < SentAt[n]
    BY <2>7, <2>8
  <2> QED BY <2>8, <2>9, SMTT(30)
<1> QED BY <1>2, <1>3 DEF Undivided

-----------------------------------------------------------------------------
(***************************************************************************)
(* Windows.                                                                *)
(***************************************************************************)
WithinOf(S, w) == {m \in S : SentAt[m] >= w}

\* The segments of P that begin before the k-th, and then those of Q.
Spliced(P, k, Q) ==
    [i \in 1..(k - 1) + Len(Q) |-> IF i < k THEN P[i] ELSE Q[i - (k - 1)]]

\* Where a window begins with a segment, what is before it and the segments of
\* what is in it are segments of all.
LEMMA WindowSplits ==
    ASSUME Undivided, NEW g \in Nat, NEW S \in SUBSET Msg, NEW Old \in SUBSET S,
           NEW P, Segments(g, Old, P), NEW k \in 1..Len(P),
           NEW w, w = SentAt[P[k][1]], \A m \in S \ Old : SentAt[m] >= w,
           NEW Q, Segments(g, WithinOf(S, w), Q)
    PROVE  Segments(g, S, Spliced(P, k, Q))
<1> DEFINE R == WithinOf(S, w)
           Z == Spliced(P, k, Q)
           N == (k - 1) + Len(Q)
<1>1. /\ Len(P) \in Nat /\ Len(Q) \in Nat /\ k \in Nat /\ k >= 1 /\ k <= Len(P) /\ N \in Nat
      /\ R \in SUBSET Msg /\ Old \in SUBSET Msg
  <2>1. R \in SUBSET Msg /\ Old \in SUBSET Msg
    BY DEF WithinOf
  <2> QED BY <2>1, SegmentFacts
<1>2. \A i \in 1..Len(P) : /\ P[i] \in Seq(Msg) /\ Len(P[i]) \in Nat /\ Len(P[i]) \in 1..Cap
                            /\ 1 \in 1..Len(P[i]) /\ Len(P[i]) \in 1..Len(P[i])
                            /\ \A a \in 1..Len(P[i]) : P[i][a] \in Old /\ P[i][a] \in Nat
  BY <1>1, SegmentFacts DEF Segments, Sized
<1>3. \A i \in 1..Len(Q) : /\ Q[i] \in Seq(Msg) /\ Len(Q[i]) \in Nat /\ Len(Q[i]) \in 1..Cap
                            /\ 1 \in 1..Len(Q[i]) /\ Len(Q[i]) \in 1..Len(Q[i])
                            /\ \A a \in 1..Len(Q[i]) : Q[i][a] \in R /\ Q[i][a] \in Nat
  BY <1>1, SegmentFacts DEF Segments, Sized
<1>4. /\ \A i \in 1..N : \/ i < k /\ i \in 1..Len(P) /\ Z[i] = P[i]
                         \/ i >= k /\ i - (k - 1) \in 1..Len(Q) /\ Z[i] = Q[i - (k - 1)]
      /\ Z \in Seq(Seq(Msg)) /\ Len(Z) = N
  <2>1. ASSUME NEW i \in 1..N
        PROVE  /\ \/ i < k /\ i \in 1..Len(P) /\ Z[i] = P[i]
                  \/ i >= k /\ i - (k - 1) \in 1..Len(Q) /\ Z[i] = Q[i - (k - 1)]
               /\ Z[i] \in Seq(Msg)
    <3>1. CASE i < k
      <4>1. i \in 1..Len(P) /\ Z[i] = P[i]
        BY <1>1, <3>1 DEF Spliced
      <4> QED BY <1>2, <3>1, <4>1
    <3>2. CASE i >= k
      <4>1. i - (k - 1) \in 1..Len(Q)
        BY <1>1, <3>2
      <4>2. Z[i] = Q[i - (k - 1)]
        BY <1>1, <3>2 DEF Spliced
      <4> QED BY <1>3, <3>2, <4>1, <4>2
    <3> QED BY <1>1, <3>1, <3>2
  <2>2. Z = [i \in 1..N |-> Z[i]] /\ N \in Nat
    BY <1>1 DEF Spliced
  <2> HIDE DEF Z, N
  <2>3. Z \in Seq(Seq(Msg)) /\ Len(Z) = N
    BY <2>1, <2>2
  <2> QED BY <2>1, <2>3
<1>5. \A m \in Msg : SentAt[m] \in Nat /\ m \in Nat
  BY MsgFacts
<1>6. w \in Nat
  BY <1>2, <1>5
<1>7. \A i \in 1..Len(P) : \A a \in 1..Len(P[i]) :
          /\ i < k => SentAt[P[i][a]] < w
          /\ i >= k => SentAt[P[i][a]] >= w
  <2> SUFFICES ASSUME NEW i \in 1..Len(P), NEW a \in 1..Len(P[i])
               PROVE  /\ i < k => SentAt[P[i][a]] < w
                      /\ i >= k => SentAt[P[i][a]] >= w
    OBVIOUS
  <2>1. Apart(P)
    BY <1>1, SegmentsApart
  <2>2. i < k => SentAt[P[i][a]] < w
    BY <1>2, <2>1 DEF Apart
  <2>3. ASSUME i >= k PROVE SentAt[P[i][a]] >= w
    <3>1. P[k][1] \in Msg /\ P[i][a] \in Msg
      BY <1>2
    <3>2. P[k][1] <= P[i][a]
      <4>1. k < i \/ (k = i /\ (a = 1 \/ 1 < a))
        BY <1>1, <2>3
      <4>2. P[k][1] < P[i][a] \/ P[k][1] = P[i][a]
        BY <1>2, <4>1 DEF Segments, InOrder
      <4> QED BY <1>5, <3>1, <4>2
    <3>3. SentAt[P[k][1]] <= SentAt[P[i][a]]
      BY <3>1, <3>2, MsgFacts
    <3> QED BY <1>5, <1>6, <3>1, <3>3
  <2> QED BY <2>2, <2>3
<1>8. \A i \in 1..Len(Q) : \A a \in 1..Len(Q[i]) : SentAt[Q[i][a]] >= w
  BY <1>3 DEF WithinOf
<1> HIDE DEF Z, N, R
<1>9. Sized(Z)
  BY <1>2, <1>3, <1>4 DEF Sized
<1>10. Lists(S, Z)
  <2>1. ASSUME NEW i \in 1..N, NEW a \in 1..Len(Z[i]) PROVE Z[i][a] \in S
    BY <1>2, <1>3, <1>4 DEF R, WithinOf
  <2>2. ASSUME NEW m \in S PROVE \E i \in 1..N : \E a \in 1..Len(Z[i]) : Z[i][a] = m
    <3>1. CASE m \in R
      <4>1. PICK i \in 1..Len(Q) : \E a \in 1..Len(Q[i]) : Q[i][a] = m
        BY <3>1 DEF Segments, Lists, R
      <4>2. i + (k - 1) \in 1..N /\ ~(i + (k - 1) < k) /\ (i + (k - 1)) - (k - 1) = i
        BY <1>1 DEF N
      <4>3. Z[i + (k - 1)] = Q[i]
        BY <1>4, <4>2
      <4> QED BY <4>1, <4>2, <4>3
    <3>2. CASE m \notin R
      <4>1. m \in Msg /\ SentAt[m] < w /\ m \in Old
        BY <1>5, <1>6, <3>2 DEF R, WithinOf
      <4>2. PICK i \in 1..Len(P) : \E a \in 1..Len(P[i]) : P[i][a] = m
        BY <4>1 DEF Segments, Lists
      <4>3. i < k
        <5>1. PICK a \in 1..Len(P[i]) : P[i][a] = m
          BY <4>2
        <5>2. i >= k => SentAt[m] >= w
          BY <1>7, <5>1
        <5>3. SentAt[m] \in Nat /\ w \in Nat /\ i \in Nat /\ k \in Nat
          BY <1>1, <1>5, <1>6, <4>1, MsgFacts
        <5> QED BY <4>1, <5>2, <5>3
      <4>4. i \in 1..N /\ ~(i >= k)
        BY <1>1, <4>3 DEF N
      <4>5. Z[i] = P[i]
        BY <1>4, <4>4
      <4> QED BY <4>2, <4>4, <4>5
    <3> QED BY <3>1, <3>2
  <2> QED BY <1>4, <2>1, <2>2 DEF Lists
<1>11. InOrder(Z)
  <2>1. ASSUME NEW i \in 1..N, NEW a \in 1..Len(Z[i]), NEW b \in 1..Len(Z[i]), a < b
        PROVE  Z[i][a] < Z[i][b]
    <3>1. CASE i \in 1..Len(P) /\ Z[i] = P[i]
      BY <2>1, <3>1 DEF Segments, InOrder
    <3>2. CASE i - (k - 1) \in 1..Len(Q) /\ Z[i] = Q[i - (k - 1)]
      BY <2>1, <3>2 DEF Segments, InOrder
    <3> QED BY <1>4, <3>1, <3>2
  <2>2. ASSUME NEW i \in 1..N, NEW j \in 1..N, NEW a \in 1..Len(Z[i]), NEW b \in 1..Len(Z[j]),
               i < j
        PROVE  Z[i][a] < Z[j][b]
    <3>1. CASE i < k /\ j < k
      <4>1. i \in 1..Len(P) /\ Z[i] = P[i] /\ j \in 1..Len(P) /\ Z[j] = P[j]
        BY <1>1, <1>4, <3>1
      <4> QED BY <2>2, <4>1 DEF Segments, InOrder
    <3>2. CASE i >= k /\ j >= k
      <4>1. /\ i - (k - 1) \in 1..Len(Q) /\ Z[i] = Q[i - (k - 1)]
            /\ j - (k - 1) \in 1..Len(Q) /\ Z[j] = Q[j - (k - 1)]
            /\ i - (k - 1) < j - (k - 1)
        BY <1>1, <1>4, <2>2, <3>2
      <4> QED BY <4>1 DEF Segments, InOrder
    <3>3. CASE i < k /\ j >= k
      <4>1. i \in 1..Len(P) /\ Z[i] = P[i] /\ j - (k - 1) \in 1..Len(Q) /\ Z[j] = Q[j - (k - 1)]
        <5>1. ~(i >= k) /\ ~(j < k)
          BY <1>1, <3>3
        <5> QED BY <1>4, <5>1
      <4>2. Z[i][a] \in Msg /\ Z[j][b] \in Msg
        BY <1>1, <1>2, <1>3, <4>1
      <4>3. SentAt[Z[i][a]] < w /\ SentAt[Z[j][b]] >= w
        BY <1>7, <1>8, <3>3, <4>1
      <4>4. SentAt[Z[i][a]] \in Nat /\ SentAt[Z[j][b]] \in Nat /\ Z[i][a] \in Nat /\ Z[j][b] \in Nat
        BY <1>5, <4>2
      <4>5. ~(SentAt[Z[j][b]] <= SentAt[Z[i][a]])
        <5>1. \A x, y \in Nat : x < w /\ y >= w => ~(y <= x)
          BY <1>6
        <5> QED BY <4>3, <4>4, <5>1
      <4>6. ~(Z[j][b] <= Z[i][a])
        BY <4>2, <4>5, MsgFacts
      <4> QED BY <4>4, <4>6, SMTT(30)
    <3> QED BY <1>1, <2>2, <3>1, <3>2, <3>3
  <2> QED BY <1>4, <2>1, <2>2 DEF InOrder
<1>12. Cut(g, Z)
  <2>1. ASSUME NEW i \in 1..N, NEW a \in 1..Len(Z[i]) - 1 PROVE ~Separates(g, Z[i][a], Z[i][a + 1])
    <3>1. CASE i \in 1..Len(P) /\ Z[i] = P[i]
      BY <3>1 DEF Segments, Cut
    <3>2. CASE i - (k - 1) \in 1..Len(Q) /\ Z[i] = Q[i - (k - 1)]
      BY <3>2 DEF Segments, Cut
    <3> QED BY <1>4, <3>1, <3>2
  <2>2. ASSUME NEW i \in 1..N - 1
        PROVE  Separates(g, Z[i][Len(Z[i])], Z[i + 1][1]) \/ Len(Z[i]) = Cap
    <3>0. i \in 1..N /\ i + 1 \in 1..N /\ i \in Nat
      BY <1>1
    <3>1. CASE i + 1 < k
      <4>1. i \in 1..Len(P) - 1 /\ i < k /\ ~(i >= k) /\ ~(i + 1 >= k)
        BY <1>1, <3>0, <3>1
      <4>2. Z[i] = P[i] /\ Z[i + 1] = P[i + 1]
        BY <1>4, <3>0, <4>1
      <4> QED BY <4>1, <4>2 DEF Segments, Cut
    <3>2. CASE i >= k
      <4>1. i - (k - 1) \in 1..Len(Q) - 1 /\ ~(i < k) /\ ~(i + 1 < k)
            /\ (i + 1) - (k - 1) = (i - (k - 1)) + 1
        BY <1>1, <3>0, <3>2 DEF N
      <4>2. Z[i] = Q[i - (k - 1)] /\ Z[i + 1] = Q[(i - (k - 1)) + 1]
        BY <1>4, <3>0, <4>1, SMTT(30)
      <4> QED BY <4>1, <4>2 DEF Segments, Cut
    <3>3. CASE i + 1 = k
      <4>1. i \in 1..Len(P) - 1 /\ i < k /\ ~(i >= k) /\ ~(i + 1 < k) /\ (i + 1) - (k - 1) = 1
        BY <1>1, <3>0, <3>3
      <4>2. Z[i] = P[i] /\ Z[i + 1] = Q[1] /\ 1 \in 1..Len(Q) /\ i \in 1..Len(P)
        BY <1>4, <3>0, <4>1
      <4>3. Separates(g, P[i][Len(P[i])], P[k][1]) \/ Len(P[i]) = Cap
        BY <3>3, <4>1 DEF Segments, Cut
      <4>4. SentAt[Q[1][1]] >= SentAt[P[k][1]]
        BY <1>3, <1>8, <4>2
      <4>5. /\ SentAt[Q[1][1]] \in Nat /\ SentAt[P[k][1]] \in Nat
            /\ SentAt[P[i][Len(P[i])]] \in Nat
        <5>1. Q[1][1] \in Msg /\ P[k][1] \in Msg /\ P[i][Len(P[i])] \in Msg
          BY <1>1, <1>2, <1>3, <4>2
        <5> QED BY <1>5, <5>1
      <4>6. Separates(g, P[i][Len(P[i])], Q[1][1]) \/ Len(P[i]) = Cap
        BY <4>3, <4>4, <4>5, SMTT(30) DEF Separates
      <4> QED BY <4>2, <4>6
    <3> QED BY <1>1, <3>0, <3>1, <3>2, <3>3
  <2> QED BY <1>4, <2>1, <2>2 DEF Cut
<1> QED BY <1>9, <1>10, <1>11, <1>12 DEF Segments, Z

\* So a window that begins with a segment, or with the chat, gives what is to be
\* put in the place of what begins in it.
LEMMA WindowExtents ==
    ASSUME Undivided, NEW g \in Nat, NEW S \in SUBSET Msg, NEW Old \in SUBSET S,
           NEW w \in Nat, \A m \in S \ Old : SentAt[m] >= w,
           w = 0 \/ \E x \in Extents(g, Old) : x[1] = w,
           NEW Q, Segments(g, WithinOf(S, w), Q)
    PROVE  /\ Extents(g, S) = {x \in Extents(g, Old) : x[1] < w} \cup Spans(Q)
           /\ \A x \in Spans(Q) : x[1] >= w
<1>0. Old \in SUBSET Msg /\ WithinOf(S, w) \in SUBSET Msg
  BY DEF WithinOf
<1> DEFINE P == Divide(g, Old)
<1>1. Segments(g, Old, P)
  BY <1>0, DivideSegments
<1> HIDE DEF P
<1>2. Spans(P) = Extents(g, Old)
  BY <1>0, <1>1, SpansAreExtents
<1>3. \A m \in Msg : SentAt[m] \in Nat
  BY MsgFacts
<1>4. \A x \in Spans(Q) : x[1] >= w
  <2> SUFFICES ASSUME NEW i \in 1..Len(Q) PROVE SentAt[Q[i][1]] >= w
    BY DEF Spans
  <2>1. Q[i][1] \in WithinOf(S, w)
    BY <1>0, SegmentFacts, Zenon
  <2> QED BY <2>1 DEF WithinOf
<1>5. CASE w = 0
  <2>1. WithinOf(S, w) = S
    <3>1. \A m \in S : SentAt[m] >= 0
      BY <1>3
    <3> QED BY <1>5, <3>1 DEF WithinOf
  <2>2. Spans(Q) = Extents(g, S)
    BY <2>1, SpansAreExtents
  <2>3. ASSUME NEW x \in Extents(g, Old), x[1] < w PROVE FALSE
    <3>1. PICK i \in 1..Len(P) : x = <<SentAt[P[i][1]], SentAt[P[i][Len(P[i])]], Len(P[i])>>
      BY <1>2, <2>3 DEF Spans
    <3>2. P[i][1] \in Msg
      BY <1>0, <1>1, SegmentFacts, Zenon
    <3>3. x[1] \in Nat
      BY <1>3, <3>1, <3>2
    <3> QED BY <1>5, <2>3, <3>3
  <2> QED BY <1>4, <2>2, <2>3
<1>6. CASE w # 0
  <2>1. PICK k \in 1..Len(P) : w = SentAt[P[k][1]]
    <3>1. PICK x \in Spans(P) : x[1] = w
      BY <1>2, <1>6
    <3>2. PICK k \in 1..Len(P) : x = <<SentAt[P[k][1]], SentAt[P[k][Len(P[k])]], Len(P[k])>>
      BY <3>1 DEF Spans
    <3> QED BY <3>1, <3>2
  <2> DEFINE Z == Spliced(P, k, Q)
  <2>2. Segments(g, S, Z)
    BY <1>1, <2>1, WindowSplits
  <2>3. Len(P) \in Nat /\ Len(Q) \in Nat /\ k \in Nat /\ k >= 1 /\ k <= Len(P)
    BY <1>0, <1>1, SegmentFacts
  <2>4. /\ Len(Z) = (k - 1) + Len(Q)
        /\ \A i \in 1..k - 1 : i \in 1..Len(Z) /\ Z[i] = P[i]
        /\ \A i \in 1..Len(Q) : i + (k - 1) \in 1..Len(Z) /\ Z[i + (k - 1)] = Q[i]
        /\ \A i \in 1..Len(Z) : i \in 1..k - 1 \/ i - (k - 1) \in 1..Len(Q)
    <3>1. Len(Z) = (k - 1) + Len(Q) /\ DOMAIN Z = 1..(k - 1) + Len(Q)
      <4>1. DOMAIN Z = 1..(k - 1) + Len(Q) /\ (k - 1) + Len(Q) \in Nat
        BY <2>3 DEF Spliced
      <4>2. Z \in Seq(Seq(Msg))
        BY <2>2 DEF Segments, Sized
      <4> HIDE DEF Z
      <4>3. DOMAIN Z = 1..Len(Z) /\ Len(Z) \in Nat
        BY <4>2
      <4> QED BY <4>1, <4>3
    <3>2. \A i \in 1..k - 1 : i \in 1..(k - 1) + Len(Q) /\ i < k
      BY <2>3
    <3>3. \A i \in 1..Len(Q) : /\ i + (k - 1) \in 1..(k - 1) + Len(Q) /\ ~(i + (k - 1) < k)
                              /\ (i + (k - 1)) - (k - 1) = i
      BY <2>3
    <3>4. \A i \in 1..(k - 1) + Len(Q) : i \in 1..k - 1 \/ i - (k - 1) \in 1..Len(Q)
      BY <2>3
    <3> QED BY <3>1, <3>2, <3>3, <3>4 DEF Spliced
  <2> HIDE DEF Z
  <2>5. Extents(g, S) = Spans(Z)
    BY <2>2, SpansAreExtents
  <2>6. \A i \in 1..Len(P) : SentAt[P[i][1]] < w <=> i \in 1..k - 1
    <3> TAKE i \in 1..Len(P)
    <3>1. Apart(P)
      BY <1>0, <1>1, SegmentsApart
    <3>2. 1 \in 1..Len(P[i]) /\ 1 \in 1..Len(P[k]) /\ P[i][1] \in Msg
      BY <1>0, <1>1, SegmentFacts, Zenon
    <3>3. SentAt[P[i][1]] \in Nat
      BY <1>3, <3>2
    <3>4. i < k \/ i = k \/ k < i
      BY <2>3
    <3>5. i < k => SentAt[P[i][1]] < w
      BY <2>1, <3>1, <3>2 DEF Apart
    <3>6. k < i => w < SentAt[P[i][1]]
      BY <2>1, <3>1, <3>2 DEF Apart
    <3> QED BY <2>1, <2>3, <3>3, <3>4, <3>5, <3>6
  <2> DEFINE spanOf(p) == <<SentAt[p[1]], SentAt[p[Len(p)]], Len(p)>>
  <2>7. /\ Spans(P) = {spanOf(P[i]) : i \in 1..Len(P)}
        /\ Spans(Q) = {spanOf(Q[i]) : i \in 1..Len(Q)}
        /\ Spans(Z) = {spanOf(Z[i]) : i \in 1..Len(Z)}
        /\ \A p : spanOf(p)[1] = SentAt[p[1]]
    BY DEF Spans
  <2> HIDE DEF spanOf
  <2>8. ASSUME NEW x \in Spans(P), x[1] < w PROVE x \in Spans(Z)
    <3>1. PICK i \in 1..Len(P) : x = spanOf(P[i])
      BY <2>7
    <3>2. i \in 1..k - 1
      BY <2>6, <2>7, <2>8, <3>1
    <3> QED BY <2>4, <2>7, <3>1, <3>2
  <2>9. ASSUME NEW x \in Spans(Q) PROVE x \in Spans(Z)
    <3>1. PICK i \in 1..Len(Q) : x = spanOf(Q[i])
      BY <2>7
    <3> QED BY <2>4, <2>7, <3>1
  <2>10. ASSUME NEW x \in Spans(Z) PROVE (x \in Spans(P) /\ x[1] < w) \/ x \in Spans(Q)
    <3>1. PICK i \in 1..Len(Z) : x = spanOf(Z[i])
      BY <2>7
    <3>2. CASE i \in 1..k - 1
      <4>1. i \in 1..Len(P) /\ x = spanOf(P[i])
        BY <2>3, <2>4, <3>1, <3>2
      <4>2. x[1] < w
        BY <2>6, <2>7, <3>2, <4>1
      <4> QED BY <2>7, <4>1, <4>2
    <3>3. CASE i - (k - 1) \in 1..Len(Q)
      <4>1. (i - (k - 1)) + (k - 1) = i
        BY <2>3
      <4>2. x = spanOf(Q[i - (k - 1)])
        BY <2>4, <3>1, <3>3, <4>1
      <4> QED BY <2>7, <3>3, <4>2
    <3> QED BY <2>4, <3>2, <3>3
  <2> QED BY <1>2, <1>4, <2>5, <2>8, <2>9, <2>10
<1> QED BY <1>5, <1>6

-----------------------------------------------------------------------------
(***************************************************************************)
(* What a pass makes of its reads.                                         *)
(***************************************************************************)
\* A row counts messages it covers, of those there are.
Counted(r, S) == r.count <= Cardinality({m \in S : Covers(r, SentAt[m])})

Passes == [open : BOOLEAN, writes : Seq(Row), created : SUBSET Nat, deletes : SUBSET Nat,
           whole : BOOLEAN, cut : BOOLEAN, stale : BOOLEAN]

Bounded(T) == \E b \in Nat : \A r \in T : r.id <= b

Typed ==
    /\ messages \in SUBSET Msg /\ gap \in Gaps /\ event \in Nat
    /\ rows \in SUBSET Row /\ Bounded(rows)
    /\ \A r, s \in rows : (r.id = s.id \/ r.start = s.start) => r = s
    /\ \A r \in rows : Counted(r, messages)
    /\ pass \in [Processes -> Passes]
    /\ \A p \in Processes : \A i \in 1..Len(pass[p].writes) :
          /\ Counted(pass[p].writes[i], messages)
          /\ \A j \in 1..Len(pass[p].writes) : pass[p].writes[i].id = pass[p].writes[j].id => i = j
    /\ behind \in BOOLEAN /\ raced \in BOOLEAN /\ (raced => behind)

LEMMA SeqBounded ==
    ASSUME NEW s \in Seq(Row)
    PROVE  \E b \in Nat : \A i \in 1..Len(s) : s[i].id <= b
<1> DEFINE Has(n) == \E b \in Nat : \A i \in 1..n : s[i].id <= b
           T == {n \in Nat : n <= Len(s) => Has(n)}
<1>1. Len(s) \in Nat /\ \A i \in 1..Len(s) : s[i].id \in Nat
  <2>1. \A i \in 1..Len(s) : s[i] \in Row
    OBVIOUS
  <2> QED BY <2>1 DEF Row
<1>2. 0 \in T
  <2>1. \A i \in 1..0 : s[i].id <= 0
    OBVIOUS
  <2> QED BY <2>1
<1>3. ASSUME NEW n \in Nat, n + 1 <= Len(s), Has(n) PROVE Has(n + 1)
  <2>1. PICK b \in Nat : \A i \in 1..n : s[i].id <= b
    BY <1>3
  <2>2. PICK c \in Nat : c = s[n + 1].id
    <3>1. n + 1 \in 1..Len(s)
      BY <1>1, <1>3
    <3> QED BY <1>1, <3>1
  <2>3. b + c \in Nat /\ \A i \in 1..n + 1 : s[i].id <= b + c
    <3>1. \A i \in 1..n + 1 : i \in 1..n \/ i = n + 1
      BY <1>3
    <3>2. ASSUME NEW i \in 1..n PROVE s[i].id <= b + c
      <4>1. i \in 1..Len(s)
        BY <1>1, <1>3
      <4>2. s[i].id \in Nat /\ s[i].id <= b
        BY <1>1, <2>1, <4>1
      <4> QED BY <4>2
    <3>3. s[n + 1].id <= b + c
      BY <2>2
    <3> QED BY <3>1, <3>2, <3>3
  <2> QED BY <2>3
<1> HIDE DEF Has
<1>4. \A n \in T : n \in Nat /\ n < Len(s) => n + 1 \in T
  <2> SUFFICES ASSUME NEW n \in T, n \in Nat, n < Len(s), n + 1 <= Len(s) PROVE Has(n + 1)
    OBVIOUS
  <2>1. n <= Len(s)
    BY <1>1
  <2> QED BY <1>3, <2>1
<1> HIDE DEF T
<1>5. Len(s) \in T
  <2>1. Len(s) \in 0..Len(s)
    BY <1>1
  <2> QED BY <1>1, <1>2, <1>4, <2>1, Upwards
<1> QED BY <1>1, <1>5 DEF T, Has

\* An identifier that is given is in no table and no plan.
LEMMA NewIdIsNew ==
    ASSUME Typed, NEW written \in Seq(Row)
    PROVE  /\ NewId(written) \in Nat \ {0}
           /\ \A r \in rows : r.id # NewId(written)
           /\ \A i \in 1..Len(written) : written[i].id # NewId(written)
<1> DEFINE ids == {0} \cup {r.id : r \in rows \cup Range(written)}
                     \cup {r.id : r \in UNION {Range(pass[p].writes) : p \in Processes}}
<1>1. Range(written) = {written[i] : i \in 1..Len(written)} /\ Range(written) \subseteq Row
  BY DEF Range
<1>2. \A p \in Processes : /\ pass[p].writes \in Seq(Row)
                            /\ Range(pass[p].writes) = {pass[p].writes[i] : i \in 1..Len(pass[p].writes)}
                            /\ Range(pass[p].writes) \subseteq Row
  <2> TAKE p \in Processes
  <2>1. pass[p].writes \in Seq(Row)
    BY DEF Typed, Passes
  <2> QED BY <2>1 DEF Range
<1>3. ids \subseteq Nat /\ ids # {}
  <2>1. rows \subseteq Row /\ \A r \in Row : r.id \in Nat
    BY DEF Typed, Row
  <2> QED BY <1>1, <1>2, <2>1
<1>4. PICK a \in Nat : \A r \in rows : r.id <= a
  BY DEF Typed, Bounded
<1>5. PICK b \in Nat : \A i \in 1..Len(written) : written[i].id <= b
  BY SeqBounded
<1>6. PICK c \in Nat : \A i \in 1..Len(pass["assistant"].writes) : pass["assistant"].writes[i].id <= c
  BY <1>2, SeqBounded DEF Processes
<1>7. PICK d \in Nat : \A i \in 1..Len(pass["rebuild"].writes) : pass["rebuild"].writes[i].id <= d
  BY <1>2, SeqBounded DEF Processes
<1>8. ASSUME NEW k \in ids PROVE k <= a + b + c + d
  <2>0. k \in Nat
    BY <1>3
  <2>1. \/ k = 0
        \/ \E r \in rows : k = r.id
        \/ \E i \in 1..Len(written) : k = written[i].id
        \/ \E i \in 1..Len(pass["assistant"].writes) : k = pass["assistant"].writes[i].id
        \/ \E i \in 1..Len(pass["rebuild"].writes) : k = pass["rebuild"].writes[i].id
    <3>1. "assistant" \in Processes /\ "rebuild" \in Processes
          /\ \A p \in Processes : p = "assistant" \/ p = "rebuild"
      BY DEF Processes
    <3>2. \/ k = 0
          \/ \E r \in rows : k = r.id
          \/ \E r \in Range(written) : k = r.id
          \/ \E p \in Processes : \E r \in Range(pass[p].writes) : k = r.id
      OBVIOUS
    <3>3. (\E r \in Range(written) : k = r.id) => \E i \in 1..Len(written) : k = written[i].id
      BY <1>1
    <3>4. ASSUME NEW p \in Processes, \E r \in Range(pass[p].writes) : k = r.id
          PROVE  \E i \in 1..Len(pass[p].writes) : k = pass[p].writes[i].id
      <4>1. PICK r \in Range(pass[p].writes) : k = r.id
        BY <3>4
      <4>2. r \in {pass[p].writes[i] : i \in 1..Len(pass[p].writes)}
        BY <1>2
      <4> QED BY <4>1, <4>2
    <3> QED BY <3>1, <3>2, <3>3, <3>4
  <2>2. k = 0 \/ k <= a \/ k <= b \/ k <= c \/ k <= d
    BY <1>4, <1>5, <1>6, <1>7, <2>1
  <2> QED BY <2>0, <2>2
<1> HIDE DEF ids
<1>9. Max(ids) \in Nat /\ \A k \in ids : k <= Max(ids)
  <2>1. a + b + c + d \in Nat
    OBVIOUS
  <2> QED BY <1>3, <1>8, <2>1, MaxOfBounded
<1>10. NewId(written) = 1 + Max(ids)
  BY DEF NewId, ids
<1>11. \A k \in ids : k # NewId(written)
  <2> TAKE k \in ids
  <2>1. k \in Nat /\ k <= Max(ids)
    BY <1>3, <1>9
  <2> QED BY <1>9, <1>10, <2>1
<1>12. /\ \A r \in rows : r.id \in ids
       /\ \A i \in 1..Len(written) : written[i].id \in ids
  BY <1>1 DEF ids
<1> QED BY <1>9, <1>10, <1>11, <1>12

LEMMA SpanningIs ==
    ASSUME NEW g \in Nat, NEW S \in SUBSET Msg, NEW P, Segments(g, S, P),
           NEW i \in 1..Len(P), NEW id
    PROVE  /\ Spanning(id, P[i]) = [id |-> id, start |-> SentAt[P[i][1]],
                                    end |-> SentAt[P[i][Len(P[i])]], count |-> Len(P[i])]
           /\ id \in Nat \ {0} => Spanning(id, P[i]) \in Row
           /\ \A a \in 1..Len(P[i]) : Covers(Spanning(id, P[i]), SentAt[P[i][a]])
<1>1. /\ P[i] \in Seq(Msg) /\ Len(P[i]) \in 1..Cap /\ Len(P[i]) \in Nat
      /\ 1 \in 1..Len(P[i]) /\ Len(P[i]) \in 1..Len(P[i])
  BY SegmentFacts DEF Segments, Sized
<1>2. P[i] # <<>> /\ Head(P[i]) = P[i][1] /\ Last(P[i]) = P[i][Len(P[i])]
  BY <1>1 DEF Last
<1>3. Spanning(id, P[i]) = [id |-> id, start |-> SentAt[P[i][1]],
                            end |-> SentAt[P[i][Len(P[i])]], count |-> Len(P[i])]
  BY <1>2 DEF Spanning
<1>4. P[i][1] \in Msg /\ P[i][Len(P[i])] \in Msg
  BY <1>1
<1>5. SentAt[P[i][1]] \in Instants /\ SentAt[P[i][Len(P[i])]] \in Instants
  BY <1>4 DEF Instants
<1>6. ASSUME NEW a \in 1..Len(P[i])
      PROVE  SentAt[P[i][1]] <= SentAt[P[i][a]] /\ SentAt[P[i][a]] <= SentAt[P[i][Len(P[i])]]
  <2>1. P[i][a] \in Msg /\ \A m \in Msg : m \in Nat
    BY <1>1, MsgFacts
  <2>2. (1 < a \/ 1 = a) /\ (a < Len(P[i]) \/ a = Len(P[i]))
    BY <1>1
  <2>3. P[i][1] <= P[i][a] /\ P[i][a] <= P[i][Len(P[i])]
    BY <1>1, <1>4, <2>1, <2>2 DEF Segments, InOrder
  <2> QED BY <1>4, <2>1, <2>3, MsgFacts
<1> QED BY <1>1, <1>3, <1>5, <1>6 DEF Row, Covers

LEMMA ClaimantCovers ==
    ASSUME NEW free, NEW piece \in Seq(Msg), NEW r \in Claimant(free, piece)
    PROVE  r \in free /\ \E a \in 1..Len(piece) : Covers(r, SentAt[piece[a]])
<1> DEFINE votes(s) == Cardinality({m \in Range(piece) : s \in Owner(free, m)})
<1>1. r \in free /\ votes(r) > 0
  BY DEF Claimant
<1>2. {m \in Range(piece) : r \in Owner(free, m)} # {}
  <2>1. Cardinality({}) = 0
    BY FS_EmptySet
  <2>2. ~(0 > 0)
    OBVIOUS
  <2> QED BY <1>1, <2>1, <2>2
<1>3. PICK m \in Range(piece) : r \in Owner(free, m)
  BY <1>2
<1>4. PICK a \in 1..Len(piece) : m = piece[a]
  BY DEF Range
<1> QED BY <1>1, <1>3, <1>4 DEF Owner

\* A free conversation that alone contains the messages of a piece has it.
LEMMA ClaimantAlone ==
    ASSUME NEW free \in SUBSET Row, NEW piece \in Seq(Msg), Len(piece) >= 1, NEW r \in free,
           \A a \in 1..Len(piece) : /\ Covers(r, SentAt[piece[a]])
                                    /\ \A s \in free : Covers(s, SentAt[piece[a]]) => s = r
    PROVE  Claimant(free, piece) = {r}
<1> DEFINE votes(s) == Cardinality({m \in Range(piece) : s \in Owner(free, m)})
<1>1. Range(piece) = {piece[a] : a \in 1..Len(piece)} /\ Range(piece) \in SUBSET Msg
  BY DEF Range
<1>2. \A s \in free : s.start \in Nat /\ s.id \in Nat
  BY MsgFacts DEF Row, Instants
<1>3. \A m \in Range(piece) : Owner(free, m) = {r}
  BY <1>1, <1>2 DEF Owner
<1>4. votes(r) > 0 /\ votes(r) \in Nat
  <2>1. {m \in Range(piece) : r \in Owner(free, m)} = Range(piece)
    BY <1>3
  <2>2. piece[1] \in Range(piece)
    BY <1>1
  <2>3. Cardinality({}) < Cardinality(Range(piece))
    BY <1>1, <2>2, FewerWithout
  <2>4. Cardinality({}) = 0 /\ Cardinality(Range(piece)) \in Nat
    BY <1>1, MsgFinite, FS_EmptySet
  <2> QED BY <2>1, <2>3, <2>4
<1>5. \A s \in free : s # r => votes(s) = 0
  <2> TAKE s \in free
  <2> HAVE s # r
  <2>1. {m \in Range(piece) : s \in Owner(free, m)} = {}
    BY <1>3
  <2> QED BY <2>1, FS_EmptySet
<1> DEFINE voted == {s \in free : votes(s) > 0}
           best == {s \in voted : \A t \in voted : votes(t) <= votes(s)}
<1>6. Claimant(free, piece) = {s \in best : \A t \in best : s.id <= t.id}
  BY DEF Claimant
<1> HIDE DEF votes
<1>7. voted = {r}
  <2>1. ~(0 > 0)
    OBVIOUS
  <2> QED BY <1>4, <1>5, <2>1
<1>8. best = {r}
  BY <1>4, <1>7
<1> HIDE DEF best
<1> QED BY <1>2, <1>6, <1>8

Stored(w) == {r \in rows : r.start >= w}

Shares(r, x) == \E m \in messages : Covers(r, SentAt[m]) /\ Covers(x, SentAt[m])

\* A plan has a row for each of n pieces, each its own: one that is new, or one that
\* was stored and shares a message with the piece.  What it takes is rows of
\* pieces, and what it writes.
Made(w, P, n, x, item) ==
    /\ x \in [writes : Seq(Row), created : SUBSET Nat, free : SUBSET Stored(w)]
    /\ item \in [1..n -> Row]
    /\ \A k \in 1..n : item[k] = Spanning(item[k].id, P[k])
    /\ \A k, l \in 1..n : item[k].id = item[l].id => k = l
    /\ \A k \in 1..n : \/ item[k].id \in x.created
                       \/ \E r \in Stored(w) \ x.free : r.id = item[k].id /\ Shares(r, item[k])
    /\ \A k \in 1..n : \/ \E i \in 1..Len(x.writes) : x.writes[i] = item[k]
                       \/ item[k] \in Stored(w) \ x.free
    /\ \A i \in 1..Len(x.writes) : \E k \in 1..n : x.writes[i] = item[k]
    /\ \A r \in Stored(w) \ x.free : \E k \in 1..n : item[k].id = r.id
    /\ \A i, j \in 1..Len(x.writes) : x.writes[i].id = x.writes[j].id => i = j
    /\ \A r \in rows : r.id \notin x.created

\* Plan y is plan x with z for the next piece.
Adds(w, P, n, x, item, z, y) ==
    /\ z \in Row /\ z = Spanning(z.id, P[n + 1])
    /\ \A k \in 1..n : item[k].id # z.id
    /\ y \in [writes : Seq(Row), created : SUBSET Nat, free : SUBSET Stored(w)]
    /\ \/ y.writes = x.writes /\ z \in Stored(w) \ y.free
       \/ y.writes = Append(x.writes, z)
    /\ x.created \subseteq y.created /\ y.free \subseteq x.free
    /\ \A r \in rows : r.id \notin y.created
    /\ \/ z.id \in y.created
       \/ \E r \in Stored(w) \ y.free : r.id = z.id /\ Shares(r, z)
    /\ \A r \in x.free \ y.free : r.id = z.id

LEMMA OneMore ==
    ASSUME NEW w \in Nat, NEW P, NEW n \in Nat, NEW x, NEW item, Made(w, P, n, x, item),
           NEW z, NEW y, Adds(w, P, n, x, item, z, y)
    PROVE  \E more : Made(w, P, n + 1, y, more)
<1> USE DEF Adds
<1> DEFINE more == [k \in 1..n + 1 |-> IF k = n + 1 THEN z ELSE item[k]]
<1>1. /\ x \in [writes : Seq(Row), created : SUBSET Nat, free : SUBSET Stored(w)]
      /\ x.writes \in Seq(Row) /\ Len(x.writes) \in Nat
  BY DEF Made
<1>2. /\ \A k \in 1..n + 1 : (k \in 1..n /\ more[k] = item[k]) \/ (k = n + 1 /\ more[k] = z)
      /\ \A k \in 1..n : k \in 1..n + 1 /\ more[k] = item[k] /\ k # n + 1
      /\ n + 1 \in 1..n + 1 /\ more[n + 1] = z
  OBVIOUS
<1>3. more \in [1..n + 1 -> Row]
  BY DEF Made
<1> HIDE DEF more
<1>4. /\ Len(y.writes) \in Nat /\ Len(x.writes) <= Len(y.writes)
      /\ \A i \in 1..Len(x.writes) : i \in 1..Len(y.writes) /\ y.writes[i] = x.writes[i]
      /\ \A i \in 1..Len(y.writes) :
            \/ i \in 1..Len(x.writes) /\ y.writes[i] = x.writes[i]
            \/ i = Len(x.writes) + 1 /\ y.writes[i] = z
      /\ \/ z \in Stored(w) \ y.free
         \/ \E i \in 1..Len(y.writes) : y.writes[i] = z
  <2>1. CASE y.writes = x.writes /\ z \in Stored(w) \ y.free
    BY <1>1, <2>1
  <2>2. CASE y.writes = Append(x.writes, z)
    <3>1. Len(y.writes) = Len(x.writes) + 1 /\ y.writes[Len(x.writes) + 1] = z
          /\ \A i \in 1..Len(x.writes) : y.writes[i] = x.writes[i]
      BY <1>1, <2>2
    <3>2. \A i \in 1..Len(x.writes) + 1 : i \in 1..Len(x.writes) \/ i = Len(x.writes) + 1
      BY <1>1
    <3>3. Len(x.writes) + 1 \in 1..Len(x.writes) + 1
          /\ \A i \in 1..Len(x.writes) : i \in 1..Len(x.writes) + 1
      BY <1>1
    <3>4. Len(y.writes) \in Nat /\ Len(x.writes) <= Len(y.writes)
      BY <1>1, <3>1
    <3> QED BY <3>1, <3>2, <3>3, <3>4
  <2> QED BY <2>1, <2>2
<1>5. \A k \in 1..n + 1 : more[k] = Spanning(more[k].id, P[k])
  BY <1>2 DEF Made
<1>6. \A k, l \in 1..n + 1 : more[k].id = more[l].id => k = l
  BY <1>2 DEF Made
<1>7. \A k \in 1..n + 1 : \/ more[k].id \in y.created
                         \/ \E r \in Stored(w) \ y.free : r.id = more[k].id /\ Shares(r, more[k])
  <2> TAKE k \in 1..n + 1
  <2>1. CASE more[k] = z
    BY <2>1
  <2>2. CASE k \in 1..n /\ more[k] = item[k]
    <3>1. \/ item[k].id \in x.created
          \/ \E r \in Stored(w) \ x.free : r.id = item[k].id /\ Shares(r, item[k])
      BY <2>2 DEF Made
    <3> QED BY <2>2, <3>1
  <2> QED BY <1>2, <2>1, <2>2
<1>8. \A k \in 1..n + 1 : \/ \E i \in 1..Len(y.writes) : y.writes[i] = more[k]
                         \/ more[k] \in Stored(w) \ y.free
  <2> TAKE k \in 1..n + 1
  <2>1. CASE more[k] = z
    BY <1>4, <2>1
  <2>2. CASE k \in 1..n /\ more[k] = item[k]
    <3>1. \/ \E i \in 1..Len(x.writes) : x.writes[i] = item[k]
          \/ item[k] \in Stored(w) \ x.free
      BY <2>2 DEF Made
    <3> QED BY <1>4, <2>2, <3>1
  <2> QED BY <1>2, <2>1, <2>2
<1>9. \A i \in 1..Len(y.writes) : \E k \in 1..n + 1 : y.writes[i] = more[k]
  <2> TAKE i \in 1..Len(y.writes)
  <2>1. CASE y.writes[i] = z
    BY <1>2, <2>1
  <2>2. CASE i \in 1..Len(x.writes) /\ y.writes[i] = x.writes[i]
    <3>1. \E k \in 1..n : x.writes[i] = item[k]
      BY <2>2 DEF Made
    <3> QED BY <1>2, <2>2, <3>1
  <2> QED BY <1>4, <2>1, <2>2
<1>10. \A r \in Stored(w) \ y.free : \E k \in 1..n + 1 : more[k].id = r.id
  <2> TAKE r \in Stored(w) \ y.free
  <2>1. CASE r \in x.free
    BY <1>2, <2>1
  <2>2. CASE r \notin x.free
    <3>1. \E k \in 1..n : item[k].id = r.id
      BY <2>2 DEF Made
    <3> QED BY <1>2, <3>1
  <2> QED BY <2>1, <2>2
<1>11. \A i, j \in 1..Len(y.writes) : y.writes[i].id = y.writes[j].id => i = j
  <2>1. \A i \in 1..Len(x.writes) : x.writes[i].id # z.id
    <3> TAKE i \in 1..Len(x.writes)
    <3>1. \E k \in 1..n : x.writes[i] = item[k]
      BY DEF Made
    <3> QED BY <3>1
  <2>2. \A i, j \in 1..Len(x.writes) : x.writes[i].id = x.writes[j].id => i = j
    BY DEF Made
  <2> SUFFICES ASSUME NEW i \in 1..Len(y.writes), NEW j \in 1..Len(y.writes),
                      y.writes[i].id = y.writes[j].id
               PROVE  i = j
    OBVIOUS
  <2>3. CASE y.writes[i] = z /\ i = Len(x.writes) + 1
    <3>1. ~(j \in 1..Len(x.writes) /\ y.writes[j] = x.writes[j])
      BY <2>1, <2>3
    <3> QED BY <1>4, <2>3, <3>1
  <2>4. CASE i \in 1..Len(x.writes) /\ y.writes[i] = x.writes[i]
    <3>1. ~(y.writes[j] = z)
      BY <2>1, <2>4
    <3>2. j \in 1..Len(x.writes) /\ y.writes[j] = x.writes[j]
      BY <1>4, <3>1
    <3> QED BY <2>2, <2>4, <3>2
  <2> QED BY <1>4, <2>3, <2>4
<1>12. Made(w, P, n + 1, y, more)
  BY <1>3, <1>5, <1>6, <1>7, <1>8, <1>9, <1>10, <1>11, Zenon DEF Made
<1> QED BY <1>12

LEMMA Reconciled ==
    ASSUME Typed, NEW g \in Nat, NEW S \in SUBSET messages, NEW P, Segments(g, S, P),
           NEW w \in Nat, NEW n \in Nat, n + 1 <= Len(P), NEW x, NEW item, Made(w, P, n, x, item)
    PROVE  \E more : Made(w, P, n + 1, Reconcile(x, P[n + 1]), more)
<1> DEFINE y == Reconcile(x, P[n + 1])
           owner == Claimant(x.free, P[n + 1])
<1>1. /\ x \in [writes : Seq(Row), created : SUBSET Nat, free : SUBSET Stored(w)]
      /\ x.writes \in Seq(Row) /\ x.created \subseteq Nat /\ x.free \subseteq Stored(w)
      /\ Stored(w) \subseteq Row /\ \A r \in rows : r \in Row /\ r.id \in Nat \ {0}
  BY DEF Made, Stored, Typed, Row
<1>2. S \in SUBSET Msg /\ messages \in SUBSET Msg
  BY DEF Typed
<1>3. n + 1 \in 1..Len(P) /\ P[n + 1] \in Seq(Msg)
  <2>1. n + 1 \in 1..Len(P)
    BY <1>2, SegmentFacts
  <2> QED BY <1>2, <2>1, SegmentFacts
<1>4. \A r, s \in rows : r.id = s.id => r = s
  BY DEF Typed
<1>5. \A k \in 1..n : \/ item[k].id \in x.created
                     \/ \E r \in Stored(w) \ x.free : r.id = item[k].id
  BY DEF Made
<1>6. \A r \in rows : r.id \notin x.created
  BY DEF Made
<1>7. CASE owner = {}
  <2> DEFINE id == NewId(x.writes)
             z == Spanning(id, P[n + 1])
  <2>1. /\ id \in Nat \ {0} /\ \A r \in rows : r.id # id
        /\ \A i \in 1..Len(x.writes) : x.writes[i].id # id
    BY <1>1, NewIdIsNew
  <2>2. y = [x EXCEPT !.writes = Append(@, z), !.created = @ \cup {id}]
    BY <1>7 DEF Reconcile
  <2> HIDE DEF id, y
  <2>3. z \in Row /\ z.id = id
    <3>1. /\ Spanning(id, P[n + 1]) = [id |-> id, start |-> SentAt[P[n + 1][1]],
                                       end |-> SentAt[P[n + 1][Len(P[n + 1])]],
                                       count |-> Len(P[n + 1])]
          /\ id \in Nat \ {0} => Spanning(id, P[n + 1]) \in Row
      BY <1>2, <1>3, SpanningIs, Zenon
    <3> QED BY <2>1, <3>1
  <2>4. z = Spanning(z.id, P[n + 1])
    BY <2>3
  <2> HIDE DEF z
  <2>5. /\ y \in [writes : Seq(Row), created : SUBSET Nat, free : SUBSET Stored(w)]
        /\ y.writes = Append(x.writes, z) /\ y.created = x.created \cup {id} /\ y.free = x.free
    <3>1. Append(x.writes, z) \in Seq(Row) /\ x.created \cup {id} \in SUBSET Nat
      BY <1>1, <2>1, <2>3
    <3>2. y = [x EXCEPT !.writes = Append(x.writes, z), !.created = x.created \cup {id}]
      BY <2>2 DEF z
    <3> QED BY <1>1, <3>1, <3>2
  <2>6. \A k \in 1..n : item[k].id # z.id
    <3> TAKE k \in 1..n
    <3>1. \/ \E i \in 1..Len(x.writes) : x.writes[i] = item[k]
          \/ item[k] \in Stored(w) \ x.free
      BY DEF Made
    <3> QED BY <2>1, <2>3, <3>1 DEF Stored
  <2>7. \A r \in rows : r.id \notin y.created
    BY <1>6, <2>1, <2>5
  <2>8. Adds(w, P, n, x, item, z, y)
    BY <2>3, <2>4, <2>5, <2>6, <2>7 DEF Adds
  <2>9. \E more : Made(w, P, n + 1, y, more)
    BY <2>8, OneMore
  <2> QED BY <2>9 DEF y
<1>8. CASE owner # {}
  <2> DEFINE r == CHOOSE s \in owner : TRUE
             z == Spanning(r.id, P[n + 1])
  <2>1. r \in owner
    BY <1>8
  <2>2. y = [x EXCEPT !.free = @ \ {r}, !.writes = IF z = r THEN @ ELSE Append(@, z)]
    BY <1>8 DEF Reconcile
  <2> HIDE DEF r, y
  <2>3. r \in x.free /\ \E a \in 1..Len(P[n + 1]) : Covers(r, SentAt[P[n + 1][a]])
    BY <1>3, <2>1, ClaimantCovers
  <2> HIDE DEF owner
  <2>4. r \in rows /\ r \in Stored(w) /\ r \in Row /\ r.id \in Nat \ {0}
    BY <1>1, <2>3 DEF Stored
  <2>5. z \in Row /\ z.id = r.id /\ \A a \in 1..Len(P[n + 1]) : Covers(z, SentAt[P[n + 1][a]])
    <3>1. /\ Spanning(r.id, P[n + 1]) = [id |-> r.id, start |-> SentAt[P[n + 1][1]],
                                         end |-> SentAt[P[n + 1][Len(P[n + 1])]],
                                         count |-> Len(P[n + 1])]
          /\ r.id \in Nat \ {0} => Spanning(r.id, P[n + 1]) \in Row
          /\ \A a \in 1..Len(P[n + 1]) : Covers(Spanning(r.id, P[n + 1]), SentAt[P[n + 1][a]])
      BY <1>2, <1>3, SpanningIs, Zenon
    <3> QED BY <2>4, <3>1, SMTT(30)
  <2>6. z = Spanning(z.id, P[n + 1])
    BY <2>5
  <2> HIDE DEF z
  <2>7. Shares(r, z)
    <3>1. PICK a \in 1..Len(P[n + 1]) : Covers(r, SentAt[P[n + 1][a]])
      BY <2>3
    <3>2. P[n + 1][a] \in messages
      <4>1. P[n + 1][a] \in S
        BY <1>3 DEF Segments, Lists
      <4> QED BY <4>1
    <3> QED BY <2>5, <3>1, <3>2 DEF Shares
  <2>8. /\ y.created = x.created /\ y.free = x.free \ {r}
        /\ y.writes = IF z = r THEN x.writes ELSE Append(x.writes, z)
        /\ y \in [writes : Seq(Row), created : SUBSET Nat, free : SUBSET Stored(w)]
    <3>1. Append(x.writes, z) \in Seq(Row)
      BY <1>1, <2>5
    <3> QED BY <1>1, <2>2, <3>1
  <2>9. r \in Stored(w) \ y.free
    BY <2>4, <2>8
  <2>10. \/ y.writes = x.writes /\ z \in Stored(w) \ y.free
         \/ y.writes = Append(x.writes, z)
    BY <2>8, <2>9
  <2>11. \A k \in 1..n : item[k].id # z.id
    <3> TAKE k \in 1..n
    <3>1. CASE item[k].id \in x.created
      BY <1>6, <2>4, <2>5, <3>1
    <3>2. CASE \E s \in Stored(w) \ x.free : s.id = item[k].id
      <4>1. PICK s \in Stored(w) \ x.free : s.id = item[k].id
        BY <3>2
      <4>2. s \in rows /\ s # r
        BY <2>3, <4>1 DEF Stored
      <4> QED BY <1>4, <2>4, <2>5, <4>1, <4>2
    <3> QED BY <1>5, <3>1, <3>2
  <2>12. \A s \in x.free \ y.free : s.id = z.id
    BY <2>5, <2>8
  <2>13. \A s \in rows : s.id \notin y.created
    BY <1>6, <2>8
  <2>14. Adds(w, P, n, x, item, z, y)
    <3>1. x.created \subseteq y.created /\ y.free \subseteq x.free
      BY <2>8
    <3>2. \E s \in Stored(w) \ y.free : s.id = z.id /\ Shares(s, z)
      BY <2>5, <2>7, <2>9
    <3>3. z \in Row
      BY <2>5
    <3>4. y \in [writes : Seq(Row), created : SUBSET Nat, free : SUBSET Stored(w)]
      BY <2>8
    <3> QED BY <2>6, <2>10, <2>11, <2>12, <2>13, <3>1, <3>2, <3>3, <3>4 DEF Adds
  <2>15. \E more : Made(w, P, n + 1, y, more)
    BY <2>14, OneMore
  <2> QED BY <2>15 DEF y
<1> QED BY <1>7, <1>8

-----------------------------------------------------------------------------
(***************************************************************************)
(* The plan of a window.                                                   *)
(***************************************************************************)
\* The plan after n pieces, x before the last of them.
PlanTo(w, P, n, x) ==
    IF n = 0 THEN [writes |-> <<>>, created |-> {}, free |-> Stored(w)] ELSE Reconcile(x, P[n])

\* The pass of a plan that is made.
PassOf(w, x) ==
    [open |-> TRUE, writes |-> x.writes, created |-> x.created,
     deletes |-> {r.id : r \in x.free},
     whole |-> w = None, cut |-> Read(w) # Within(w), stale |-> FALSE]

LEMMA PlanUnfolds ==
    ASSUME NEW w, NEW P, P = Divide(gap, Read(w)), Len(P) \in Nat
    PROVE  \E f : /\ \A n \in 0..Len(P) : f[n] = PlanTo(w, P, n, f[n - 1])
                  /\ Plan(w) = PassOf(w, f[Len(P)])
<1> DEFINE N == Len(P)
           Def(f) == [n \in 0..N |-> PlanTo(w, P, n, f[n - 1])]
           Good(n) == \E h : \A m \in 0..n : h[m] = PlanTo(w, P, m, h[m - 1])
           Goods == {n \in Nat : Good(n)}
<1>0. N \in Nat
  OBVIOUS
<1> HIDE DEF N
<1>1. Good(0)
  <2> DEFINE h == [i \in {0} |-> PlanTo(w, P, 0, 0)]
  <2>1. \A m \in 0..0 : m = 0
    OBVIOUS
  <2>2. h[0] = PlanTo(w, P, 0, h[0 - 1])
    BY DEF PlanTo
  <2> QED BY <2>1, <2>2
<1>2. ASSUME NEW n \in Nat, Good(n) PROVE Good(n + 1)
  <2>1. PICK h : \A m \in 0..n : h[m] = PlanTo(w, P, m, h[m - 1])
    BY <1>2
  <2> DEFINE k == [m \in 0..n + 1 |-> IF m = n + 1 THEN PlanTo(w, P, m, h[n]) ELSE h[m]]
  <2>2. ASSUME NEW m \in 0..n + 1 PROVE k[m] = PlanTo(w, P, m, k[m - 1])
    <3>1. CASE m = n + 1
      <4>1. k[m] = PlanTo(w, P, m, h[n]) /\ m - 1 = n /\ n \in 0..n + 1 /\ k[n] = h[n]
        BY <3>1
      <4> QED BY <4>1
    <3>2. CASE m \in 1..n
      <4>1. m \in 0..n /\ m - 1 \in 0..n + 1 /\ m - 1 # n + 1 /\ m # n + 1
        BY <3>2
      <4>2. k[m] = h[m] /\ k[m - 1] = h[m - 1]
        BY <4>1
      <4> QED BY <2>1, <4>1, <4>2
    <3>3. CASE m = 0
      <4>1. k[0] = h[0] /\ 0 \in 0..n
        BY <3>3
      <4> QED BY <2>1, <3>3, <4>1 DEF PlanTo
    <3> QED BY <3>1, <3>2, <3>3
  <2> HIDE DEF k
  <2> QED BY <2>2
<1> HIDE DEF Good
<1>3. \A n \in 0..N : n \in Goods
  <2>1. 0 \in Goods /\ \A n \in Goods : n \in Nat /\ n < N => n + 1 \in Goods
    BY <1>1, <1>2
  <2> HIDE DEF Goods
  <2> QED BY <1>0, <2>1, Upwards
<1>4. Good(N)
  BY <1>0, <1>3
<1>5. PICK h : \A m \in 0..N : h[m] = PlanTo(w, P, m, h[m - 1])
  BY <1>4 DEF Good
<1> DEFINE e == [m \in 0..N |-> h[m]]
<1>6. e = Def(e)
  <2>1. ASSUME NEW m \in 0..N PROVE h[m] = PlanTo(w, P, m, e[m - 1])
    <3>1. CASE m = 0
      BY <1>5, <3>1 DEF PlanTo
    <3>2. CASE m # 0
      <4>1. m - 1 \in 0..N
        BY <1>0, <3>2
      <4> QED BY <1>5, <4>1
    <3> QED BY <3>1, <3>2
  <2> QED BY <2>1
<1> HIDE DEF e
<1> DEFINE c == CHOOSE f : f = Def(f)
<1>7. c = Def(c)
  BY <1>6
<1>8. Plan(w) = PassOf(w, c[N])
  BY DEF Plan, PassOf, PlanTo, Stored, N
<1> HIDE DEF c
<1>9. \A m \in 0..N : c[m] = PlanTo(w, P, m, c[m - 1])
  BY <1>7
<1> QED BY <1>8, <1>9 DEF N

LEMMA PlanMade ==
    ASSUME Typed, NEW g \in Nat, NEW S \in SUBSET messages, NEW P, Segments(g, S, P),
           NEW w \in Nat, NEW f, \A n \in 0..Len(P) : f[n] = PlanTo(w, P, n, f[n - 1])
    PROVE  \E item : Made(w, P, Len(P), f[Len(P)], item)
<1> DEFINE N == Len(P)
           Good(n) == \E item : Made(w, P, n, f[n], item)
           Goods == {n \in Nat : Good(n)}
<1>0. N \in Nat
  <2>1. S \in SUBSET Msg
    BY DEF Typed
  <2> QED BY <2>1, SegmentFacts
<1> HIDE DEF N
<1>1. Good(0)
  <2> DEFINE x == [writes |-> <<>>, created |-> {}, free |-> Stored(w)]
             none == [k \in {} |-> CHOOSE r : r \in Row]
  <2>1. f[0] = x
    <3>1. 0 \in 0..Len(P)
      BY <1>0 DEF N
    <3>2. f[0] = PlanTo(w, P, 0, f[0 - 1])
      BY <3>1
    <3> QED BY <3>2 DEF PlanTo
  <2>2. x \in [writes : Seq(Row), created : SUBSET Nat, free : SUBSET Stored(w)] /\ Len(x.writes) = 0
    OBVIOUS
  <2>3. none \in [1..0 -> Row]
    <3>1. 1..0 = {}
      OBVIOUS
    <3> QED BY <3>1
  <2> HIDE DEF none
  <2>4. Stored(w) \ x.free = {} /\ x.created = {}
    OBVIOUS
  <2> HIDE DEF x
  <2>5. \A i \in 1..0 : FALSE
    OBVIOUS
  <2>6. Made(w, P, 0, x, none)
    BY <2>2, <2>3, <2>4, <2>5 DEF Made
  <2> QED BY <2>1, <2>6
<1>2. ASSUME NEW n \in Nat, n < N, Good(n) PROVE Good(n + 1)
  <2>1. n + 1 \in 0..N /\ n + 1 # 0 /\ (n + 1) - 1 = n /\ n + 1 <= Len(P)
    BY <1>0, <1>2 DEF N
  <2>2. f[n + 1] = Reconcile(f[n], P[n + 1])
    BY <2>1 DEF PlanTo, N
  <2>3. PICK item : Made(w, P, n, f[n], item)
    BY <1>2
  <2>4. PICK x : x = f[n]
    OBVIOUS
  <2>5. \E more : Made(w, P, n + 1, Reconcile(x, P[n + 1]), more)
    BY <2>1, <2>3, <2>4, Reconciled
  <2> QED BY <2>2, <2>4, <2>5
<1> HIDE DEF Good
<1>3. \A n \in 0..N : n \in Goods
  <2>1. 0 \in Goods /\ \A n \in Goods : n \in Nat /\ n < N => n + 1 \in Goods
    BY <1>1, <1>2
  <2> HIDE DEF Goods
  <2> QED BY <1>0, <2>1, Upwards
<1>4. Good(N)
  BY <1>0, <1>3
<1> QED BY <1>4 DEF Good, N

\* A conversation of a segment counts messages it covers.
LEMMA SegmentsCount ==
    ASSUME NEW g \in Nat, NEW M \in SUBSET Msg, NEW S \in SUBSET M, NEW P, Segments(g, S, P),
           NEW i \in 1..Len(P), NEW id
    PROVE  Counted(Spanning(id, P[i]), M)
<1>1. S \in SUBSET Msg
  OBVIOUS
<1>2. /\ Spanning(id, P[i]) = [id |-> id, start |-> SentAt[P[i][1]],
                               end |-> SentAt[P[i][Len(P[i])]], count |-> Len(P[i])]
      /\ \A a \in 1..Len(P[i]) : Covers(Spanning(id, P[i]), SentAt[P[i][a]])
  BY <1>1, SpanningIs, Zenon
<1>3. Cardinality(Members(P[i])) = Len(P[i])
  BY <1>1, SegmentSize
<1>4. \A a \in 1..Len(P[i]) : P[i][a] \in M
  BY DEF Segments, Lists
<1> DEFINE z == Spanning(id, P[i])
           T == {m \in M : Covers(z, SentAt[m])}
<1>5. Members(P[i]) \subseteq T
  BY <1>2, <1>4 DEF Members
<1>6. Cardinality(Members(P[i])) <= Cardinality(T)
  <2>1. T \in SUBSET Msg /\ Members(P[i]) \in SUBSET T
    BY <1>5
  <2> HIDE DEF T
  <2> QED BY <2>1, AtMost
<1> QED BY <1>2, <1>3, <1>6 DEF Counted

LEMMA CountedOfMore ==
    ASSUME NEW M \in SUBSET Msg, NEW S \in SUBSET M, NEW r, r.count \in Nat, Counted(r, S)
    PROVE  Counted(r, M)
<1> DEFINE T == {m \in M : Covers(r, SentAt[m])}
           U == {m \in S : Covers(r, SentAt[m])}
<1>1. T \in SUBSET Msg /\ U \in SUBSET T /\ U \in SUBSET Msg
  OBVIOUS
<1>2. r.count <= Cardinality(U)
  BY DEF Counted
<1> HIDE DEF T, U
<1>3. Cardinality(U) <= Cardinality(T) /\ Cardinality(U) \in Nat /\ Cardinality(T) \in Nat
  BY <1>1, AtMost, MsgFinite
<1>4. r.count <= Cardinality(T)
  BY <1>2, <1>3
<1> QED BY <1>4 DEF Counted, T

\* A row that counts a message covers one.
LEMMA CountedCovers ==
    ASSUME NEW M \in SUBSET Msg, NEW r \in Row, Counted(r, M)
    PROVE  /\ \E m \in M : Covers(r, SentAt[m])
           /\ r.start <= r.end
<1>1. r.count \in Nat /\ r.count >= 1 /\ r.start \in Nat /\ r.end \in Nat
  BY MsgFacts DEF Row, Instants
<1>2. {m \in M : Covers(r, SentAt[m])} # {}
  <2> SUFFICES ASSUME {m \in M : Covers(r, SentAt[m])} = {} PROVE FALSE
    OBVIOUS
  <2>1. r.count <= 0
    BY FS_EmptySet DEF Counted
  <2> QED BY <1>1, <2>1
<1>3. PICK m \in M : Covers(r, SentAt[m])
  BY <1>2
<1>4. SentAt[m] \in Nat
  BY MsgFacts
<1> QED BY <1>1, <1>3, <1>4 DEF Covers

SpanOf(p) == <<SentAt[p[1]], SentAt[p[Len(p)]], Len(p)>>

\* Rows of the pieces after the n-th.
Remaining(w, P, n) == {r \in Stored(w) : \E k \in n + 1..Len(P) : Extent(r) = SpanOf(P[k])}

\* The rows of a window are those of its pieces.
Exact(w, P) == {Extent(r) : r \in Stored(w)} = Spans(P)

\* Then each piece takes its own.
LEMMA ExactClaim ==
    ASSUME Typed, NEW g \in Nat, NEW S \in SUBSET Msg, NEW P, Segments(g, S, P), Apart(P),
           NEW w \in Nat, Exact(w, P),
           NEW n \in Nat, n + 1 \in 1..Len(P), NEW x,
           x = [writes |-> <<>>, created |-> {}, free |-> Remaining(w, P, n)]
    PROVE  Reconcile(x, P[n + 1])
              = [writes |-> <<>>, created |-> {}, free |-> Remaining(w, P, n + 1)]
<1> DEFINE piece == P[n + 1]
<1>0. /\ Len(P) \in Nat /\ piece \in Seq(Msg) /\ Len(piece) >= 1
      /\ \A k \in 1..Len(P) : 1 \in 1..Len(P[k])
  BY SegmentFacts, Zenon
<1>1. PICK r \in Stored(w) : Extent(r) = SpanOf(piece)
  <2>1. SpanOf(piece) \in Spans(P)
    BY DEF Spans, SpanOf
  <2> QED BY <2>1 DEF Exact
<1>2. r \in Row /\ \A s \in Stored(w) : s \in Row /\ (s.start = r.start => s = r)
  BY DEF Stored, Typed
<1>3. r.start = SentAt[piece[1]] /\ r.end = SentAt[piece[Len(piece)]] /\ r.count = Len(piece)
  BY <1>1 DEF Extent, SpanOf
<1>4. Spanning(r.id, piece) = r /\ \A a \in 1..Len(piece) : Covers(r, SentAt[piece[a]])
  <2>1. /\ Spanning(r.id, piece) = [id |-> r.id, start |-> SentAt[piece[1]],
                                    end |-> SentAt[piece[Len(piece)]], count |-> Len(piece)]
        /\ \A a \in 1..Len(piece) : Covers(Spanning(r.id, piece), SentAt[piece[a]])
    BY SpanningIs, Zenon
  <2>2. r = [id |-> r.id, start |-> r.start, end |-> r.end, count |-> r.count]
    BY <1>2 DEF Row
  <2>3. Spanning(r.id, piece) = r
    BY <1>3, <2>1, <2>2
  <2> QED BY <2>1, <2>3
<1>5. ASSUME NEW s \in Stored(w), NEW k \in n + 1..Len(P), Extent(s) = SpanOf(P[k])
      PROVE  /\ k = n + 1 => s = r
             /\ k # n + 1 => \A a \in 1..Len(piece) : SentAt[piece[a]] < s.start
  <2>1. s.start = SentAt[P[k][1]]
    BY <1>5 DEF Extent, SpanOf
  <2>2. k \in 1..Len(P) /\ (k # n + 1 => n + 1 < k)
    BY <1>0
  <2>3. k # n + 1 => \A a \in 1..Len(piece) : SentAt[piece[a]] < s.start
    BY <1>0, <2>1, <2>2 DEF Apart
  <2> QED BY <1>2, <1>3, <2>1, <2>3
<1>6. r \in Remaining(w, P, n)
  <2>1. n + 1 \in n + 1..Len(P)
    BY <1>0
  <2> QED BY <1>1, <2>1 DEF Remaining
<1>7. Remaining(w, P, n) \in SUBSET Row
  BY <1>2 DEF Remaining
<1>8. ASSUME NEW a \in 1..Len(piece), NEW s \in Remaining(w, P, n), Covers(s, SentAt[piece[a]])
      PROVE  s = r
  <2>1. PICK k \in n + 1..Len(P) : Extent(s) = SpanOf(P[k])
    BY DEF Remaining
  <2>2. s \in Stored(w) /\ s.start <= SentAt[piece[a]]
    BY <1>8 DEF Remaining, Covers
  <2>3. s.start \in Nat /\ SentAt[piece[a]] \in Nat
    <3>1. piece[a] \in Msg
      BY <1>0
    <3> QED BY <1>2, <2>2, <3>1, MsgFacts DEF Row, Instants
  <2>4. ~(SentAt[piece[a]] < s.start)
    BY <2>2, <2>3
  <2> QED BY <1>5, <2>1, <2>2, <2>4
<1>9. Claimant(Remaining(w, P, n), piece) = {r}
  BY <1>0, <1>4, <1>6, <1>7, <1>8, ClaimantAlone
<1>10. Reconcile(x, piece)
          = [writes |-> <<>>, created |-> {}, free |-> Remaining(w, P, n) \ {r}]
  <2>1. x.free = Remaining(w, P, n)
    OBVIOUS
  <2>2. Claimant(x.free, piece) = {r} /\ {r} # {} /\ (CHOOSE s \in {r} : TRUE) = r
    BY <1>9, <2>1
  <2> HIDE DEF piece
  <2>3. Reconcile(x, piece) = [x EXCEPT !.free = @ \ {r}, !.writes = @]
    BY <1>4, <2>2 DEF Reconcile
  <2> QED BY <2>3
<1>11. Remaining(w, P, n) \ {r} = Remaining(w, P, n + 1)
  <2>1. ASSUME NEW s \in Remaining(w, P, n), s # r PROVE s \in Remaining(w, P, n + 1)
    <3>1. s \in Stored(w)
      BY DEF Remaining
    <3>2. PICK k \in n + 1..Len(P) : Extent(s) = SpanOf(P[k])
      BY DEF Remaining
    <3>3. k # n + 1
      BY <1>5, <2>1, <3>1, <3>2
    <3>4. k \in (n + 1) + 1..Len(P)
      BY <1>0, <3>3
    <3> QED BY <3>1, <3>2, <3>4 DEF Remaining
  <2>2. ASSUME NEW s \in Remaining(w, P, n + 1) PROVE s \in Remaining(w, P, n) /\ s # r
    <3>1. s \in Stored(w)
      BY DEF Remaining
    <3>2. PICK k \in (n + 1) + 1..Len(P) : Extent(s) = SpanOf(P[k])
      BY DEF Remaining
    <3>3. k \in n + 1..Len(P) /\ k # n + 1
      BY <1>0
    <3>4. 1 \in 1..Len(piece) /\ SentAt[piece[1]] < s.start
      BY <1>0, <1>5, <3>1, <3>2, <3>3
    <3>5. s.start \in Nat
      BY <1>2, <3>1, MsgFacts DEF Row, Instants
    <3>6. s # r
      BY <1>3, <3>4, <3>5
    <3> QED BY <3>1, <3>2, <3>3, <3>6 DEF Remaining
  <2> QED BY <2>1, <2>2
<1> QED BY <1>10, <1>11

LEMMA ExactPlan ==
    ASSUME Typed, NEW g \in Nat, NEW S \in SUBSET Msg, NEW P, Segments(g, S, P), Apart(P),
           NEW w \in Nat, Exact(w, P),
           NEW f, \A n \in 0..Len(P) : f[n] = PlanTo(w, P, n, f[n - 1])
    PROVE  f[Len(P)] = [writes |-> <<>>, created |-> {}, free |-> {}]
<1> DEFINE N == Len(P)
           Good(n) == f[n] = [writes |-> <<>>, created |-> {}, free |-> Remaining(w, P, n)]
           Goods == {n \in Nat : Good(n)}
<1>0. N \in Nat
  BY SegmentFacts
<1> HIDE DEF N
<1>1. Good(0)
  <2>1. f[0] = [writes |-> <<>>, created |-> {}, free |-> Stored(w)]
    <3>1. 0 \in 0..Len(P)
      BY <1>0 DEF N
    <3>2. f[0] = PlanTo(w, P, 0, f[0 - 1])
      BY <3>1
    <3> QED BY <3>2 DEF PlanTo
  <2>2. \A r \in Stored(w) : \E k \in 1..Len(P) : Extent(r) = SpanOf(P[k])
    BY DEF Exact, Spans, SpanOf
  <2>3. Remaining(w, P, 0) = Stored(w)
    BY <2>2 DEF Remaining
  <2> QED BY <2>1, <2>3
<1>2. ASSUME NEW n \in Nat, n < N, Good(n) PROVE Good(n + 1)
  <2>1. n + 1 \in 0..N /\ n + 1 # 0 /\ (n + 1) - 1 = n /\ n + 1 \in 1..N
    BY <1>0, <1>2
  <2>2. f[n + 1] = Reconcile(f[n], P[n + 1])
    BY <2>1 DEF PlanTo, N
  <2>3. PICK x : x = f[n]
    OBVIOUS
  <2>4. x = [writes |-> <<>>, created |-> {}, free |-> Remaining(w, P, n)]
    BY <1>2, <2>3
  <2>5. Reconcile(x, P[n + 1])
           = [writes |-> <<>>, created |-> {}, free |-> Remaining(w, P, n + 1)]
    <3>1. n + 1 \in 1..Len(P)
      BY <2>1 DEF N
    <3> QED BY <2>4, <3>1, ExactClaim
  <2> QED BY <2>2, <2>3, <2>5
<1> HIDE DEF Good
<1>3. \A n \in 0..N : n \in Goods
  <2>1. 0 \in Goods /\ \A n \in Goods : n \in Nat /\ n < N => n + 1 \in Goods
    BY <1>1, <1>2
  <2> HIDE DEF Goods
  <2> QED BY <1>0, <2>1, Upwards
<1>4. Good(N)
  BY <1>0, <1>3
<1>5. Remaining(w, P, N) = {}
  <2>1. N + 1..Len(P) = {}
    BY <1>0 DEF N
  <2> QED BY <2>1 DEF Remaining
<1> QED BY <1>4, <1>5 DEF Good, N

\* What list_since returns of M.
ReadOf(M, w) ==
    {m \in WithinOf(M, w) : Cardinality({n \in WithinOf(M, w) : n < m}) < ReadLimit}

\* Pass p writes, and deletes, what such a plan does.
Planned(p, w, P, n, free, item) ==
    /\ Made(w, P, n, [writes |-> p.writes, created |-> p.created, free |-> free], item)
    /\ p.deletes = {r.id : r \in free}

\* A pass is what the rows as they are, the messages M and the gap g make of window w.
Fresh(p, M, g, w) ==
    LET P == Divide(g, ReadOf(M, w)) IN
    /\ \E item, free : Planned(p, w, P, Len(P), free, item)
    /\ p.cut <=> ReadOf(M, w) # WithinOf(M, w)
    /\ Exact(w, P) => p.writes = <<>> /\ p.deletes = {}

LEMMA PlanIsFresh ==
    ASSUME Undivided, Typed, NEW w \in Nat
    PROVE  /\ Fresh(Plan(w), messages, gap, w)
           /\ Plan(w) \in Passes /\ Plan(w).open /\ ~Plan(w).stale /\ (Plan(w).whole <=> w = None)
           /\ \A i \in 1..Len(Plan(w).writes) :
                 /\ Counted(Plan(w).writes[i], messages)
                 /\ \A j \in 1..Len(Plan(w).writes) :
                       Plan(w).writes[i].id = Plan(w).writes[j].id => i = j
<1>1. PICK S : S = ReadOf(messages, w)
  OBVIOUS
<1>2. S \in SUBSET messages /\ messages \in SUBSET Msg /\ S \in SUBSET Msg /\ gap \in Nat
  BY <1>1, MsgFacts DEF Typed, ReadOf, WithinOf
<1>3. Read(w) = S /\ Within(w) = WithinOf(messages, w)
  BY <1>1 DEF Read, ReadOf, Within, WithinOf
<1>4. PICK P : P = Divide(gap, S)
  OBVIOUS
<1>5. PICK g \in Nat : g = gap
  BY <1>2
<1>6. Segments(g, S, P)
  BY <1>2, <1>4, <1>5, DivideSegments
<1>7. Len(P) \in Nat /\ Apart(P)
  BY <1>2, <1>6, SegmentFacts, SegmentsApart
<1>8. PICK f : /\ \A n \in 0..Len(P) : f[n] = PlanTo(w, P, n, f[n - 1])
               /\ Plan(w) = PassOf(w, f[Len(P)])
  BY <1>3, <1>4, <1>7, PlanUnfolds
<1>9. PICK item : Made(w, P, Len(P), f[Len(P)], item)
  BY <1>2, <1>6, <1>8, PlanMade
<1>10. PICK x : x = f[Len(P)]
  OBVIOUS
<1>11. x \in [writes : Seq(Row), created : SUBSET Nat, free : SUBSET Stored(w)]
  BY <1>9, <1>10 DEF Made
<1>12. x = [writes |-> x.writes, created |-> x.created, free |-> x.free]
  BY <1>11
<1>13. Plan(w) = [open |-> TRUE, writes |-> x.writes, created |-> x.created,
                  deletes |-> {r.id : r \in x.free}, whole |-> w = None,
                  cut |-> ReadOf(messages, w) # WithinOf(messages, w), stale |-> FALSE]
  BY <1>1, <1>3, <1>8, <1>10 DEF PassOf
<1>14. PICK p : p = Plan(w)
  OBVIOUS
<1>15. /\ p.writes = x.writes /\ p.created = x.created /\ p.deletes = {r.id : r \in x.free}
       /\ p.open /\ ~p.stale /\ (p.whole <=> w = None)
       /\ (p.cut <=> ReadOf(messages, w) # WithinOf(messages, w))
  <2>1. /\ p.writes = x.writes /\ p.created = x.created /\ p.deletes = {r.id : r \in x.free}
        /\ p.open = TRUE /\ p.stale = FALSE /\ p.whole = (w = None)
        /\ p.cut = (ReadOf(messages, w) # WithinOf(messages, w))
    BY <1>13, <1>14
  <2> QED BY <2>1
<1>16. p \in Passes
  <2>1. \A r \in x.free : r.id \in Nat
    BY <1>11 DEF Stored, Typed, Row
  <2>2. {r.id : r \in x.free} \in SUBSET Nat
    BY <2>1
  <2> QED BY <1>11, <1>13, <1>14, <2>2 DEF Passes
<1>17. \A i \in 1..Len(x.writes) :
          /\ Counted(x.writes[i], messages)
          /\ \A j \in 1..Len(x.writes) : x.writes[i].id = x.writes[j].id => i = j
  <2> TAKE i \in 1..Len(x.writes)
  <2>1. Made(w, P, Len(P), x, item)
    BY <1>9, <1>10
  <2>2. PICK k \in 1..Len(P) : x.writes[i] = item[k]
    BY <2>1 DEF Made
  <2>3. item[k] = Spanning(item[k].id, P[k])
    BY <2>1 DEF Made
  <2>4. Counted(Spanning(item[k].id, P[k]), messages)
    BY <1>2, <1>6, SegmentsCount
  <2>5. \A j \in 1..Len(x.writes) : x.writes[i].id = x.writes[j].id => i = j
    BY <2>1 DEF Made
  <2> QED BY <2>2, <2>3, <2>4, <2>5
<1>18. Fresh(p, messages, gap, w)
  <2>1. Made(w, P, Len(P), [writes |-> p.writes, created |-> p.created, free |-> x.free], item)
    BY <1>9, <1>10, <1>12, <1>15
  <2>2. Exact(w, P) => p.writes = <<>> /\ p.deletes = {}
    <3> HAVE Exact(w, P)
    <3>1. x = [writes |-> <<>>, created |-> {}, free |-> {}]
      BY <1>2, <1>6, <1>7, <1>8, <1>10, ExactPlan
    <3> QED BY <1>15, <3>1
  <2>3. Planned(p, w, P, Len(P), x.free, item)
    BY <1>15, <2>1 DEF Planned
  <2> QED BY <1>1, <1>4, <1>15, <2>2, <2>3 DEF Fresh
<1> QED BY <1>14, <1>15, <1>16, <1>17, <1>18

-----------------------------------------------------------------------------
(***************************************************************************)
(* What a pass leaves.                                                     *)
(***************************************************************************)
\* Rows before the window, and one for each piece.
Leaving(p, w, n, item) ==
    \A r : r \in Written(p) <=> (r \in rows /\ r.start < w) \/ \E k \in 1..n : r = item[k]

LEMMA WrittenIs ==
    ASSUME Typed, NEW w \in Nat, NEW P, NEW n \in Nat, NEW p, NEW free, NEW item,
           Planned(p, w, P, n, free, item)
    PROVE  Leaving(p, w, n, item)
<1>1. /\ p.writes \in Seq(Row) /\ Len(p.writes) \in Nat /\ free \subseteq Stored(w)
      /\ \A k, l \in 1..n : item[k].id = item[l].id => k = l
      /\ \A k \in 1..n : \/ item[k].id \in p.created
                         \/ \E r \in Stored(w) \ free : r.id = item[k].id
      /\ \A k \in 1..n : \/ \E i \in 1..Len(p.writes) : p.writes[i] = item[k]
                         \/ item[k] \in Stored(w) \ free
      /\ \A i \in 1..Len(p.writes) : \E k \in 1..n : p.writes[i] = item[k]
      /\ \A r \in Stored(w) \ free : \E k \in 1..n : item[k].id = r.id
      /\ \A r \in rows : r.id \notin p.created
  <2>1. PICK x : x = [writes |-> p.writes, created |-> p.created, free |-> free]
    OBVIOUS
  <2>2. x.writes = p.writes /\ x.created = p.created /\ x.free = free
    BY <2>1
  <2>3. Made(w, P, n, x, item)
    BY <2>1 DEF Planned
  <2>4. x \in [writes : Seq(Row), created : SUBSET Nat, free : SUBSET Stored(w)]
    BY <2>3 DEF Made
  <2>5. p.writes \in Seq(Row) /\ Len(p.writes) \in Nat /\ free \subseteq Stored(w)
    BY <2>2, <2>4
  <2>6. \A k \in 1..n : \/ item[k].id \in p.created
                        \/ \E r \in Stored(w) \ free : r.id = item[k].id
    BY <2>2, <2>3 DEF Made
  <2>7. /\ \A k, l \in 1..n : item[k].id = item[l].id => k = l
        /\ \A k \in 1..n : \/ \E i \in 1..Len(p.writes) : p.writes[i] = item[k]
                           \/ item[k] \in Stored(w) \ free
        /\ \A i \in 1..Len(p.writes) : \E k \in 1..n : p.writes[i] = item[k]
    BY <2>2, <2>3 DEF Made
  <2>8. /\ \A r \in Stored(w) \ free : \E k \in 1..n : item[k].id = r.id
        /\ \A r \in rows : r.id \notin p.created
    BY <2>2, <2>3 DEF Made
  <2> QED BY <2>5, <2>6, <2>7, <2>8
<1>2. /\ \A r, s \in rows : r.id = s.id => r = s
      /\ \A r \in rows : r.start \in Nat
      /\ Stored(w) \subseteq rows /\ \A r \in rows : r.start < w <=> r \notin Stored(w)
  BY MsgFacts DEF Typed, Row, Instants, Stored
<1> DEFINE T == Table(p, Len(p.writes))
<1>3. \A r : r \in T <=> \/ r \in rows /\ \A i \in 1..Len(p.writes) : p.writes[i].id # r.id
                         \/ \E i \in 1..Len(p.writes) : r = p.writes[i]
  BY DEF Table
<1>4. Written(p) = {r \in T : r.id \notin p.deletes}
  BY DEF Written
<1>5. \A r : r.id \in p.deletes <=> \E s \in free : s.id = r.id
  BY DEF Planned
<1> HIDE DEF T
<1>6. ASSUME NEW r \in T, r.id \notin p.deletes, ~(r \in rows /\ r.start < w)
      PROVE  \E k \in 1..n : r = item[k]
  <2>1. CASE \E i \in 1..Len(p.writes) : r = p.writes[i]
    BY <1>1, <2>1
  <2>2. CASE r \in rows /\ \A i \in 1..Len(p.writes) : p.writes[i].id # r.id
    <3>1. r \in Stored(w) \ free
      BY <1>2, <1>5, <1>6, <2>2
    <3>2. PICK k \in 1..n : item[k].id = r.id
      BY <1>1, <3>1
    <3>3. item[k] \in Stored(w) \ free
      BY <1>1, <2>2, <3>2
    <3> QED BY <1>2, <2>2, <3>2, <3>3
  <2> QED BY <1>3, <2>1, <2>2
<1>7. ASSUME NEW r \in rows, r.start < w PROVE r \in T /\ r.id \notin p.deletes
  <2>1. ASSUME NEW i \in 1..Len(p.writes), p.writes[i].id = r.id PROVE FALSE
    <3>1. PICK k \in 1..n : p.writes[i] = item[k]
      BY <1>1
    <3>2. PICK s \in Stored(w) \ free : s.id = item[k].id
      BY <1>1, <2>1, <3>1
    <3> QED BY <1>2, <1>7, <2>1, <3>1, <3>2
  <2>2. r.id \notin p.deletes
    BY <1>1, <1>2, <1>5, <1>7
  <2> QED BY <1>3, <2>1, <2>2
<1>8. ASSUME NEW k \in 1..n PROVE item[k] \in T /\ item[k].id \notin p.deletes
  <2>1. item[k].id \notin p.deletes
    <3> SUFFICES ASSUME NEW s \in free, s.id = item[k].id PROVE FALSE
      BY <1>5
    <3>1. s \in rows
      BY <1>1, <1>2
    <3>2. PICK r \in Stored(w) \ free : r.id = item[k].id
      BY <1>1, <3>1
    <3> QED BY <1>2, <3>1, <3>2
  <2>2. CASE \E i \in 1..Len(p.writes) : p.writes[i] = item[k]
    BY <1>3, <2>1, <2>2
  <2>3. CASE item[k] \in Stored(w) \ free /\ ~\E i \in 1..Len(p.writes) : p.writes[i] = item[k]
    <3>1. \A i \in 1..Len(p.writes) : p.writes[i].id # item[k].id
      <4> TAKE i \in 1..Len(p.writes)
      <4>1. PICK l \in 1..n : p.writes[i] = item[l]
        BY <1>1
      <4>2. l # k
        BY <2>3, <4>1
      <4> QED BY <1>1, <4>1, <4>2
    <3> QED BY <1>2, <1>3, <2>1, <2>3, <3>1
  <2> QED BY <1>1, <2>2, <2>3
<1> QED BY <1>4, <1>6, <1>7, <1>8 DEF Leaving

\* Whatever a pass writes, its rows are well formed.
LEMMA WrittenTyped ==
    ASSUME Typed, NEW p \in Processes, GoesThrough(pass[p])
    PROVE  /\ Written(pass[p]) \in SUBSET Row /\ Bounded(Written(pass[p]))
           /\ \A r, s \in Written(pass[p]) : (r.id = s.id \/ r.start = s.start) => r = s
           /\ \A r \in Written(pass[p]) : Counted(r, messages)
<1> DEFINE x == pass[p].writes
           N == Len(x)
<1>1. x \in Seq(Row) /\ N \in Nat /\ DOMAIN x = 1..N
  BY DEF Typed, Passes
<1>2. /\ \A i \in 1..N : Counted(x[i], messages)
      /\ \A i, j \in 1..N : x[i].id = x[j].id => i = j
  BY DEF Typed
<1>3. /\ rows \in SUBSET Row /\ \A r \in rows : Counted(r, messages)
      /\ \A r, s \in rows : (r.id = s.id \/ r.start = s.start) => r = s
  BY DEF Typed
<1> HIDE DEF x, N
<1>4. \A k \in Nat : \A r : r \in Table(pass[p], k) <=>
         \/ r \in rows /\ \A i \in 1..k : x[i].id # r.id
         \/ \E i \in 1..k : r = x[i]
  BY DEF Table, x
<1>5. \A k \in 1..N : \A r \in Table(pass[p], k - 1) : r.start = x[k].start => r.id = x[k].id
  BY <1>1 DEF GoesThrough, x
<1>6. \A r \in Written(pass[p]) : \/ r \in rows /\ \A i \in 1..N : x[i].id # r.id
                                  \/ \E i \in 1..N : r = x[i]
  BY <1>1, <1>4 DEF Written, x, N
<1>7. ASSUME NEW r \in rows, NEW j \in 1..N, \A i \in 1..N : x[i].id # r.id
      PROVE  r.id # x[j].id /\ r.start # x[j].start
  <2>1. j - 1 \in Nat /\ \A i \in 1..j - 1 : i \in 1..N
    BY <1>1
  <2>2. r \in Table(pass[p], j - 1)
    BY <1>4, <1>7, <2>1
  <2> QED BY <1>5, <1>7, <2>2
<1>8. ASSUME NEW i \in 1..N, NEW j \in 1..N, x[i].start = x[j].start PROVE i = j
  <2>1. ASSUME NEW k \in 1..N, NEW l \in 1..N, k < l, x[k].start = x[l].start PROVE FALSE
    <3>1. l - 1 \in Nat /\ k \in 1..l - 1
      BY <1>1, <2>1
    <3>2. x[k] \in Table(pass[p], l - 1)
      BY <1>4, <3>1
    <3>3. x[k].id = x[l].id
      BY <1>5, <2>1, <3>2
    <3>4. k = l
      BY <1>2, <3>3
    <3> QED BY <2>1, <3>4
  <2>2. i < j \/ i = j \/ j < i
    BY <1>1
  <2> QED BY <1>8, <2>1, <2>2
<1>9. Written(pass[p]) \in SUBSET Row
  BY <1>1, <1>3, <1>6
<1>10. Bounded(Written(pass[p]))
  <2>1. PICK a \in Nat : \A r \in rows : r.id <= a
    BY DEF Typed, Bounded
  <2>2. PICK b \in Nat : \A i \in 1..N : x[i].id <= b
    BY <1>1, SeqBounded DEF N
  <2>3. a + b \in Nat /\ \A r \in Written(pass[p]) : r.id <= a + b
    <3>1. \A r \in Written(pass[p]) : r.id \in Nat /\ (r.id <= a \/ r.id <= b)
      BY <1>6, <1>9, <2>1, <2>2 DEF Row
    <3> QED BY <3>1
  <2> QED BY <2>3 DEF Bounded
<1>11. \A r, s \in Written(pass[p]) : (r.id = s.id \/ r.start = s.start) => r = s
  <2> TAKE r, s \in Written(pass[p])
  <2> HAVE r.id = s.id \/ r.start = s.start
  <2>1. CASE r \in rows /\ \A i \in 1..N : x[i].id # r.id
    <3>1. s \in rows
      BY <1>6, <1>7, <2>1
    <3> QED BY <1>3, <2>1, <3>1
  <2>2. CASE \E i \in 1..N : r = x[i]
    <3>1. PICK i \in 1..N : r = x[i]
      BY <2>2
    <3>2. CASE s \in rows /\ \A k \in 1..N : x[k].id # s.id
      BY <1>7, <3>1, <3>2
    <3>3. CASE \E j \in 1..N : s = x[j]
      BY <1>2, <1>8, <3>1, <3>3
    <3> QED BY <1>6, <3>2, <3>3
  <2> QED BY <1>6, <2>1, <2>2
<1>12. \A r \in Written(pass[p]) : Counted(r, messages)
  BY <1>2, <1>3, <1>6
<1> QED BY <1>9, <1>10, <1>11, <1>12

\* What a pass leaves, item by item.
Leaves(p, M, g, w, P, item) ==
    /\ Segments(g, ReadOf(M, w), P) /\ Apart(P) /\ Len(P) \in Nat
    /\ Written(p) = {r \in rows : r.start < w} \cup {item[k] : k \in 1..Len(P)}
    /\ \A k \in 1..Len(P) :
          /\ Extent(item[k]) = SpanOf(P[k])
          /\ item[k].start >= w /\ item[k] \in Row
          /\ \A r \in rows : r.id = item[k].id => Shares(r, item[k])
    /\ Exact(w, P) => Written(p) = rows

LEMMA FreshWrites ==
    ASSUME Undivided, Typed, NEW M \in SUBSET messages, NEW g \in Nat, NEW w \in Nat,
           NEW p, Fresh(p, M, g, w)
    PROVE  \E P, item : Leaves(p, M, g, w, P, item)
<1>1. PICK S : S = ReadOf(M, w)
  OBVIOUS
<1>2. S \in SUBSET Msg /\ \A m \in S : SentAt[m] >= w
  BY <1>1 DEF Typed, ReadOf, WithinOf
<1>3. PICK P : P = Divide(g, S)
  OBVIOUS
<1>4. Segments(g, S, P)
  BY <1>2, <1>3, DivideSegments
<1>5. Len(P) \in Nat /\ Apart(P)
  BY <1>2, <1>4, SegmentFacts, SegmentsApart
<1>6. PICK item, free : Planned(p, w, P, Len(P), free, item)
  BY <1>1, <1>3 DEF Fresh
<1>7. Exact(w, P) => p.writes = <<>> /\ p.deletes = {}
  BY <1>1, <1>3 DEF Fresh
<1>8. PICK x : x = [writes |-> p.writes, created |-> p.created, free |-> free]
  OBVIOUS
<1>9. Made(w, P, Len(P), x, item)
  BY <1>6, <1>8 DEF Planned
<1>10. Written(p) = {r \in rows : r.start < w} \cup {item[k] : k \in 1..Len(P)}
  <2>1. \A r : r \in Written(p) <=> (r \in rows /\ r.start < w) \/ \E k \in 1..Len(P) : r = item[k]
    <3>1. Leaving(p, w, Len(P), item)
      BY <1>5, <1>6, WrittenIs
    <3> QED BY <3>1 DEF Leaving
  <2> QED BY <2>1
<1>11. ASSUME NEW k \in 1..Len(P)
       PROVE  /\ Extent(item[k]) = SpanOf(P[k])
              /\ item[k].start >= w /\ item[k] \in Row
              /\ \A r \in rows : r.id = item[k].id => Shares(r, item[k])
  <2>1. item[k] = Spanning(item[k].id, P[k]) /\ item[k] \in Row
    BY <1>9 DEF Made
  <2>2. Spanning(item[k].id, P[k]) = [id |-> item[k].id, start |-> SentAt[P[k][1]],
                                      end |-> SentAt[P[k][Len(P[k])]], count |-> Len(P[k])]
    BY <1>2, <1>4, SpanningIs, Zenon
  <2>3. PICK z : z = item[k]
    OBVIOUS
  <2>4. z.start = SentAt[P[k][1]] /\ z.end = SentAt[P[k][Len(P[k])]] /\ z.count = Len(P[k])
    BY <2>1, <2>2, <2>3
  <2>5. Extent(z) = SpanOf(P[k])
    BY <2>4 DEF Extent, SpanOf
  <2>6. P[k][1] \in S
    BY <1>2, <1>4, SegmentFacts, Zenon
  <2>7. \A r \in rows : r.id = item[k].id => Shares(r, item[k])
    <3>1. \A r, s \in rows : r.id = s.id => r = s
      BY DEF Typed
    <3>2. \/ item[k].id \in x.created
          \/ \E r \in Stored(w) \ x.free : r.id = item[k].id /\ Shares(r, item[k])
      BY <1>9 DEF Made
    <3>3. \A r \in rows : r.id \notin x.created
      BY <1>9 DEF Made
    <3>4. Stored(w) \subseteq rows
      BY DEF Stored
    <3> QED BY <3>1, <3>2, <3>3, <3>4
  <2> QED BY <1>2, <2>1, <2>3, <2>4, <2>5, <2>6, <2>7
<1>12. Exact(w, P) => Written(p) = rows
  <2> SUFFICES ASSUME Exact(w, P) PROVE Written(p) = rows
    OBVIOUS
  <2>1. p.writes = <<>> /\ p.deletes = {} /\ Len(p.writes) = 0
    BY <1>7
  <2>2. Table(p, Len(p.writes)) = rows
    BY <2>1 DEF Table
  <2> QED BY <2>1, <2>2 DEF Written
<1> QED BY <1>1, <1>4, <1>5, <1>10, <1>11, <1>12 DEF Leaves

Shape(R) == {Extent(r) : r \in R}

\* A pass that read all of its window leaves what a rebuild of the messages it read
\* would, if only messages of the window were missing.
LEMMA FreshAgrees ==
    ASSUME Undivided, Typed, NEW M \in SUBSET messages, NEW g \in Nat, NEW w \in Nat,
           NEW p, Fresh(p, M, g, w), ~p.cut,
           w = 0 \/ \E s \in rows : s.start = w,
           w = 0 \/ \E Old \in SUBSET M : /\ Shape(rows) = Extents(g, Old)
                                          /\ \A m \in M \ Old : SentAt[m] >= w
    PROVE  Shape(Written(p)) = Extents(g, M)
<1>1. PICK P, item : Leaves(p, M, g, w, P, item)
  BY FreshWrites
<1>2. ReadOf(M, w) = WithinOf(M, w)
  BY DEF Fresh
<1>3. M \in SUBSET Msg /\ WithinOf(M, w) \in SUBSET Msg
  BY DEF Typed, WithinOf
<1>4. Spans(P) = {SpanOf(P[k]) : k \in 1..Len(P)}
  BY DEF Spans, SpanOf
<1>5. \A r : Extent(r)[1] = r.start
  BY DEF Extent
<1>6. Shape(Written(p)) = {x \in Shape(rows) : x[1] < w} \cup Spans(P)
  <2>1. \A r \in rows : r.start < w => Extent(r) \in {x \in Shape(rows) : x[1] < w}
    BY <1>5 DEF Shape
  <2>2. \A x \in Shape(rows) : x[1] < w => \E r \in rows : x = Extent(r) /\ r.start < w
    BY <1>5 DEF Shape
  <2> QED BY <1>1, <1>4, <2>1, <2>2 DEF Shape, Leaves
<1>7. CASE w = 0
  <2>1. \A r \in rows : r.start \in Nat
    BY MsgFacts DEF Typed, Row, Instants
  <2>2. {x \in Shape(rows) : x[1] < w} = {}
    <3>1. \A x \in Shape(rows) : x[1] \in Nat
      BY <1>5, <2>1 DEF Shape
    <3> QED BY <1>7, <3>1
  <2>3. WithinOf(M, w) = M
    <3>1. \A m \in M : SentAt[m] \in Nat
      BY <1>3, MsgFacts
    <3> QED BY <1>7, <3>1 DEF WithinOf
  <2>4. Spans(P) = Extents(g, M)
    <3>1. Segments(g, M, P)
      BY <1>1, <1>2, <2>3 DEF Leaves
    <3> QED BY <1>3, <3>1, SpansAreExtents
  <2> QED BY <1>6, <2>2, <2>4
<1>8. CASE w # 0
  <2>1. PICK Old \in SUBSET M : /\ Shape(rows) = Extents(g, Old)
                               /\ \A m \in M \ Old : SentAt[m] >= w
    BY <1>8
  <2>2. PICK s \in rows : s.start = w
    BY <1>8
  <2>3. \E x \in Extents(g, Old) : x[1] = w
    BY <1>5, <2>1, <2>2 DEF Shape
  <2>4. Segments(g, WithinOf(M, w), P)
    BY <1>1, <1>2 DEF Leaves
  <2>5. Extents(g, M) = {x \in Extents(g, Old) : x[1] < w} \cup Spans(P)
    BY <1>3, <2>1, <2>3, <2>4, WindowExtents
  <2> QED BY <1>6, <2>1, <2>5
<1> QED BY <1>7, <1>8

\* Where the rows are right, such a pass leaves them.
LEMMA FreshKeeps ==
    ASSUME Undivided, Typed, NEW M \in SUBSET messages, NEW g \in Nat, NEW w \in Nat,
           NEW p, Fresh(p, M, g, w), ~p.cut,
           w = 0 \/ \E s \in rows : s.start = w,
           Shape(rows) = Extents(g, M)
    PROVE  Written(p) = rows
<1>1. PICK P, item : Leaves(p, M, g, w, P, item)
  BY FreshWrites
<1>2. ReadOf(M, w) = WithinOf(M, w)
  BY DEF Fresh
<1>3. M \in SUBSET Msg
  BY DEF Typed
<1>4. \A r : Extent(r)[1] = r.start
  BY DEF Extent
<1>5. w = 0 \/ \E x \in Extents(g, M) : x[1] = w
  BY <1>4 DEF Shape
<1>6. /\ Extents(g, M) = {x \in Extents(g, M) : x[1] < w} \cup Spans(P)
      /\ \A x \in Spans(P) : x[1] >= w
  <2>1. Segments(g, WithinOf(M, w), P) /\ \A m \in M \ M : SentAt[m] >= w
    BY <1>1, <1>2 DEF Leaves
  <2> QED BY <1>3, <1>5, <2>1, WindowExtents
<1>7. \A r \in rows : r.start \in Nat
  BY MsgFacts DEF Typed, Row, Instants
<1>8. Exact(w, P)
  <2>1. \A r \in rows : r.start >= w => Extent(r) \in Spans(P)
    <3> SUFFICES ASSUME NEW r \in rows, r.start >= w PROVE Extent(r) \in Spans(P)
      OBVIOUS
    <3>1. Extent(r) \in Extents(g, M) /\ ~(Extent(r)[1] < w)
      BY <1>4, <1>7 DEF Shape
    <3> QED BY <1>6, <3>1
  <2>2. \A x \in Spans(P) : \E r \in rows : r.start >= w /\ x = Extent(r)
    BY <1>4, <1>6 DEF Shape
  <2> QED BY <2>1, <2>2 DEF Exact, Stored
<1> QED BY <1>1, <1>8 DEF Leaves

LEMMA FreshDisjoint ==
    ASSUME Undivided, Typed, NEW M \in SUBSET messages, NEW g \in Nat, NEW w \in Nat,
           NEW p, Fresh(p, M, g, w),
           w = 0 \/ (Disjoint /\ \E s \in rows : s.start = w)
    PROVE  \A r, s \in Written(p) : r # s => r.end < s.start \/ s.end < r.start
<1>1. PICK P, item : Leaves(p, M, g, w, P, item)
  BY FreshWrites
<1>2. \A r \in Row : r.start \in Nat /\ r.end \in Nat
  BY MsgFacts DEF Row, Instants
<1>3. ReadOf(M, w) \in SUBSET Msg
  BY DEF Typed, ReadOf, WithinOf
<1>4. ASSUME NEW k \in 1..Len(P), NEW l \in 1..Len(P), k < l PROVE item[k].end < item[l].start
  <2>1. /\ Extent(item[k]) = SpanOf(P[k]) /\ Extent(item[l]) = SpanOf(P[l])
    BY <1>1 DEF Leaves
  <2>2. item[k].end = SentAt[P[k][Len(P[k])]] /\ item[l].start = SentAt[P[l][1]]
    BY <2>1 DEF Extent, SpanOf
  <2>3. Len(P[k]) \in 1..Len(P[k]) /\ 1 \in 1..Len(P[l])
    <3>1. Segments(g, ReadOf(M, w), P)
      BY <1>1 DEF Leaves
    <3> QED BY <1>3, <3>1, SegmentFacts, Zenon
  <2>4. Apart(P)
    BY <1>1 DEF Leaves
  <2> QED BY <1>4, <2>2, <2>3, <2>4 DEF Apart
<1>5. ASSUME NEW r \in rows, r.start < w, NEW k \in 1..Len(P) PROVE r.end < item[k].start
  <2>1. item[k].start >= w /\ item[k] \in Row /\ r \in Row
    BY <1>1 DEF Leaves, Typed
  <2>2. PICK s \in rows : s.start = w
    BY <1>2, <1>5, <2>1
  <2>3. w # 0
    BY <1>2, <1>5, <2>1
  <2>4. r # s /\ s \in Row
    BY <1>2, <1>5, <2>1, <2>2 DEF Typed
  <2>5. r.end < s.start \/ s.end < r.start
    BY <2>2, <2>3, <2>4 DEF Disjoint
  <2>6. s.start <= s.end
    <3>1. messages \in SUBSET Msg /\ Counted(s, messages)
      BY <2>2 DEF Typed
    <3> QED BY <2>4, <3>1, CountedCovers
  <2> QED BY <1>2, <1>5, <2>1, <2>2, <2>4, <2>5, <2>6
<1>6. ASSUME NEW r \in rows, r.start < w, NEW s \in rows, s.start < w, r # s
      PROVE  r.end < s.start \/ s.end < r.start
  <2>1. r \in Row
    BY DEF Typed
  <2>2. w # 0
    BY <1>2, <1>6, <2>1
  <2> QED BY <1>6, <2>2 DEF Disjoint
<1>7. \A r \in Written(p) : (r \in rows /\ r.start < w) \/ \E k \in 1..Len(P) : r = item[k]
  BY <1>1 DEF Leaves
<1> SUFFICES ASSUME NEW r \in Written(p), NEW s \in Written(p), r # s
             PROVE  r.end < s.start \/ s.end < r.start
  OBVIOUS
<1>8. CASE r \in rows /\ r.start < w
  <2>1. CASE s \in rows /\ s.start < w
    BY <1>6, <1>8, <2>1
  <2>2. CASE \E k \in 1..Len(P) : s = item[k]
    BY <1>5, <1>8, <2>2
  <2> QED BY <1>7, <2>1, <2>2
<1>9. CASE \E k \in 1..Len(P) : r = item[k]
  <2>1. PICK k \in 1..Len(P) : r = item[k]
    BY <1>9
  <2>2. CASE s \in rows /\ s.start < w
    BY <1>5, <2>1, <2>2
  <2>3. CASE \E l \in 1..Len(P) : s = item[l]
    <3>1. PICK l \in 1..Len(P) : s = item[l]
      BY <2>3
    <3>2. k < l \/ l < k
      <4>1. Len(P) \in Nat /\ k # l
        BY <1>1, <2>1, <3>1 DEF Leaves
      <4> QED BY <4>1
    <3> QED BY <1>4, <2>1, <3>1, <3>2
  <2> QED BY <1>7, <2>2, <2>3
<1> QED BY <1>7, <1>8, <1>9

LEMMA FreshIdentity ==
    ASSUME Undivided, Typed, NEW M \in SUBSET messages, NEW g \in Nat, NEW w \in Nat,
           NEW p, Fresh(p, M, g, w), NEW r \in rows, NEW s \in Written(p), r.id = s.id
    PROVE  Shares(r, s)
<1>1. PICK P, item : Leaves(p, M, g, w, P, item)
  BY FreshWrites
<1>2. s \in rows \/ \E k \in 1..Len(P) : s = item[k]
  BY <1>1 DEF Leaves
<1>3. CASE s \in rows
  <2>1. r = s
    BY <1>3 DEF Typed
  <2>2. messages \in SUBSET Msg /\ Counted(r, messages) /\ r \in Row
    BY DEF Typed
  <2>3. \E m \in messages : Covers(r, SentAt[m])
    BY <2>2, CountedCovers
  <2> QED BY <2>1, <2>3 DEF Shares
<1>4. CASE \E k \in 1..Len(P) : s = item[k]
  BY <1>1, <1>4 DEF Leaves
<1> QED BY <1>2, <1>3, <1>4

\* Rows that are a rebuild of the messages S, and count only messages of M, have
\* seen no more than M.
LEMMA AllCounted ==
    ASSUME Undivided, NEW g \in Nat, NEW S \in SUBSET Msg, NEW M \in SUBSET S,
           NEW R \in SUBSET Row, Shape(R) = Extents(g, S), \A r \in R : Counted(r, M)
    PROVE  M = S
<1>1. PICK P : P = Divide(g, S)
  OBVIOUS
<1>2. Segments(g, S, P)
  BY <1>1, DivideSegments
<1>3. Apart(P)
  BY <1>2, SegmentsApart
<1>4. Shape(R) = Spans(P)
  BY <1>2, SpansAreExtents
<1> SUFFICES ASSUME NEW m \in S PROVE m \in M
  OBVIOUS
<1>5. PICK i \in 1..Len(P) : \E a \in 1..Len(P[i]) : P[i][a] = m
  BY <1>2 DEF Segments, Lists
<1>6. m \in Members(P[i])
  BY <1>5 DEF Members
<1>7. PICK r \in R : Extent(r) = SpanOf(P[i])
  <2>1. SpanOf(P[i]) \in Spans(P)
    BY DEF Spans, SpanOf
  <2> QED BY <1>4, <2>1 DEF Shape
<1>8. r.start = SentAt[P[i][1]] /\ r.end = SentAt[P[i][Len(P[i])]] /\ r.count = Len(P[i])
  BY <1>7 DEF Extent, SpanOf
<1>9. Cardinality(Members(P[i])) = Len(P[i])
  BY <1>2, SegmentSize
<1> DEFINE T == {k \in M : Covers(r, SentAt[k])}
<1>10. T \subseteq Members(P[i])
  <2> SUFFICES ASSUME NEW k \in M, Covers(r, SentAt[k]) PROVE k \in Members(P[i])
    OBVIOUS
  <2>1. PICK j \in 1..Len(P) : \E b \in 1..Len(P[j]) : P[j][b] = k
    BY <1>2 DEF Segments, Lists
  <2>2. PICK b \in 1..Len(P[j]) : P[j][b] = k
    BY <2>1
  <2>3. /\ SentAt[P[i][1]] <= SentAt[k] /\ SentAt[k] <= SentAt[P[i][Len(P[i])]]
    BY <1>8 DEF Covers
  <2>4. 1 \in 1..Len(P[i]) /\ Len(P[i]) \in 1..Len(P[i]) /\ P[i][1] \in S /\ P[i][Len(P[i])] \in S
    BY <1>2, SegmentFacts, Zenon
  <2>5. SentAt[P[i][1]] \in Nat /\ SentAt[k] \in Nat /\ SentAt[P[i][Len(P[i])]] \in Nat
    BY <2>4, MsgFacts
  <2>6. ~(i < j) /\ ~(j < i)
    <3>1. i < j => SentAt[P[i][Len(P[i])]] < SentAt[k]
      BY <1>3, <2>2, <2>4 DEF Apart
    <3>2. j < i => SentAt[k] < SentAt[P[i][1]]
      BY <1>3, <2>2, <2>4 DEF Apart
    <3> QED BY <2>3, <2>5, <3>1, <3>2
  <2>7. i = j
    BY <2>6
  <2> QED BY <2>2, <2>7 DEF Members
<1>11. Len(P[i]) <= Cardinality(T)
  BY <1>8 DEF Counted
<1>12. Members(P[i]) \in SUBSET Msg
  <2>1. \A a \in 1..Len(P[i]) : P[i][a] \in S
    BY <1>2 DEF Segments, Lists
  <2> QED BY <2>1 DEF Members
<1> SUFFICES ASSUME m \notin T PROVE FALSE
  OBVIOUS
<1>13. Cardinality(T) < Cardinality(Members(P[i])) /\ Cardinality(T) \in Nat
  <2>1. T \in SUBSET Members(P[i]) /\ T \in SUBSET Msg
    BY <1>10, <1>12
  <2> HIDE DEF T
  <2>2. Cardinality(T) \in Nat
    BY <2>1, MsgFinite
  <2> QED BY <1>6, <1>12, <2>1, <2>2, FewerWithout
<1> HIDE DEF T
<1>14. Len(P[i]) \in Nat
  BY <1>2, SegmentFacts, Zenon
<1> QED BY <1>9, <1>11, <1>13, <1>14

\* A window begins with a conversation, or with the chat, and not after the event.
LEMMA WindowIs ==
    ASSUME Typed, NEW t \in Nat
    PROVE  /\ Window(t) \in Nat /\ Window(t) <= t
           /\ Window(t) = 0 \/ \E s \in rows : s.start = Window(t)
<1> DEFINE T == {None} \cup {r.start : r \in {s \in rows : s.start <= t}}
<1>1. \A r \in rows : r.start \in Nat
  BY MsgFacts DEF Typed, Row, Instants
<1>2. T \subseteq Nat /\ T # {} /\ \A k \in T : k <= t
  BY <1>1 DEF None
<1>3. \A k \in T : k = 0 \/ \E s \in rows : s.start = k
  BY DEF None
<1>4. Window(t) = Max(T)
  BY DEF Window
<1> HIDE DEF T
<1>5. Max(T) \in T
  BY <1>2, MaxOfBounded
<1> QED BY <1>2, <1>3, <1>4, <1>5

-----------------------------------------------------------------------------
(***************************************************************************)
(* The inductive invariant.  Old is what had been stored before the batch  *)
(* whose event is on its way: unless something was lost, the rows are a    *)
(* rebuild of it, or of all there is where a rebuild came first.  A pass   *)
(* that nobody overtook holds what the rows as they are make of the        *)
(* messages it read, and those of a rebuild may be fewer than there are;   *)
(* then the rows count no message it did not read.                         *)
(***************************************************************************)
FreshOf(q, M, g, w) == \E p : p = pass[q] /\ Fresh(p, M, g, w)

AssistantReads ==
    pass["assistant"].open =>
        /\ event # None
        /\ ~pass["assistant"].stale =>
              \E M, g, w : /\ M = messages /\ g = gap /\ w = Window(event)
                           /\ FreshOf("assistant", M, g, w)
                           /\ pass["assistant"].whole => w = None

RebuildReads(Old) ==
    pass["rebuild"].open /\ ~pass["rebuild"].stale =>
        \E M, g : /\ M \subseteq messages /\ g \in Gaps /\ FreshOf("rebuild", M, g, 0)
                  /\ \A r \in rows : Counted(r, M)
                  /\ (M = messages /\ g = gap) \/ (M \subseteq Old /\ ~pass["rebuild"].whole)
                  /\ ~behind => g = gap

Announced(Old) ==
    /\ Old \subseteq messages
    /\ event = None <=> Old = messages
    /\ \A m \in messages \ Old : SentAt[m] >= event
    /\ ~behind => Shape(rows) = Extents(gap, Old) \/ Shape(rows) = Extents(gap, messages)
    /\ RebuildReads(Old)

IInv ==
    /\ Typed /\ AssistantReads
    /\ \E Old : Announced(Old)
    /\ ~raced => Disjoint

LEMMA FreshKept ==
    ASSUME rows' = rows, messages \subseteq messages', NEW M, NEW g, NEW w, NEW p, NEW y,
           y.writes = p.writes, y.created = p.created, y.deletes = p.deletes, y.cut = p.cut,
           Fresh(p, M, g, w)
    PROVE  Fresh(y, M, g, w)'
<1>1. PICK P : P = Divide(g, ReadOf(M, w))
  OBVIOUS
<1>2. PICK free, item : Planned(p, w, P, Len(P), free, item)
  BY <1>1 DEF Fresh
<1>3. /\ p.cut <=> ReadOf(M, w) # WithinOf(M, w)
      /\ Exact(w, P) => p.writes = <<>> /\ p.deletes = {}
  BY <1>1 DEF Fresh
<1>4. Stored(w)' = Stored(w)
  BY DEF Stored
<1>5. Exact(w, P)' = Exact(w, P)
  BY <1>4 DEF Exact
<1>6. PICK x : x = [writes |-> p.writes, created |-> p.created, free |-> free]
  OBVIOUS
<1>7. Made(w, P, Len(P), x, item)
  BY <1>2, <1>6 DEF Planned
<1>8. Made(w, P, Len(P), x, item)'
  <2>1. \A r, z : Shares(r, z) => Shares(r, z)'
    BY DEF Shares
  <2>2. \A k \in 1..Len(P) :
           \/ item[k].id \in x.created
           \/ \E r \in Stored(w) \ x.free : r.id = item[k].id /\ Shares(r, item[k])
    BY <1>7 DEF Made
  <2>3. \A k \in 1..Len(P) :
           \/ item[k].id \in x.created
           \/ \E r \in Stored(w)' \ x.free : r.id = item[k].id /\ Shares(r, item[k])'
    BY <1>4, <2>1, <2>2
  <2> QED BY <1>4, <1>7, <2>3 DEF Made
<1>9. Planned(y, w, P, Len(P), free, item)'
  BY <1>2, <1>6, <1>8 DEF Planned
<1> QED BY <1>1, <1>3, <1>5, <1>9 DEF Fresh

LEMMA TypedKept ==
    ASSUME Undivided, Typed, messages' \in SUBSET Msg, messages \subseteq messages',
           gap' \in Gaps, event' \in Nat,
           behind' \in BOOLEAN, raced' \in BOOLEAN, raced' => behind',
           \/ rows' = rows
           \/ \E p \in Processes : GoesThrough(pass[p]) /\ rows' = Written(pass[p]),
           pass' \in [Processes -> Passes],
           \A q \in Processes : \/ pass'[q].writes = <<>> \/ pass'[q].writes = pass[q].writes
                                \/ \E w \in Nat : pass'[q].writes = Plan(w).writes
    PROVE  Typed'
<1>1. /\ rows' \in SUBSET Row /\ Bounded(rows')
      /\ \A r, s \in rows' : (r.id = s.id \/ r.start = s.start) => r = s
      /\ \A r \in rows' : Counted(r, messages)
  <2>1. CASE rows' = rows
    BY <2>1 DEF Typed
  <2>2. CASE \E p \in Processes : GoesThrough(pass[p]) /\ rows' = Written(pass[p])
    BY <2>2, WrittenTyped
  <2> QED BY <2>1, <2>2
<1>2. \A r \in Row : r.count \in Nat
  BY MsgFacts DEF Row
<1>3. \A r \in rows' : Counted(r, messages')
  BY <1>1, <1>2, CountedOfMore
<1>4. ASSUME NEW q \in Processes
      PROVE  \A i \in 1..Len(pass'[q].writes) :
                /\ Counted(pass'[q].writes[i], messages)
                /\ \A j \in 1..Len(pass'[q].writes) :
                      pass'[q].writes[i].id = pass'[q].writes[j].id => i = j
  <2>1. CASE pass'[q].writes = <<>>
    BY <2>1
  <2>2. CASE pass'[q].writes = pass[q].writes
    BY <2>2 DEF Typed
  <2>3. CASE \E w \in Nat : pass'[q].writes = Plan(w).writes
    BY <2>3, PlanIsFresh
  <2> QED BY <2>1, <2>2, <2>3
<1>5. \A q \in Processes : \A i \in 1..Len(pass'[q].writes) : Counted(pass'[q].writes[i], messages')
  <2> TAKE q \in Processes
  <2> TAKE i \in 1..Len(pass'[q].writes)
  <2>1. pass'[q].writes \in Seq(Row)
    BY DEF Passes
  <2>2. pass'[q].writes[i] \in Row
    BY <2>1
  <2> QED BY <1>2, <1>4, <2>2, CountedOfMore
<1> QED BY <1>1, <1>3, <1>4, <1>5 DEF Typed, Bounded

LEMMA ProcessesAre ==
    /\ "assistant" \in Processes /\ "rebuild" \in Processes /\ "assistant" # "rebuild"
    /\ \A p \in Processes : p = "assistant" \/ p = "rebuild"
BY DEF Processes

LEMMA TypedFacts ==
    ASSUME Typed
    PROVE  /\ messages \in SUBSET Msg /\ gap \in Gaps /\ gap \in Nat /\ event \in Nat
           /\ pass \in [Processes -> Passes] /\ \A p \in Processes : pass[p] \in Passes
           /\ behind \in BOOLEAN /\ raced \in BOOLEAN /\ (raced => behind)
BY MsgFacts DEF Typed

LEMMA IdleIs ==
    Idle \in Passes /\ Idle.writes = <<>> /\ ~Idle.open /\ ~Idle.stale /\ ~Idle.whole
BY DEF Idle, Passes

LEMMA FreshOfKept ==
    ASSUME rows' = rows, messages \subseteq messages', NEW q,
           pass'[q].writes = pass[q].writes, pass'[q].created = pass[q].created,
           pass'[q].deletes = pass[q].deletes, pass'[q].cut = pass[q].cut,
           NEW M, NEW g, NEW w, FreshOf(q, M, g, w)
    PROVE  FreshOf(q, M, g, w)'
<1>1. PICK p : p = pass[q] /\ Fresh(p, M, g, w)
  BY DEF FreshOf
<1>2. PICK y : y = pass'[q]
  OBVIOUS
<1>3. Fresh(y, M, g, w)'
  BY <1>1, <1>2, FreshKept
<1> QED BY <1>2, <1>3 DEF FreshOf

LEMMA WindowKept ==
    ASSUME rows' = rows, event' = event
    PROVE  Window(event)' = Window(event)
BY DEF Window

LEMMA AssistantReadsKept ==
    ASSUME AssistantReads, messages' = messages, event' = event, gap' = gap,
           pass'["assistant"].open = pass["assistant"].open,
           pass'["assistant"].whole = pass["assistant"].whole,
           pass'["assistant"].writes = pass["assistant"].writes,
           pass'["assistant"].created = pass["assistant"].created,
           pass'["assistant"].deletes = pass["assistant"].deletes,
           pass'["assistant"].cut = pass["assistant"].cut,
           ~pass'["assistant"].stale /\ pass["assistant"].open
              => ~pass["assistant"].stale /\ rows' = rows
    PROVE  AssistantReads'
<1> SUFFICES ASSUME pass["assistant"].open
             PROVE  /\ event' # None
                    /\ ~pass'["assistant"].stale =>
                          \E M, g, w : /\ M = messages' /\ g = gap' /\ w = Window(event)'
                                       /\ FreshOf("assistant", M, g, w)'
                                       /\ pass'["assistant"].whole => w = None
  BY DEF AssistantReads
<1>1. event' # None
  BY DEF AssistantReads
<1>2. ASSUME ~pass'["assistant"].stale
      PROVE  \E M, g, w : /\ M = messages' /\ g = gap' /\ w = Window(event)'
                          /\ FreshOf("assistant", M, g, w)'
                          /\ pass'["assistant"].whole => w = None
  <2>1. ~pass["assistant"].stale /\ rows' = rows
    BY <1>2
  <2>2. PICK M, g, w : /\ M = messages /\ g = gap /\ w = Window(event)
                       /\ FreshOf("assistant", M, g, w)
                       /\ pass["assistant"].whole => w = None
    BY <2>1 DEF AssistantReads
  <2>3. FreshOf("assistant", M, g, w)'
    BY <2>1, <2>2, FreshOfKept
  <2>4. w = Window(event)'
    BY <2>1, <2>2, WindowKept
  <2> QED BY <2>2, <2>3, <2>4
<1> QED BY <1>1, <1>2

LEMMA RebuildReadsKept ==
    ASSUME NEW Old, NEW Now, RebuildReads(Old), Old \subseteq Now,
           rows' = rows, messages \subseteq messages',
           pass'["rebuild"].open = pass["rebuild"].open,
           pass'["rebuild"].stale = pass["rebuild"].stale,
           pass'["rebuild"].writes = pass["rebuild"].writes,
           pass'["rebuild"].created = pass["rebuild"].created,
           pass'["rebuild"].deletes = pass["rebuild"].deletes,
           pass'["rebuild"].cut = pass["rebuild"].cut,
           pass'["rebuild"].whole => pass["rebuild"].whole,
           ~behind' => ~behind /\ gap' = gap,
           \/ messages' = messages /\ gap' = gap
           \/ messages \subseteq Now /\ ~pass'["rebuild"].whole
    PROVE  RebuildReads(Now)'
<1> SUFFICES ASSUME pass["rebuild"].open, ~pass["rebuild"].stale
             PROVE  \E M, g : /\ M \subseteq messages' /\ g \in Gaps /\ FreshOf("rebuild", M, g, 0)'
                              /\ \A r \in rows' : Counted(r, M)
                              /\ \/ M = messages' /\ g = gap'
                                 \/ M \subseteq Now /\ ~pass'["rebuild"].whole
                              /\ ~behind' => g = gap'
  BY DEF RebuildReads
<1>1. PICK M, g : /\ M \subseteq messages /\ g \in Gaps /\ FreshOf("rebuild", M, g, 0)
                  /\ \A r \in rows : Counted(r, M)
                  /\ (M = messages /\ g = gap) \/ (M \subseteq Old /\ ~pass["rebuild"].whole)
                  /\ ~behind => g = gap
  BY DEF RebuildReads
<1>2. FreshOf("rebuild", M, g, 0)'
  BY <1>1, FreshOfKept
<1>3. \/ M = messages' /\ g = gap'
      \/ M \subseteq Now /\ ~pass'["rebuild"].whole
  <2>1. CASE M = messages /\ g = gap
    BY <2>1
  <2>2. CASE M \subseteq Old /\ ~pass["rebuild"].whole
    BY <2>2
  <2> QED BY <1>1, <2>1, <2>2
<1>4. ~behind' => g = gap'
  BY <1>1
<1> QED BY <1>1, <1>2, <1>3, <1>4

LEMMA InitHolds == ASSUME Undivided, Init PROVE IInv
<1>1. \A p \in Processes : pass[p] = Idle
  BY DEF Init
<1>2. Idle \in Passes
  BY DEF Idle, Passes
<1>3. Typed
  <2>1. pass \in [Processes -> Passes]
    BY <1>2 DEF Init
  <2>2. \A p \in Processes : \A i \in 1..Len(pass[p].writes) : FALSE
    BY <1>1 DEF Idle
  <2>3. Bounded(rows)
    BY DEF Init, Bounded
  <2> QED BY <2>1, <2>2, <2>3 DEF Init, Typed, None
<1>4. AssistantReads /\ RebuildReads({})
  BY <1>1 DEF AssistantReads, RebuildReads, Idle, Processes
<1>5. Announced({})
  <2>1. Shape(rows) = Extents(gap, {})
    BY DEF Init, Shape, Extents
  <2> QED BY <1>4, <2>1 DEF Announced, Init
<1>6. Disjoint
  BY DEF Init, Disjoint
<1> QED BY <1>3, <1>4, <1>5, <1>6 DEF IInv

LEMMA IngestKeeps == ASSUME Undivided, IInv, Ingest PROVE IInv'
<1>1. PICK Old : Announced(Old)
  BY DEF IInv
<1>2. Typed /\ AssistantReads /\ (~raced => Disjoint)
  BY DEF IInv
<1>3. PICK batch \in SUBSET Msg :
         /\ ~(batch \subseteq messages)
         /\ messages' = messages \cup batch
         /\ event' = IF Subscribed THEN Min({SentAt[m] : m \in batch}) ELSE None
  BY DEF Ingest
<1>4. /\ event = None /\ behind' = (behind \/ ~Subscribed)
      /\ pass' = [pass EXCEPT !["rebuild"].whole = FALSE]
      /\ rows' = rows /\ gap' = gap /\ raced' = raced
  BY DEF Ingest
<1>5. Old = messages
  BY <1>1, <1>4 DEF Announced
<1>6. Subscribed => /\ event' \in Nat \ {0} /\ \A m \in batch : event' <= SentAt[m]
  <2> HAVE Subscribed
  <2> DEFINE T == {SentAt[m] : m \in batch}
  <2>1. T \subseteq Nat \ {0} /\ T # {}
    <3>1. batch # {}
      BY <1>3
    <3> QED BY <3>1, MsgFacts
  <2>2. event' = Min(T)
    BY <1>3
  <2>3. \A m \in batch : SentAt[m] \in T
    OBVIOUS
  <2> HIDE DEF T
  <2>4. Min(T) \in T /\ \A k \in T : Min(T) <= k
    BY <2>1, MinOfNat
  <2> QED BY <2>1, <2>2, <2>3, <2>4
<1>7. /\ pass' \in [Processes -> Passes] /\ pass'["assistant"] = pass["assistant"]
      /\ pass'["rebuild"] = [pass["rebuild"] EXCEPT !.whole = FALSE]
  <2>1. [pass["rebuild"] EXCEPT !.whole = FALSE] \in Passes
    BY <1>2, ProcessesAre, TypedFacts DEF Passes
  <2> QED BY <1>2, <1>4, <2>1, ProcessesAre, TypedFacts
<1>8. /\ pass'["rebuild"].open = pass["rebuild"].open
      /\ pass'["rebuild"].stale = pass["rebuild"].stale /\ ~pass'["rebuild"].whole
      /\ pass'["rebuild"].writes = pass["rebuild"].writes
      /\ pass'["rebuild"].created = pass["rebuild"].created
      /\ pass'["rebuild"].deletes = pass["rebuild"].deletes
      /\ pass'["rebuild"].cut = pass["rebuild"].cut
  BY <1>2, <1>7, ProcessesAre, TypedFacts DEF Passes
<1>9. Typed'
  <2>1. messages' \in SUBSET Msg /\ messages \subseteq messages'
    BY <1>2, <1>3, TypedFacts
  <2>2. gap' \in Gaps /\ event' \in Nat /\ behind' \in BOOLEAN /\ raced' \in BOOLEAN
        /\ (raced' => behind')
    <3>1. gap' \in Gaps /\ behind' \in BOOLEAN /\ raced' \in BOOLEAN /\ (raced' => behind')
      <4>1. gap \in Gaps /\ raced \in BOOLEAN /\ (raced => behind)
        BY <1>2, TypedFacts
      <4>2. behind' \in BOOLEAN
        BY <1>4, Zenon
      <4> QED BY <1>4, <4>1, <4>2, Zenon
    <3>2. CASE Subscribed
      BY <1>6, <3>1, <3>2
    <3>3. CASE ~Subscribed
      BY <1>3, <3>1, <3>3 DEF None
    <3> QED BY <3>2, <3>3
  <2>3. \A q \in Processes : pass'[q].writes = pass[q].writes
    BY <1>7, <1>8, ProcessesAre
  <2> QED BY <1>2, <1>4, <1>7, <2>1, <2>2, <2>3, TypedKept
<1>10. AssistantReads'
  <2>1. ~pass["assistant"].open
    BY <1>2, <1>4 DEF AssistantReads
  <2> QED BY <1>7, <2>1 DEF AssistantReads
<1>11. ASSUME NEW Now, messages \subseteq Now PROVE RebuildReads(Now)'
  <2>1. RebuildReads(Old) /\ Old \subseteq Now /\ messages \subseteq messages'
    BY <1>1, <1>3, <1>5, <1>11 DEF Announced
  <2>2. ~behind' => ~behind /\ gap' = gap
    BY <1>4
  <2> QED BY <1>4, <1>8, <1>11, <2>1, <2>2, RebuildReadsKept
<1>12. \E Now : Announced(Now)'
  <2>1. CASE Subscribed
    <3>1. messages # messages' /\ messages \subseteq messages'
      BY <1>3
    <3>2. \A m \in messages' \ messages : SentAt[m] >= event'
      <4> TAKE m \in messages' \ messages
      <4>1. m \in batch
        BY <1>3
      <4> QED BY <1>6, <2>1, <4>1, MsgFacts
    <3>3. ~behind' => Shape(rows') = Extents(gap', messages)
      BY <1>1, <1>4, <1>5 DEF Announced
    <3>5. PICK Now : Now = messages
      OBVIOUS
    <3>4. RebuildReads(Now)'
      BY <1>11, <3>5
    <3>6. Announced(Now)'
      BY <1>6, <2>1, <3>1, <3>2, <3>3, <3>4, <3>5 DEF Announced, None
    <3> QED BY <3>6
  <2>2. CASE ~Subscribed
    <3>1. event' = None /\ behind'
      BY <1>3, <1>4, <2>2
    <3>2. PICK Now : Now = messages'
      OBVIOUS
    <3>3. RebuildReads(Now)'
      BY <1>3, <1>11, <3>2
    <3>4. Announced(Now)'
      BY <3>1, <3>2, <3>3 DEF Announced
    <3> QED BY <3>4
  <2> QED BY <2>1, <2>2
<1>13. (~raced => Disjoint)'
  BY <1>2, <1>4 DEF Disjoint
<1> QED BY <1>9, <1>10, <1>12, <1>13 DEF IInv

\* A plan is what its process holds when it has read.
LEMMA ReadsFresh ==
    ASSUME Undivided, Typed, rows' = rows, messages' = messages, NEW q \in Processes,
           NEW w \in Nat, Reads(q, w)
    PROVE  /\ pass' \in [Processes -> Passes]
           /\ pass'[q].writes = Plan(w).writes
           /\ pass'[q].whole <=> w = None
           /\ \A o \in Processes : o # q => pass'[o] = pass[o]
           /\ \A M, g : M = messages /\ g = gap => FreshOf(q, M, g, w)'
<1>1. /\ Fresh(Plan(w), messages, gap, w)
      /\ Plan(w) \in Passes /\ (Plan(w).whole <=> w = None)
  BY PlanIsFresh
<1>2. /\ pass' \in [Processes -> Passes] /\ pass'[q] = Plan(w)
      /\ \A o \in Processes : o # q => pass'[o] = pass[o]
  BY <1>1, TypedFacts DEF Reads
<1>3. ASSUME NEW M, NEW g, M = messages, g = gap PROVE FreshOf(q, M, g, w)'
  <2>1. PICK y : y = Plan(w)
    OBVIOUS
  <2>2. Fresh(y, M, g, w)
    BY <1>1, <1>3, <2>1
  <2>3. Fresh(y, M, g, w)'
    BY <2>2, FreshKept
  <2> QED BY <1>2, <2>1, <2>3 DEF FreshOf
<1> QED BY <1>1, <1>2, <1>3

LEMMA SegmentKeeps == ASSUME Undivided, IInv, Segment PROVE IInv'
<1>1. PICK Old : Announced(Old)
  BY DEF IInv
<1>2. Typed /\ AssistantReads /\ (~raced => Disjoint)
  BY DEF IInv
<1>3. /\ event # None /\ Reads("assistant", Window(event))
      /\ messages' = messages /\ rows' = rows /\ event' = event /\ gap' = gap
      /\ behind' = behind /\ raced' = raced
  BY DEF Segment
<1>4. PICK w \in Nat : w = Window(event)
  BY <1>2, TypedFacts, WindowIs
<1>5. /\ pass' \in [Processes -> Passes]
      /\ pass'["assistant"].writes = Plan(w).writes
      /\ pass'["assistant"].whole <=> w = None
      /\ pass'["rebuild"] = pass["rebuild"]
      /\ \A M, g : M = messages /\ g = gap => FreshOf("assistant", M, g, w)'
  BY <1>2, <1>3, <1>4, ReadsFresh, ProcessesAre
<1>6. Typed'
  <2>1. \A q \in Processes : \/ pass'[q].writes = pass[q].writes
                             \/ \E v \in Nat : pass'[q].writes = Plan(v).writes
    BY <1>5, ProcessesAre
  <2>2. /\ messages' \in SUBSET Msg /\ gap' \in Gaps /\ event' \in Nat
        /\ behind' \in BOOLEAN /\ raced' \in BOOLEAN /\ (raced' => behind')
    BY <1>2, <1>3, TypedFacts
  <2> QED BY <1>2, <1>3, <1>5, <2>1, <2>2, TypedKept
<1>7. AssistantReads'
  <2>1. PICK M, g : M = messages /\ g = gap
    OBVIOUS
  <2>2. M = messages' /\ g = gap' /\ w = Window(event)' /\ FreshOf("assistant", M, g, w)'
    BY <1>3, <1>4, <1>5, <2>1, WindowKept
  <2> QED BY <1>3, <1>5, <2>2 DEF AssistantReads
<1>8. RebuildReads(Old)'
  <2>1. RebuildReads(Old)
    BY <1>1 DEF Announced
  <2> QED BY <1>3, <1>5, <2>1, RebuildReadsKept
<1>9. Announced(Old)'
  BY <1>1, <1>3, <1>8 DEF Announced
<1>10. (~raced => Disjoint)'
  BY <1>2, <1>3 DEF Disjoint
<1> QED BY <1>6, <1>7, <1>9, <1>10 DEF IInv

LEMMA RebuildKeeps == ASSUME Undivided, IInv, Rebuild PROVE IInv'
<1>1. PICK Old : Announced(Old)
  BY DEF IInv
<1>2. Typed /\ AssistantReads /\ (~raced => Disjoint)
  BY DEF IInv
<1>3. /\ Reads("rebuild", None)
      /\ messages' = messages /\ rows' = rows /\ event' = event /\ gap' = gap
      /\ behind' = behind /\ raced' = raced
  BY DEF Rebuild
<1>4. /\ pass' \in [Processes -> Passes]
      /\ pass'["rebuild"].writes = Plan(0).writes
      /\ pass'["assistant"] = pass["assistant"]
      /\ \A M, g : M = messages /\ g = gap => FreshOf("rebuild", M, g, 0)'
  <2>1. Reads("rebuild", 0) /\ 0 \in Nat
    BY <1>3 DEF None
  <2> QED BY <1>2, <1>3, <2>1, ReadsFresh, ProcessesAre
<1>5. Typed'
  <2>1. \A q \in Processes : \/ pass'[q].writes = pass[q].writes
                             \/ \E v \in Nat : pass'[q].writes = Plan(v).writes
    BY <1>4, ProcessesAre
  <2>2. /\ messages' \in SUBSET Msg /\ gap' \in Gaps /\ event' \in Nat
        /\ behind' \in BOOLEAN /\ raced' \in BOOLEAN /\ (raced' => behind')
    BY <1>2, <1>3, TypedFacts
  <2> QED BY <1>2, <1>3, <1>4, <2>1, <2>2, TypedKept
<1>6. AssistantReads'
  BY <1>2, <1>3, <1>4, AssistantReadsKept
<1>7. RebuildReads(Old)'
  <2>1. PICK M, g : M = messages /\ g = gap
    OBVIOUS
  <2>2. /\ M \subseteq messages' /\ g \in Gaps /\ FreshOf("rebuild", M, g, 0)'
        /\ M = messages' /\ g = gap'
    BY <1>2, <1>3, <1>4, <2>1, TypedFacts
  <2>3. \A r \in rows' : Counted(r, M)
    BY <1>2, <1>3, <2>1 DEF Typed
  <2> QED BY <2>2, <2>3 DEF RebuildReads
<1>8. Announced(Old)'
  BY <1>1, <1>3, <1>7 DEF Announced
<1>9. (~raced => Disjoint)'
  BY <1>2, <1>3 DEF Disjoint
<1> QED BY <1>5, <1>6, <1>8, <1>9 DEF IInv

LEMMA SegmentFailsKeeps == ASSUME Undivided, IInv, SegmentFails PROVE IInv'
<1>1. PICK Old : Announced(Old)
  BY DEF IInv
<1>2. Typed /\ AssistantReads /\ (~raced => Disjoint)
  BY DEF IInv
<1>3. /\ pass' = [pass EXCEPT !["assistant"] = Idle]
      /\ messages' = messages /\ rows' = rows /\ event' = None /\ gap' = gap
      /\ behind' = TRUE /\ raced' = raced
  BY DEF SegmentFails, Ends
<1>4. /\ pass' \in [Processes -> Passes]
      /\ pass'["assistant"] = Idle /\ pass'["rebuild"] = pass["rebuild"]
  BY <1>2, <1>3, IdleIs, ProcessesAre, TypedFacts
<1>5. Typed'
  <2>1. \A q \in Processes : pass'[q].writes = <<>> \/ pass'[q].writes = pass[q].writes
    BY <1>4, IdleIs, ProcessesAre
  <2>2. /\ messages' \in SUBSET Msg /\ gap' \in Gaps /\ event' \in Nat
        /\ behind' \in BOOLEAN /\ raced' \in BOOLEAN /\ (raced' => behind')
    BY <1>2, <1>3, TypedFacts DEF None
  <2> QED BY <1>2, <1>3, <1>4, <2>1, <2>2, TypedKept
<1>6. AssistantReads'
  BY <1>4, IdleIs DEF AssistantReads
<1>7. PICK Now : Now = messages
  OBVIOUS
<1>8. RebuildReads(Now)'
  <2>1. RebuildReads(Old) /\ Old \subseteq Now
    BY <1>1, <1>7 DEF Announced
  <2> QED BY <1>3, <1>4, <2>1, RebuildReadsKept
<1>9. Announced(Now)'
  BY <1>3, <1>7, <1>8 DEF Announced
<1>10. (~raced => Disjoint)'
  BY <1>2, <1>3 DEF Disjoint
<1> QED BY <1>5, <1>6, <1>9, <1>10 DEF IInv

LEMMA RebuildFailsKeeps == ASSUME Undivided, IInv, RebuildFails PROVE IInv'
<1>1. PICK Old : Announced(Old)
  BY DEF IInv
<1>2. Typed /\ AssistantReads /\ (~raced => Disjoint)
  BY DEF IInv
<1>3. /\ pass' = [pass EXCEPT !["rebuild"] = Idle]
      /\ messages' = messages /\ rows' = rows /\ event' = event /\ gap' = gap
      /\ behind' = behind /\ raced' = raced
  BY DEF RebuildFails, Ends
<1>4. /\ pass' \in [Processes -> Passes]
      /\ pass'["rebuild"] = Idle /\ pass'["assistant"] = pass["assistant"]
  BY <1>2, <1>3, IdleIs, ProcessesAre, TypedFacts
<1>5. Typed'
  <2>1. \A q \in Processes : pass'[q].writes = <<>> \/ pass'[q].writes = pass[q].writes
    BY <1>4, IdleIs, ProcessesAre
  <2>2. /\ messages' \in SUBSET Msg /\ gap' \in Gaps /\ event' \in Nat
        /\ behind' \in BOOLEAN /\ raced' \in BOOLEAN /\ (raced' => behind')
    BY <1>2, <1>3, TypedFacts
  <2> QED BY <1>2, <1>3, <1>4, <2>1, <2>2, TypedKept
<1>6. AssistantReads'
  BY <1>2, <1>3, <1>4, AssistantReadsKept
<1>7. RebuildReads(Old)'
  BY <1>4, IdleIs DEF RebuildReads
<1>8. Announced(Old)'
  BY <1>1, <1>3, <1>7 DEF Announced
<1>9. (~raced => Disjoint)'
  BY <1>2, <1>3 DEF Disjoint
<1> QED BY <1>5, <1>6, <1>8, <1>9 DEF IInv

LEMMA RestartKeeps == ASSUME Undivided, IInv, Restart PROVE IInv'
<1>1. PICK Old : Announced(Old)
  BY DEF IInv
<1>2. Typed /\ AssistantReads /\ (~raced => Disjoint)
  BY DEF IInv
<1>3. /\ pass' = [p \in Processes |-> IF p = "assistant" THEN Idle
                                     ELSE [pass[p] EXCEPT !.whole = @ /\ gap' = gap]]
      /\ messages' = messages /\ rows' = rows /\ event' = None /\ gap' \in Gaps
      /\ behind' = (behind \/ event # None \/ gap' # gap) /\ raced' = raced
  BY DEF Restart
<1>4. pass["rebuild"] \in Passes
  BY <1>2, ProcessesAre, TypedFacts
<1>5. /\ pass'["assistant"] = Idle
      /\ pass'["rebuild"] = [pass["rebuild"] EXCEPT !.whole = @ /\ gap' = gap]
  BY <1>3, ProcessesAre
<1>6. /\ pass'["rebuild"].open = pass["rebuild"].open
      /\ pass'["rebuild"].stale = pass["rebuild"].stale
      /\ pass'["rebuild"].writes = pass["rebuild"].writes
      /\ pass'["rebuild"].created = pass["rebuild"].created
      /\ pass'["rebuild"].deletes = pass["rebuild"].deletes
      /\ pass'["rebuild"].cut = pass["rebuild"].cut
  BY <1>4, <1>5 DEF Passes
<1>7. pass'["rebuild"].whole <=> pass["rebuild"].whole /\ gap' = gap
  <2>1. pass'["rebuild"].whole = (pass["rebuild"].whole /\ gap' = gap)
    BY <1>4, <1>5 DEF Passes
  <2> QED BY <2>1
<1>8. pass' \in [Processes -> Passes]
  <2>1. (pass["rebuild"].whole /\ gap' = gap) \in BOOLEAN
    OBVIOUS
  <2>2. [pass["rebuild"] EXCEPT !.whole = pass["rebuild"].whole /\ gap' = gap] \in Passes
    BY <1>4, <2>1 DEF Passes
  <2>3. pass'["rebuild"] \in Passes /\ pass'["assistant"] \in Passes
    BY <1>4, <1>5, <2>2, IdleIs
  <2> QED BY <1>3, <2>3, ProcessesAre
<1>9. Typed'
  <2>1. \A q \in Processes : pass'[q].writes = <<>> \/ pass'[q].writes = pass[q].writes
    BY <1>5, <1>6, IdleIs, ProcessesAre
  <2>2. /\ messages' \in SUBSET Msg /\ event' \in Nat /\ raced \in BOOLEAN /\ (raced => behind)
    BY <1>2, <1>3, TypedFacts DEF None
  <2>3. behind' \in BOOLEAN /\ raced' \in BOOLEAN /\ (raced' => behind')
    BY <1>3, <2>2, Zenon
  <2> QED BY <1>2, <1>3, <1>8, <2>1, <2>2, <2>3, TypedKept
<1>10. AssistantReads'
  BY <1>5, IdleIs DEF AssistantReads
<1>11. PICK Now : Now = messages
  OBVIOUS
<1>12. RebuildReads(Now)'
  <2>1. RebuildReads(Old) /\ Old \subseteq Now
    BY <1>1, <1>11 DEF Announced
  <2>2. ~behind' => ~behind /\ gap' = gap
    BY <1>3
  <2>3. \/ messages' = messages /\ gap' = gap
        \/ messages \subseteq Now /\ ~pass'["rebuild"].whole
    BY <1>3, <1>7, <1>11
  <2>4. pass'["rebuild"].whole => pass["rebuild"].whole
    BY <1>7
  <2> QED BY <1>3, <1>6, <2>1, <2>2, <2>3, <2>4, RebuildReadsKept
<1>13. Announced(Now)'
  <2>1. ~behind' => Shape(rows') = Extents(gap', Now)
    <3>1. ~behind' => ~behind /\ event = None /\ gap' = gap
      BY <1>3
    <3> QED BY <1>1, <1>3, <1>11, <3>1 DEF Announced
  <2> QED BY <1>3, <1>11, <1>12, <2>1 DEF Announced
<1>14. (~raced => Disjoint)'
  BY <1>2, <1>3 DEF Disjoint
<1> QED BY <1>9, <1>10, <1>13, <1>14 DEF IInv

\* What holds after any write, of the pass q and of the other, o.
LEMMA WritesGives ==
    ASSUME Undivided, Typed, NEW q \in Processes, NEW o \in Processes, o # q, Writes(q),
           messages' = messages, gap' = gap, event' \in Nat
    PROVE  /\ Typed' /\ rows' = Written(pass[q]) /\ pass'[q] = Idle
           /\ pass'[o].open = pass[o].open /\ pass'[o].whole = pass[o].whole
           /\ pass'[o].writes = pass[o].writes /\ pass'[o].created = pass[o].created
           /\ pass'[o].deletes = pass[o].deletes /\ pass'[o].cut = pass[o].cut
           /\ ~pass'[o].stale /\ pass[o].open => ~pass[o].stale /\ rows' = rows
           /\ ~behind' => ~pass[q].stale /\ ~pass[q].cut /\ (~behind \/ pass[q].whole)
           /\ ~raced' => ~pass[q].stale /\ (~raced \/ pass[q].whole)
<1>1. /\ pass[q].open /\ GoesThrough(pass[q]) /\ rows' = Written(pass[q])
      /\ pass' = [p \in Processes |->
                    IF p = q THEN Idle
                    ELSE [pass[p] EXCEPT !.stale = @ \/ (pass[p].open /\ rows' # rows)]]
      /\ behind' = IF pass[q].stale \/ pass[q].cut THEN TRUE ELSE behind /\ ~pass[q].whole
      /\ raced' = IF pass[q].stale THEN TRUE ELSE raced /\ ~pass[q].whole
  BY DEF Writes
<1>2. pass[o] \in Passes /\ pass[q] \in Passes
  BY TypedFacts
<1>3. pass'[q] = Idle
  BY <1>1
<1>4. pass'[o] = [pass[o] EXCEPT !.stale = @ \/ (pass[o].open /\ rows' # rows)]
  BY <1>1
<1>5. /\ pass'[o].open = pass[o].open /\ pass'[o].whole = pass[o].whole
      /\ pass'[o].writes = pass[o].writes /\ pass'[o].created = pass[o].created
      /\ pass'[o].deletes = pass[o].deletes /\ pass'[o].cut = pass[o].cut
      /\ pass'[o].stale = (pass[o].stale \/ (pass[o].open /\ rows' # rows))
  BY <1>2, <1>4 DEF Passes
<1>6. pass' \in [Processes -> Passes]
  <2>1. (pass[o].stale \/ (pass[o].open /\ rows' # rows)) \in BOOLEAN
    OBVIOUS
  <2>2. [pass[o] EXCEPT !.stale = pass[o].stale \/ (pass[o].open /\ rows' # rows)] \in Passes
    BY <1>2, <2>1 DEF Passes
  <2>3. \A p \in Processes : p = o \/ p = q
    BY ProcessesAre
  <2>4. \A p \in Processes : pass'[p] \in Passes
    BY <1>3, <1>4, <2>2, <2>3, IdleIs
  <2> QED BY <1>1, <2>4
<1>7. Typed'
  <2>1. \A p \in Processes : pass'[p].writes = <<>> \/ pass'[p].writes = pass[p].writes
    BY <1>3, <1>5, IdleIs, ProcessesAre
  <2>2. messages' \in SUBSET Msg /\ gap' \in Gaps /\ (raced => behind)
    BY TypedFacts
  <2>3. behind' \in BOOLEAN /\ raced' \in BOOLEAN /\ (raced' => behind')
    BY <1>1, <2>2, Zenon
  <2> QED BY <1>1, <1>6, <2>1, <2>2, <2>3, TypedKept
<1>8. /\ ~behind' => ~pass[q].stale /\ ~pass[q].cut /\ (~behind \/ pass[q].whole)
      /\ ~raced' => ~pass[q].stale /\ (~raced \/ pass[q].whole)
  BY <1>1
<1> QED BY <1>1, <1>3, <1>5, <1>7, <1>8

LEMMA SegmentedKeeps ==
    ASSUME Undivided, IInv, Segmented
    PROVE  IInv'
<1>1. PICK Old : Announced(Old)
  BY DEF IInv
<1>2. Typed /\ AssistantReads /\ (~raced => Disjoint)
  BY DEF IInv
<1>3. /\ Writes("assistant") /\ event' = None /\ messages' = messages /\ gap' = gap
      /\ pass["assistant"].open
  BY DEF Segmented, Writes
<1>4. /\ Typed' /\ rows' = Written(pass["assistant"]) /\ pass'["assistant"] = Idle
      /\ pass'["rebuild"].open = pass["rebuild"].open
      /\ pass'["rebuild"].whole = pass["rebuild"].whole
      /\ pass'["rebuild"].writes = pass["rebuild"].writes
      /\ pass'["rebuild"].created = pass["rebuild"].created
      /\ pass'["rebuild"].deletes = pass["rebuild"].deletes
      /\ pass'["rebuild"].cut = pass["rebuild"].cut
      /\ ~pass'["rebuild"].stale /\ pass["rebuild"].open => ~pass["rebuild"].stale /\ rows' = rows
      /\ ~behind' => /\ ~pass["assistant"].stale /\ ~pass["assistant"].cut
                     /\ ~behind \/ pass["assistant"].whole
      /\ ~raced' => ~pass["assistant"].stale /\ (~raced \/ pass["assistant"].whole)
  <2>1. event' \in Nat
    BY <1>3 DEF None
  <2> QED BY <1>2, <1>3, <2>1, WritesGives, ProcessesAre
<1>5. event # None /\ Old # messages
  BY <1>1, <1>2, <1>3 DEF AssistantReads, Announced
<1>6. ASSUME ~pass["assistant"].stale
      PROVE  \E M, g, w, p :
                /\ M = messages /\ g = gap /\ w = Window(event) /\ p = pass["assistant"]
                /\ Fresh(p, M, g, w)
                /\ pass["assistant"].whole => w = 0
  BY <1>2, <1>3, <1>6 DEF AssistantReads, FreshOf, None
<1>7. ASSUME ~behind' PROVE Shape(rows') = Extents(gap, messages)
  <2>1. PICK M, g, w, p :
           /\ M = messages /\ g = gap /\ w = Window(event) /\ p = pass["assistant"]
           /\ Fresh(p, M, g, w)
           /\ pass["assistant"].whole => w = 0
    BY <1>4, <1>6, <1>7
  <2>2. /\ w \in Nat /\ w <= event /\ event \in Nat /\ g \in Nat /\ M \subseteq messages
        /\ w = 0 \/ \E s \in rows : s.start = w
    BY <1>2, <2>1, TypedFacts, WindowIs
  <2>3. w = 0 \/ \E O \in SUBSET M : Shape(rows) = Extents(g, O) /\ \A m \in M \ O : SentAt[m] >= w
    <3>1. CASE pass["assistant"].whole
      BY <2>1, <3>1
    <3>2. CASE ~behind
      <4>1. Shape(rows) = Extents(g, Old) \/ Shape(rows) = Extents(g, M)
        BY <1>1, <2>1, <3>2 DEF Announced
      <4>2. \A m \in M \ Old : SentAt[m] >= w
        <5> TAKE m \in M \ Old
        <5>1. SentAt[m] >= event /\ m \in Msg
          BY <1>1, <1>2, <2>1, TypedFacts DEF Announced
        <5>2. SentAt[m] \in Nat
          BY <5>1, MsgFacts
        <5> QED BY <2>2, <5>1, <5>2
      <4>3. Old \in SUBSET M /\ M \in SUBSET M /\ M \ M = {}
        BY <1>1, <2>1 DEF Announced
      <4> QED BY <4>1, <4>2, <4>3
    <3> QED BY <1>4, <1>7, <3>1, <3>2
  <2>4. ~p.cut
    BY <1>4, <1>7, <2>1
  <2>5. Shape(Written(p)) = Extents(g, M)
    BY <1>2, <2>1, <2>2, <2>3, <2>4, FreshAgrees
  <2> QED BY <1>4, <2>1, <2>5
<1>8. AssistantReads'
  BY <1>4, IdleIs DEF AssistantReads
<1>9. PICK Now : Now = messages
  OBVIOUS
<1>10. RebuildReads(Now)'
  <2> SUFFICES ASSUME pass'["rebuild"].open, ~pass'["rebuild"].stale
               PROVE  \E M, g : /\ M \subseteq messages' /\ g \in Gaps /\ FreshOf("rebuild", M, g, 0)'
                                /\ \A r \in rows' : Counted(r, M)
                                /\ \/ M = messages' /\ g = gap'
                                   \/ M \subseteq Now /\ ~pass'["rebuild"].whole
                                /\ ~behind' => g = gap'
    BY DEF RebuildReads
  <2>1. pass["rebuild"].open /\ ~pass["rebuild"].stale /\ rows' = rows
    BY <1>4
  <2>2. PICK M, g : /\ M \subseteq messages /\ g \in Gaps /\ FreshOf("rebuild", M, g, 0)
                    /\ \A r \in rows : Counted(r, M)
                    /\ (M = messages /\ g = gap) \/ (M \subseteq Old /\ ~pass["rebuild"].whole)
                    /\ ~behind => g = gap
    BY <1>1, <2>1 DEF Announced, RebuildReads
  <2>3. FreshOf("rebuild", M, g, 0)'
    BY <1>3, <1>4, <2>1, <2>2, FreshOfKept
  <2>4. ~behind' => g = gap'
    <3> HAVE ~behind'
    <3>1. Shape(rows) = Extents(gap, messages)
      BY <1>7, <2>1
    <3>2. PICK S, h, R : S = messages /\ h = gap /\ R = rows
      OBVIOUS
    <3>3. S \in SUBSET Msg /\ M \in SUBSET S /\ h \in Nat /\ R \in SUBSET Row
          /\ Shape(R) = Extents(h, S) /\ \A r \in R : Counted(r, M)
      BY <1>2, <2>2, <3>1, <3>2, TypedFacts DEF Typed
    <3>4. M = S
      BY <3>3, AllCounted
    <3>5. ~(M \subseteq Old)
      BY <1>1, <1>5, <3>2, <3>4 DEF Announced
    <3> QED BY <1>3, <2>2, <3>5
  <2>5. \/ M = messages' /\ g = gap'
        \/ M \subseteq Now /\ ~pass'["rebuild"].whole
    BY <1>3, <1>4, <1>9, <2>2
  <2>6. \A r \in rows' : Counted(r, M)
    BY <2>1, <2>2
  <2> QED BY <1>3, <2>2, <2>3, <2>4, <2>5, <2>6
<1>11. Announced(Now)'
  BY <1>3, <1>7, <1>9, <1>10 DEF Announced
<1>12. (~raced => Disjoint)'
  <2> SUFFICES ASSUME ~raced' PROVE Disjoint'
    OBVIOUS
  <2>1. PICK M, g, w, p :
           /\ M = messages /\ g = gap /\ w = Window(event) /\ p = pass["assistant"]
           /\ Fresh(p, M, g, w)
           /\ pass["assistant"].whole => w = 0
    BY <1>4, <1>6
  <2>2. /\ w \in Nat /\ event \in Nat /\ g \in Nat /\ M \subseteq messages
        /\ w = 0 \/ \E s \in rows : s.start = w
    BY <1>2, <2>1, TypedFacts, WindowIs
  <2>3. w = 0 \/ (Disjoint /\ \E s \in rows : s.start = w)
    BY <1>2, <1>4, <2>1, <2>2
  <2>4. \A r, s \in Written(p) : r # s => r.end < s.start \/ s.end < r.start
    BY <1>2, <2>1, <2>2, <2>3, FreshDisjoint
  <2> QED BY <1>4, <2>1, <2>4 DEF Disjoint
<1> QED BY <1>4, <1>7, <1>8, <1>11, <1>12 DEF IInv

LEMMA RebuildsKeeps == ASSUME Undivided, IInv, Rebuilds PROVE IInv'
<1>1. PICK Old : Announced(Old)
  BY DEF IInv
<1>2. Typed /\ AssistantReads /\ (~raced => Disjoint)
  BY DEF IInv
<1>3. /\ Writes("rebuild") /\ event' = event /\ messages' = messages /\ gap' = gap
      /\ pass["rebuild"].open
  BY DEF Rebuilds, Writes
<1>4. /\ Typed' /\ rows' = Written(pass["rebuild"]) /\ pass'["rebuild"] = Idle
      /\ pass'["assistant"].open = pass["assistant"].open
      /\ pass'["assistant"].whole = pass["assistant"].whole
      /\ pass'["assistant"].writes = pass["assistant"].writes
      /\ pass'["assistant"].created = pass["assistant"].created
      /\ pass'["assistant"].deletes = pass["assistant"].deletes
      /\ pass'["assistant"].cut = pass["assistant"].cut
      /\ ~pass'["assistant"].stale /\ pass["assistant"].open
            => ~pass["assistant"].stale /\ rows' = rows
      /\ ~behind' => /\ ~pass["rebuild"].stale /\ ~pass["rebuild"].cut
                     /\ ~behind \/ pass["rebuild"].whole
      /\ ~raced' => ~pass["rebuild"].stale /\ (~raced \/ pass["rebuild"].whole)
  <2>1. event' \in Nat
    BY <1>2, <1>3, TypedFacts
  <2> QED BY <1>2, <1>3, <2>1, WritesGives, ProcessesAre
<1>5. ASSUME ~pass["rebuild"].stale
      PROVE  \E M, g, p :
                /\ M \subseteq messages /\ g \in Nat /\ p = pass["rebuild"] /\ Fresh(p, M, g, 0)
                /\ \A r \in rows : Counted(r, M)
                /\ (M = messages /\ g = gap) \/ (M \subseteq Old /\ ~pass["rebuild"].whole)
                /\ ~behind => g = gap
  <2>1. \A g \in Gaps : g \in Nat
    BY MsgFacts
  <2> QED BY <1>1, <1>3, <1>5, <2>1 DEF Announced, RebuildReads, FreshOf
<1>6. ASSUME ~behind'
      PROVE  Shape(rows') = Extents(gap, Old) \/ Shape(rows') = Extents(gap, messages)
  <2>1. PICK M, g, p :
           /\ M \subseteq messages /\ g \in Nat /\ p = pass["rebuild"] /\ Fresh(p, M, g, 0)
           /\ \A r \in rows : Counted(r, M)
           /\ (M = messages /\ g = gap) \/ (M \subseteq Old /\ ~pass["rebuild"].whole)
           /\ ~behind => g = gap
    BY <1>4, <1>5, <1>6
  <2>2. ~p.cut
    BY <1>4, <1>6, <2>1
  <2>3. Shape(Written(p)) = Extents(g, M)
    BY <1>2, <2>1, <2>2, FreshAgrees
  <2>4. Shape(rows') = Extents(g, M)
    BY <1>4, <2>1, <2>3
  <2>5. CASE M = messages /\ g = gap
    BY <2>4, <2>5
  <2>6. CASE M \subseteq Old /\ ~pass["rebuild"].whole
    <3>1. ~behind
      BY <1>4, <1>6, <2>6
    <3>2. g = gap
      BY <2>1, <3>1
    <3>3. PICK S : (S = Old \/ S = messages) /\ Shape(rows) = Extents(gap, S)
      BY <1>1, <3>1 DEF Announced
    <3>4. PICK h, R : h = gap /\ R = rows
      OBVIOUS
    <3>5. /\ S \in SUBSET Msg /\ M \in SUBSET S /\ h \in Nat /\ R \in SUBSET Row
          /\ Shape(R) = Extents(h, S) /\ \A r \in R : Counted(r, M)
      BY <1>1, <1>2, <2>1, <2>6, <3>3, <3>4, TypedFacts DEF Typed, Announced
    <3>6. M = S
      BY <3>5, AllCounted
    <3> QED BY <2>4, <3>2, <3>3, <3>6
  <2> QED BY <2>1, <2>5, <2>6
<1>7. AssistantReads'
  BY <1>2, <1>3, <1>4, AssistantReadsKept
<1>8. RebuildReads(Old)'
  BY <1>4, IdleIs DEF RebuildReads
<1>9. Announced(Old)'
  BY <1>1, <1>3, <1>6, <1>8 DEF Announced
<1>10. (~raced => Disjoint)'
  <2> SUFFICES ASSUME ~raced' PROVE Disjoint'
    OBVIOUS
  <2>1. PICK M, g, p :
           M \subseteq messages /\ g \in Nat /\ p = pass["rebuild"] /\ Fresh(p, M, g, 0)
    BY <1>4, <1>5
  <2>2. \A r, s \in Written(p) : r # s => r.end < s.start \/ s.end < r.start
    BY <1>2, <2>1, FreshDisjoint
  <2> QED BY <1>4, <2>1, <2>2 DEF Disjoint
<1> QED BY <1>4, <1>7, <1>9, <1>10 DEF IInv

LEMMA StutterKeeps == ASSUME IInv, UNCHANGED vars PROVE IInv'
<1>1. PICK Old : Announced(Old)
  BY DEF IInv
<1>2. Typed /\ AssistantReads /\ (~raced => Disjoint)
  BY DEF IInv
<1>3. /\ messages' = messages /\ rows' = rows /\ pass' = pass /\ event' = event
      /\ gap' = gap /\ behind' = behind /\ raced' = raced
  BY DEF vars
<1>4. Typed'
  BY <1>2, <1>3 DEF Typed, Bounded
<1>5. AssistantReads'
  BY <1>2, <1>3, AssistantReadsKept
<1>6. RebuildReads(Old)'
  <2>1. RebuildReads(Old)
    BY <1>1 DEF Announced
  <2> QED BY <1>3, <2>1, RebuildReadsKept
<1>7. Announced(Old)'
  BY <1>1, <1>3, <1>6 DEF Announced
<1>8. (~raced => Disjoint)'
  BY <1>2, <1>3 DEF Disjoint
<1> QED BY <1>4, <1>5, <1>7, <1>8 DEF IInv

-----------------------------------------------------------------------------
(***************************************************************************)
(* The theorems.                                                           *)
(***************************************************************************)
\* Passes that nobody overtook hold what their reads make of the table, and what is
\* stored is a rebuild of what was announced, or of all there is.
THEOREM Invariance == ASSUME Undivided PROVE Spec => []IInv
<1>1. Init => IInv
  BY InitHolds
<1>2. IInv /\ [Next]_vars => IInv'
  <2> SUFFICES ASSUME IInv, [Next]_vars PROVE IInv'
    OBVIOUS
  <2>1. CASE Ingest
    BY <2>1, IngestKeeps
  <2>2. CASE Segment
    BY <2>2, SegmentKeeps
  <2>3. CASE Segmented
    BY <2>3, SegmentedKeeps
  <2>4. CASE SegmentFails
    BY <2>4, SegmentFailsKeeps
  <2>5. CASE Rebuild
    BY <2>5, RebuildKeeps
  <2>6. CASE Rebuilds
    BY <2>6, RebuildsKeeps
  <2>7. CASE RebuildFails
    BY <2>7, RebuildFailsKeeps
  <2>8. CASE Restart
    BY <2>8, RestartKeeps
  <2>9. CASE UNCHANGED vars
    BY <2>9, StutterKeeps DEF vars
  <2> QED BY <2>1, <2>2, <2>3, <2>4, <2>5, <2>6, <2>7, <2>8, <2>9 DEF Next
<1> QED BY <1>1, <1>2, PTL DEF Spec

\* Incremental and wholesale agree: while every batch was announced, every pass went
\* through and none wrote over another, the conversations are those a rebuild of all
\* messages gives; and they never overlap unless a pass wrote over another.
THEOREM WindowsAgreeWithRebuild == ASSUME Undivided PROVE Spec => []AgreesWithRebuild
<1>1. IInv => AgreesWithRebuild
  <2> SUFFICES ASSUME IInv PROVE AgreesWithRebuild
    OBVIOUS
  <2>1. PICK Old : Announced(Old)
    BY DEF IInv
  <2>2. event = None /\ ~behind => Shape(rows) = Extents(gap, messages)
    BY <2>1 DEF Announced
  <2> QED BY <2>2 DEF AgreesWithRebuild, IInv, Shape, Rebuilt
<1> QED BY <1>1, Invariance, PTL

\* What a write of pass q may do to identities, q not overtaken.
LEMMA WritesKeepIdentity ==
    ASSUME Undivided, Typed, messages' = messages, NEW p, NEW M, NEW g, NEW w,
           M \subseteq messages, g \in Nat, w \in Nat, Fresh(p, M, g, w), rows' = Written(p)
    PROVE  \A r \in rows, s \in rows' :
              r.id = s.id => \E m \in messages : Covers(r, SentAt[m]) /\ Covers(s, SentAt[m])
<1> SUFFICES ASSUME NEW r \in rows, NEW s \in Written(p), r.id = s.id PROVE Shares(r, s)
  BY DEF Shares
<1> QED BY FreshIdentity

\* A conversation keeps its identity.  Unless a pass wrote over another: an id never
\* moves to messages it shares none with, and a table that is right is left as it is.
THEOREM ConversationsKeepIdentity == ASSUME Undivided PROVE Spec => IdentityIsKept
<1> DEFINE A == rows' # rows /\ ~raced' =>
                  /\ \A r \in rows, s \in rows' :
                        r.id = s.id => \E m \in messages : Covers(r, SentAt[m]) /\ Covers(s, SentAt[m])
                  /\ ~behind' => {Extent(r) : r \in rows} # Rebuilt
<1>1. IInv /\ [Next]_vars => [A]_vars
  <2> SUFFICES ASSUME IInv, Next, rows' # rows, ~raced' PROVE A
    OBVIOUS
  <2>1. PICK Old : Announced(Old)
    BY DEF IInv
  <2>2. Typed /\ AssistantReads
    BY DEF IInv
  <2>3. Shape(rows) = {Extent(r) : r \in rows} /\ Rebuilt = Extents(gap, messages)
    BY DEF Shape, Rebuilt
  <2>4. Segmented \/ Rebuilds
    BY DEF Next, Ingest, Segment, SegmentFails, Rebuild, RebuildFails, Restart
  <2>5. CASE Segmented
    <3>1. /\ Writes("assistant") /\ event' = None /\ messages' = messages /\ gap' = gap
          /\ pass["assistant"].open
      BY <2>5 DEF Segmented, Writes
    <3>2. /\ rows' = Written(pass["assistant"])
          /\ ~behind' => ~pass["assistant"].cut
          /\ ~pass["assistant"].stale
      <4>1. event' \in Nat
        BY <3>1 DEF None
      <4> QED BY <2>2, <3>1, <4>1, WritesGives, ProcessesAre
    <3>3. PICK M, g, w, p :
             /\ M = messages /\ g = gap /\ w = Window(event) /\ p = pass["assistant"]
             /\ Fresh(p, M, g, w)
      BY <2>2, <3>1, <3>2 DEF AssistantReads, FreshOf
    <3>4. /\ w \in Nat /\ g \in Nat /\ M \subseteq messages
          /\ w = 0 \/ \E s \in rows : s.start = w
      BY <2>2, <3>3, TypedFacts, WindowIs
    <3>5. \A r \in rows, s \in rows' :
             r.id = s.id => \E m \in messages : Covers(r, SentAt[m]) /\ Covers(s, SentAt[m])
      BY <2>2, <3>1, <3>2, <3>3, <3>4, WritesKeepIdentity
    <3>6. ~behind' => Shape(rows) # Extents(gap, messages)
      <4> SUFFICES ASSUME ~behind', Shape(rows) = Extents(gap, messages) PROVE FALSE
        OBVIOUS
      <4>1. ~p.cut /\ Shape(rows) = Extents(g, M)
        BY <3>2, <3>3
      <4>2. Written(p) = rows
        BY <2>2, <3>3, <3>4, <4>1, FreshKeeps
      <4> QED BY <3>2, <3>3, <4>2
    <3> QED BY <2>3, <3>5, <3>6
  <2>6. CASE Rebuilds
    <3>1. /\ Writes("rebuild") /\ event' = event /\ messages' = messages /\ gap' = gap
          /\ pass["rebuild"].open
      BY <2>6 DEF Rebuilds, Writes
    <3>2. /\ rows' = Written(pass["rebuild"])
          /\ ~behind' => ~pass["rebuild"].cut /\ (~behind \/ pass["rebuild"].whole)
          /\ ~pass["rebuild"].stale
      <4>1. event' \in Nat
        BY <2>2, <3>1, TypedFacts
      <4> QED BY <2>2, <3>1, <4>1, WritesGives, ProcessesAre
    <3>3. PICK M, g, p :
             /\ M \subseteq messages /\ g \in Gaps /\ p = pass["rebuild"] /\ Fresh(p, M, g, 0)
             /\ \A r \in rows : Counted(r, M)
             /\ (M = messages /\ g = gap) \/ (M \subseteq Old /\ ~pass["rebuild"].whole)
             /\ ~behind => g = gap
      BY <2>1, <3>1, <3>2 DEF Announced, RebuildReads, FreshOf
    <3>4. g \in Nat
      BY <3>3, MsgFacts
    <3>5. \A r \in rows, s \in rows' :
             r.id = s.id => \E m \in messages : Covers(r, SentAt[m]) /\ Covers(s, SentAt[m])
      BY <2>2, <3>1, <3>2, <3>3, <3>4, WritesKeepIdentity
    <3>6. ~behind' => Shape(rows) # Extents(gap, messages)
      <4> SUFFICES ASSUME ~behind', Shape(rows) = Extents(gap, messages) PROVE FALSE
        OBVIOUS
      <4>1. g = gap
        BY <3>2, <3>3
      <4>2. PICK S, R : S = messages /\ R = rows
        OBVIOUS
      <4>3. /\ S \in SUBSET Msg /\ M \in SUBSET S /\ R \in SUBSET Row
            /\ Shape(R) = Extents(g, S) /\ \A r \in R : Counted(r, M)
        BY <2>2, <3>3, <4>1, <4>2, TypedFacts DEF Typed
      <4>4. M = S
        BY <3>4, <4>3, AllCounted
      <4>5. ~p.cut /\ Shape(rows) = Extents(g, M)
        BY <3>2, <3>3, <4>1, <4>2, <4>4
      <4>6. Written(p) = rows
        BY <2>2, <3>3, <3>4, <4>5, FreshKeeps
      <4> QED BY <3>2, <3>3, <4>6
    <3> QED BY <2>3, <3>5, <3>6
  <2> QED BY <2>4, <2>5, <2>6
<1> QED BY <1>1, Invariance, PTL DEF Spec, IdentityIsKept
=============================================================================
