-------------------------- MODULE ObjectPoseProofs --------------------------
(***************************************************************************)
(* Proofs about ObjectPose, for all places, every window, depth and        *)
(* timeout: types, that a valid transform is the last, and that its pose   *)
(* is not old.                                                             *)
(***************************************************************************)
EXTENDS ObjectPose, TLAPS, FiniteSetTheorems, SequenceTheorems, WellFoundedInduction

\* The frames and the ages leave the transform as it is.
LEMMA OthersKeepStanding ==
  ASSUME Standing, UNCHANGED <<detected, stable, transformed, passed>>
  PROVE  Standing'
  BY DEF Standing

LEMMA TransformKeepsStanding ==
  ASSUME Standing, HandlePose \/ HandleDetected \/ HandleStable
  PROVE  Standing'
<1>1. CASE HandlePose
  <2>1. UNCHANGED <<detected, stable>>
    BY <1>1 DEF HandlePose
  <2>2. CASE detected /\ stable /\ Pass
    <3>1. passed'
      BY <2>2 DEF Pass
    <3>2. QED
      BY <2>1, <2>2, <3>1 DEF Standing
  <2>3. CASE ~(detected /\ stable) /\ UNCHANGED transformed
    <3>1. ~transformed
      BY <2>3 DEF Standing
    <3>2. ~transformed'
      BY <2>3, <3>1
    <3>3. QED
      BY <3>2 DEF Standing
  <2>4. QED
    BY <1>1, <2>2, <2>3 DEF HandlePose
<1>2. CASE HandleDetected
  <2>1. transformed' = (transformed /\ detected') /\ UNCHANGED <<stable, passed>>
    BY <1>2 DEF HandleDetected
  <2>2. QED
    BY <2>1 DEF Standing
<1>3. CASE HandleStable
  <2>1. transformed' = (transformed /\ stable') /\ UNCHANGED <<detected, passed>>
    BY <1>3 DEF HandleStable
  <2>2. QED
    BY <2>1 DEF Standing
<1>4. QED
  BY <1>1, <1>2, <1>3

LEMMA OthersLeaveTransform ==
  ASSUME ProcessFrame \/ DetectionAges \/ \E i \in Inputs : InputAges(i)
  PROVE  UNCHANGED <<detected, stable, transformed, passed>>
<1>1. ASSUME ProcessFrame PROVE FramePasses
  BY <1>1 DEF ProcessFrame, ReadFails, NotDetected, GeometryRejected, Detected
<1>2. ASSUME DetectionAges PROVE UNCHANGED transform
  BY <1>2 DEF DetectionAges
<1>3. ASSUME \E i \in Inputs : InputAges(i)
      PROVE  UNCHANGED <<detected, stable, transformed, passed>>
  BY <1>3 DEF InputAges
<1>4. QED
  BY <1>1, <1>2, <1>3 DEF FramePasses, transform

LEMMA NextKeepsStanding ==
  ASSUME Standing, [Next]_vars
  PROVE  Standing'
<1>1. ASSUME ProcessFrame \/ DetectionAges \/ \E i \in Inputs : InputAges(i) PROVE Standing'
  BY <1>1, OthersLeaveTransform, OthersKeepStanding
<1>2. ASSUME HandlePose \/ HandleDetected \/ HandleStable PROVE Standing'
  BY <1>2, TransformKeepsStanding
<1>3. ASSUME UNCHANGED vars PROVE Standing'
  BY <1>3, OthersKeepStanding DEF vars, transform
<1>4. QED
  BY <1>1, <1>2, <1>3 DEF Next, Transform

\* What publish_validity of workspace_to_base_node calls valid is the transform
\* of the last pose it heard, in whatever order poses and flags arrive.
THEOREM ValidIsCurrent == Spec => []ValidMeansCurrent
<1>1. Init => Standing
  BY DEF Init, Standing
<1>2. Standing /\ [Next]_vars => Standing'
  BY NextKeepsStanding
<1>3. Standing => ValidMeansCurrent
  BY DEF Standing, ValidMeansCurrent, Valid
<1>4. QED
  BY <1>1, <1>2, <1>3, PTL DEF Spec
-----------------------------------------------------------------------------
(* The median.                                                             *)

LEMMA LeastNatural ==
  ASSUME NEW U, U \subseteq Nat, U # {}
  PROVE  \E x \in U : \A y \in Nat : y < x => y \notin U
<1> DEFINE Less == OpToRel(<, Nat)
<1>1. \E x \in U : \A y \in U : ~(<<y, x>> \in Less)
  <2> HIDE DEF Less
  <2> QED BY WFMin, NatLessThanWellFounded, Zenon DEF Less
<1>2. PICK x \in U : \A y \in U : <<y, x>> \notin Less
  BY <1>1, Zenon
<1>3. ASSUME NEW y \in Nat, y < x PROVE y \notin U
  BY <1>2, <1>3, Zenon DEF OpToRel
<1> QED BY <1>2, <1>3

\* Samples are finitely many: the least prefix without a bound would have one.
LEMMA SamplesAreBounded ==
  ASSUME NEW s \in Seq(Nat)
  PROVE  \E b \in Nat : \A i \in 1 .. Len(s) : s[i] <= b
<1> DEFINE Bounded(n) == \E b \in Nat : \A i \in 1 .. n : s[i] <= b
           Unbounded == {n \in 0 .. Len(s) : ~Bounded(n)}
<1>1. Len(s) \in Nat /\ \A i \in 1 .. Len(s) : s[i] \in Nat
  OBVIOUS
<1>2. Bounded(0)
  OBVIOUS
<1>3. ASSUME NEW n \in 0 .. Len(s), n # 0, Bounded(n - 1) PROVE Bounded(n)
  <2>1. n \in 1 .. Len(s) /\ s[n] \in Nat
    BY <1>1, <1>3
  <2>2. PICK b \in Nat : \A i \in 1 .. n - 1 : s[i] <= b
    BY <1>3
  <2>3. b + s[n] \in Nat
    BY <2>1, <2>2
  <2>4. ASSUME NEW i \in 1 .. n PROVE s[i] <= b + s[n]
    <3>1. s[i] \in Nat /\ (i \in 1 .. n - 1 \/ i = n)
      BY <1>1, <2>1
    <3> QED BY <2>1, <2>2, <3>1
  <2> QED BY <2>3, <2>4
<1> HIDE DEF Bounded
<1>4. ASSUME ~Bounded(Len(s)) PROVE FALSE
  <2>1. Len(s) \in Unbounded /\ Unbounded \subseteq Nat
    BY <1>1, <1>4
  <2>2. PICK n \in Unbounded : \A m \in Nat : m < n => m \notin Unbounded
    <3> HIDE DEF Unbounded
    <3> QED BY <2>1, LeastNatural
  <2>3. n \in 0 .. Len(s) /\ ~Bounded(n)
    BY <2>2
  <2>4. n # 0
    BY <1>2, <2>3
  <2>5. n - 1 \in Nat /\ n - 1 < n /\ n - 1 \in 0 .. Len(s)
    BY <1>1, <2>3, <2>4
  <2>6. Bounded(n - 1)
    BY <2>2, <2>5
  <2> QED BY <1>3, <2>3, <2>4, <2>6
<1> QED BY <1>4 DEF Bounded

LEMMA PlacesAreNumbers ==
  /\ \A p \in Places : p \in Nat
  /\ \A s \in Seq(Places) : s \in Seq(Nat)
<1>1. \A p \in Places : p \in Nat
  BY PlacesAssumption
<1> QED BY <1>1

\* How many samples are at most, or below, a number.
AtMost(s, x) == {i \in DOMAIN s : s[i] <= x}
Below(s, x)  == {i \in DOMAIN s : s[i] < x}

LEMMA Counts ==
  ASSUME NEW s \in Seq(Places), NEW x
  PROVE  /\ IsFiniteSet(AtMost(s, x)) /\ Cardinality(AtMost(s, x)) \in Nat
         /\ IsFiniteSet(Below(s, x)) /\ Cardinality(Below(s, x)) \in Nat
<1>1. IsFiniteSet(1 .. Len(s))
  BY FS_Interval
<1>2. AtMost(s, x) \in SUBSET (1 .. Len(s)) /\ Below(s, x) \in SUBSET (1 .. Len(s))
  BY DEF AtMost, Below
<1>3. IsFiniteSet(AtMost(s, x)) /\ IsFiniteSet(Below(s, x))
  BY <1>1, <1>2, FS_Subset
<1> QED BY <1>3, FS_CardinalityType

\* There is a sample of every rank from the first to the last.
LEMMA RankExists ==
  ASSUME NEW s \in Seq(Places), NEW n \in 1 .. Len(s)
  PROVE  \E x \in {s[i] : i \in DOMAIN s} :
           Cardinality(Below(s, x)) < n /\ Cardinality(AtMost(s, x)) >= n
<1> DEFINE U == {x \in Nat : Cardinality(AtMost(s, x)) >= n}
<1>5. PICK b \in Nat : \A i \in 1 .. Len(s) : s[i] <= b
  BY PlacesAreNumbers, SamplesAreBounded
<1>0. /\ \A i \in DOMAIN s : s[i] \in Nat /\ s[i] <= b
      /\ Len(s) \in Nat /\ DOMAIN s = 1 .. Len(s)
  BY <1>5, PlacesAreNumbers
<1>1. b \in U
  <2>1. AtMost(s, b) = 1 .. Len(s)
    BY <1>0 DEF AtMost
  <2>2. Cardinality(1 .. Len(s)) = Len(s)
    BY <1>0, FS_Interval
  <2> QED BY <2>1, <2>2
<1>2. PICK x \in U : \A y \in Nat : y < x => y \notin U
  <2> HIDE DEF U
  <2>1. U \subseteq Nat
    BY DEF U
  <2> QED BY <1>1, <2>1, LeastNatural
<1>3. Cardinality(Below(s, x)) < n
  <2>1. CASE x = 0
    <3>1. Below(s, x) = {}
      BY <1>0, <2>1 DEF Below
    <3> QED BY <3>1, FS_EmptySet
  <2>2. CASE x # 0
    <3>1. x - 1 \in Nat /\ x - 1 \notin U
      BY <1>2, <2>2
    <3>2. Below(s, x) = AtMost(s, x - 1)
      BY <1>0, <2>2 DEF Below, AtMost
    <3>3. Cardinality(AtMost(s, x - 1)) \in Nat
      BY Counts
    <3> QED BY <3>1, <3>2, <3>3
  <2> QED BY <2>1, <2>2
<1>4. x \in {s[i] : i \in DOMAIN s}
  <2>1. SUFFICES ASSUME \A i \in DOMAIN s : s[i] # x PROVE FALSE
    OBVIOUS
  <2>2. AtMost(s, x) = Below(s, x)
    BY <1>0, <2>1 DEF AtMost, Below
  <2>3. Cardinality(AtMost(s, x)) \in Nat
    BY Counts
  <2> QED BY <1>2, <1>3, <2>2, <2>3
<1> QED BY <1>2, <1>3, <1>4

LEMMA RankedIsRanked ==
  ASSUME NEW s \in Seq(Places), NEW n \in 1 .. Len(s)
  PROVE  /\ Ranked(s, n) \in {s[i] : i \in DOMAIN s}
         /\ Cardinality(Below(s, Ranked(s, n))) < n
         /\ Cardinality(AtMost(s, Ranked(s, n))) >= n
<1>1. Ranked(s, n) = CHOOSE x \in {s[i] : i \in DOMAIN s} :
        Cardinality(Below(s, x)) < n /\ Cardinality(AtMost(s, x)) >= n
  BY DEF Ranked, Below, AtMost
<1> QED BY <1>1, RankExists

LEMMA Middles ==
  ASSUME NEW n \in Nat \ {0}
  PROVE  (n + 1) \div 2 \in 1 .. n /\ n \div 2 + 1 \in 1 .. n
  OBVIOUS

LEMMA MedianIsBetween ==
  ASSUME NEW s \in Seq(Places), s # <<>>
  PROVE  Median(s) \in Between
<1>1. Len(s) \in Nat \ {0}
  BY EmptySeq
<1>2. /\ Ranked(s, (Len(s) + 1) \div 2) \in Places
      /\ Ranked(s, Len(s) \div 2 + 1) \in Places
  BY <1>1, Middles, RankedIsRanked
<1> QED BY <1>2 DEF Median, Between

\* A median follows the newer half: older samples are too few to outvote it.
LEMMA RankFollows ==
  ASSUME NEW s \in Seq(Places), s # <<>>,
         NEW n \in {(Len(s) + 1) \div 2, Len(s) \div 2 + 1}
  PROVE  /\ Ranked(s, n) \in Nat
         /\ \E i \in DOMAIN s : Len(s) - i <= Len(s) \div 2 /\ s[i] <= Ranked(s, n)
         /\ \E i \in DOMAIN s : Len(s) - i <= Len(s) \div 2 /\ Ranked(s, n) <= s[i]
<1> DEFINE x == Ranked(s, n)
           l == Len(s)
           h == l \div 2
<1>0. /\ l \in Nat \ {0} /\ DOMAIN s = 1 .. l /\ n \in 1 .. l
      /\ h \in Nat /\ l - h <= n /\ n <= h + 1 /\ h < l
  BY EmptySeq, Middles
<1>1. /\ x \in {s[i] : i \in DOMAIN s}
      /\ Cardinality(Below(s, x)) < n /\ Cardinality(AtMost(s, x)) >= n
      /\ IsFiniteSet(AtMost(s, x)) /\ IsFiniteSet(Below(s, x))
      /\ Cardinality(AtMost(s, x)) \in Nat /\ Cardinality(Below(s, x)) \in Nat
  BY <1>0, RankedIsRanked, Counts
<1>2. x \in Nat /\ \A i \in DOMAIN s : s[i] \in Nat
  BY <1>1, PlacesAreNumbers
<1> HIDE DEF x, l, h
<1>3. ASSUME \A i \in DOMAIN s : l - i <= h => x < s[i] PROVE FALSE
  <2>1. AtMost(s, x) \subseteq 1 .. l - h - 1
    BY <1>0, <1>2, <1>3 DEF AtMost
  <2>2. Cardinality(1 .. l - h - 1) = l - h - 1 /\ IsFiniteSet(1 .. l - h - 1)
    <3>1. ASSUME NEW m \in Nat PROVE Cardinality(1 .. m) = m /\ IsFiniteSet(1 .. m)
      <4>1. 1 \in Int /\ m \in Int
        OBVIOUS
      <4>2. Cardinality(1 .. m) = (IF 1 > m THEN 0 ELSE m - 1 + 1) /\ IsFiniteSet(1 .. m)
        BY <4>1, FS_Interval
      <4> QED BY <4>2
    <3>2. l - h - 1 \in Nat
      BY <1>0
    <3> QED BY <3>1, <3>2
  <2>3. Cardinality(AtMost(s, x)) <= l - h - 1
    BY <2>1, <2>2, FS_Subset
  <2> QED BY <1>0, <1>1, <2>3
<1>4. ASSUME \A i \in DOMAIN s : l - i <= h => s[i] < x PROVE FALSE
  <2>1. l - h .. l \subseteq Below(s, x)
    BY <1>0, <1>4 DEF Below
  <2>2. Cardinality(l - h .. l) = h + 1
    BY <1>0, FS_Interval
  <2>3. h + 1 <= Cardinality(Below(s, x))
    BY <1>1, <2>1, <2>2, FS_Subset
  <2> QED BY <1>0, <1>1, <2>3
<1>5. \E i \in DOMAIN s : l - i <= h /\ s[i] <= x
  BY <1>2, <1>3
<1>6. \E i \in DOMAIN s : l - i <= h /\ x <= s[i]
  BY <1>2, <1>4
<1> QED BY <1>2, <1>5, <1>6 DEF x, l, h

LEMMA MedianFollows ==
  ASSUME NEW s \in Seq(Places), s # <<>>
  PROVE  \E i, j \in DOMAIN s :
           /\ Len(s) - i <= Len(s) \div 2 /\ Len(s) - j <= Len(s) \div 2
           /\ s[i] <= Median(s) /\ Median(s) <= s[j]
<1> DEFINE x == Ranked(s, (Len(s) + 1) \div 2)
           y == Ranked(s, Len(s) \div 2 + 1)
           New(i) == i \in DOMAIN s /\ Len(s) - i <= Len(s) \div 2
<1>1. /\ x \in Nat /\ y \in Nat
      /\ \E i \in DOMAIN s : New(i) /\ s[i] <= x
      /\ \E i \in DOMAIN s : New(i) /\ x <= s[i]
      /\ \E i \in DOMAIN s : New(i) /\ s[i] <= y
      /\ \E i \in DOMAIN s : New(i) /\ y <= s[i]
  BY RankFollows
<1>2. Median(s) = (x + y) \div 2 /\ \A i \in DOMAIN s : s[i] \in Nat
  BY PlacesAreNumbers DEF Median
<1> HIDE DEF x, y, New
<1>3. Median(s) \in Nat /\ (x <= Median(s) \/ y <= Median(s)) /\ (Median(s) <= x \/ Median(s) <= y)
  BY <1>1, <1>2
<1>4. \E i \in DOMAIN s : New(i) /\ s[i] <= Median(s)
  BY <1>1, <1>2, <1>3
<1>5. \E i \in DOMAIN s : New(i) /\ Median(s) <= s[i]
  BY <1>1, <1>2, <1>3
<1> QED BY <1>4, <1>5 DEF New

-----------------------------------------------------------------------------
(* Types.                                                                  *)

\* What a store of the last n holds: the new message, and others one place
\* further from the end than before.
LEMMA KeepLastKeeps ==
  ASSUME NEW S, NEW q \in Seq(S), NEW x \in S, NEW n \in Nat \ {0}, Len(q) <= n
  PROVE  /\ KeepLast(q, x, n) \in Seq(S) /\ KeepLast(q, x, n) # <<>>
         /\ Len(KeepLast(q, x, n)) <= n
         /\ \A i \in DOMAIN KeepLast(q, x, n) :
              \/ KeepLast(q, x, n)[i] = x
              \/ \E j \in DOMAIN q : /\ KeepLast(q, x, n)[i] = q[j]
                                     /\ Len(q) - j + 1 = Len(KeepLast(q, x, n)) - i
<1> DEFINE k == KeepLast(q, x, n)
<1>1. CASE Len(q) < n
  <2>1. k = Append(q, x)
    BY <1>1 DEF KeepLast
  <2>2. /\ k \in Seq(S) /\ Len(k) = Len(q) + 1 /\ k[Len(q) + 1] = x
        /\ \A i \in 1 .. Len(q) : k[i] = q[i]
    BY <2>1
  <2>3. k # <<>>
    BY <2>2, EmptySeq
  <2> HIDE DEF k
  <2>4. \A i \in DOMAIN k : i = Len(q) + 1 \/ i \in 1 .. Len(q)
    BY <2>2
  <2>5. ASSUME NEW i \in 1 .. Len(q)
        PROVE  \E j \in DOMAIN q : k[i] = q[j] /\ Len(q) - j + 1 = Len(k) - i
    BY <2>2, <2>5
  <2>6. Len(k) <= n
    BY <1>1, <2>2
  <2>7. \A i \in DOMAIN k : \/ k[i] = x
                            \/ \E j \in DOMAIN q : k[i] = q[j] /\ Len(q) - j + 1 = Len(k) - i
    BY <2>2, <2>4, <2>5
  <2> QED BY <2>2, <2>3, <2>6, <2>7 DEF k
<1>2. CASE ~(Len(q) < n)
  <2>0. Len(q) = n /\ q # <<>>
    BY <1>2
  <2>1. k = Append(Tail(q), x)
    BY <1>2 DEF KeepLast
  <2>2. /\ Tail(q) \in Seq(S) /\ Len(Tail(q)) = n - 1
        /\ \A i \in 1 .. n - 1 : Tail(q)[i] = q[i + 1]
    BY <2>0
  <2>3. /\ k \in Seq(S) /\ Len(k) = n /\ k[n] = x
        /\ \A i \in 1 .. n - 1 : k[i] = q[i + 1]
    BY <2>1, <2>2
  <2>4. k # <<>>
    BY <2>3, EmptySeq
  <2> HIDE DEF k
  <2>5. \A i \in DOMAIN k : i = n \/ i \in 1 .. n - 1
    BY <2>3
  <2>6. ASSUME NEW i \in 1 .. n - 1
        PROVE  \E j \in DOMAIN q : k[i] = q[j] /\ Len(q) - j + 1 = Len(k) - i
    <3>1. i + 1 \in DOMAIN q /\ Len(q) - (i + 1) + 1 = Len(k) - i
      BY <2>0, <2>3, <2>6
    <3> QED BY <2>3, <3>1
  <2>7. \A i \in DOMAIN k : \/ k[i] = x
                            \/ \E j \in DOMAIN q : k[i] = q[j] /\ Len(q) - j + 1 = Len(k) - i
    BY <2>3, <2>5, <2>6
  <2> QED BY <2>3, <2>4, <2>7 DEF k
<1> QED BY <1>1, <1>2

\* A topic that loses its first message.
LEMMA TopicTaken ==
  ASSUME NEW S, NEW q \in Seq(S), q # <<>>
  PROVE  /\ Tail(q) \in Seq(S) /\ Len(Tail(q)) = Len(q) - 1 /\ Head(q) \in S
         /\ 1 \in DOMAIN q /\ Head(q) = q[1]
         /\ \A i \in DOMAIN Tail(q) : i + 1 \in DOMAIN q /\ Tail(q)[i] = q[i + 1]
  OBVIOUS

LEMMA PushKeepsPlaces ==
  ASSUME NEW s \in Seq(Places), Len(s) <= Window, NEW p \in Places
  PROVE  /\ Push(s, p) \in Seq(Places) /\ Len(Push(s, p)) <= Window
         /\ Push(s, p) # <<>>
<1>1. Window \in Nat \ {0}
  BY WindowAssumption
<1> QED BY <1>1, KeepLastKeeps, Zenon DEF Push

LEMMA PublishKeepsTopic ==
  ASSUME NEW S, NEW q \in Seq(S), Len(q) <= Depth, NEW m \in S
  PROVE  Publish(q, m) \in Seq(S) /\ Len(Publish(q, m)) <= Depth
<1>1. Depth \in Nat \ {0}
  BY DepthAssumption
<1> QED BY <1>1, KeepLastKeeps, Zenon DEF Publish

\* The type invariant by its parts.
CameraType == samples \in Seq(Places) /\ Len(samples) <= Window /\ recent \in BOOLEAN
PosesType == poses \in Seq(Between) /\ Len(poses) <= Depth
FlagsType == /\ dets \in Seq(BOOLEAN) /\ Len(dets) <= Depth
             /\ stabs \in Seq(BOOLEAN) /\ Len(stabs) <= Depth
TransformType ==
  /\ left \in [Inputs -> 0 .. Timeout] /\ base \in Between \cup {None}
  /\ detected \in BOOLEAN /\ stable \in BOOLEAN
  /\ transformed \in BOOLEAN /\ passed \in BOOLEAN
HistoryType == ago \in [Places -> 0 .. Horizon] /\ since \in 0 .. FlagHorizon

Typed == CameraType /\ PosesType /\ FlagsType /\ TransformType /\ HistoryType

LEMMA TypedMeansTypeOK == Typed <=> TypeOK
  BY DEF Typed, CameraType, PosesType, FlagsType, TransformType, HistoryType, TypeOK

LEMMA TypedMeansTypeOKPrimed == Typed' <=> TypeOK'
  BY DEF Typed, CameraType, PosesType, FlagsType, TransformType, HistoryType, TypeOK

LEMMA Horizons == Horizon \in Nat \ {0} /\ FlagHorizon \in Nat \ {0}
  BY WindowAssumption, DepthAssumption DEF Half, Horizon, FlagHorizon

LEMMA FramePassesKeepsTypes ==
  ASSUME TransformType, FramePasses
  PROVE  TransformType'
<1>1. left' \in [Inputs -> 0 .. Timeout]
  BY DepthAssumption DEF TransformType, FramePasses
<1> QED BY <1>1 DEF TransformType, FramePasses

LEMMA FlagsKeepTypes ==
  ASSUME Typed, NEW d \in BOOLEAN, NEW s \in BOOLEAN, PublishFlags(d, s)
  PROVE  FlagsType' /\ since' \in 0 .. FlagHorizon
<1>1. FlagsType'
  <2>1. /\ dets \in Seq(BOOLEAN) /\ Len(dets) <= Depth
        /\ stabs \in Seq(BOOLEAN) /\ Len(stabs) <= Depth
    BY DEF Typed, FlagsType
  <2>2. Publish(dets, d) \in Seq(BOOLEAN) /\ Len(Publish(dets, d)) <= Depth
    BY <2>1, PublishKeepsTopic, Zenon
  <2>3. Publish(stabs, s) \in Seq(BOOLEAN) /\ Len(Publish(stabs, s)) <= Depth
    BY <2>1, PublishKeepsTopic, Zenon
  <2> QED BY <2>2, <2>3 DEF PublishFlags, FlagsType
<1>2. since' \in 0 .. FlagHorizon
  BY Horizons DEF Typed, HistoryType, PublishFlags
<1> QED BY <1>1, <1>2

\* A frame without a pose: the window stays or is cleared.
Blind ==
  /\ PublishFlags(FALSE, FALSE) /\ FramePasses /\ UNCHANGED <<recent, poses, ago>>
  /\ (samples' = samples \/ samples' = <<>>)

LEMMA BlindFrames ==
  ASSUME ReadFails \/ NotDetected \/ GeometryRejected
  PROVE  Blind
  BY DEF Blind, ReadFails, NotDetected, GeometryRejected, camera

LEMMA FramesKeepTypes ==
  ASSUME Typed, ProcessFrame \/ DetectionAges
  PROVE  Typed'
<1>0. CameraType /\ PosesType /\ FlagsType /\ TransformType /\ HistoryType
  BY DEF Typed
<1>1. ASSUME Blind PROVE Typed'
  <2>1. FlagsType' /\ since' \in 0 .. FlagHorizon /\ TransformType'
    BY <1>0, <1>1, FlagsKeepTypes, FramePassesKeepsTypes DEF Blind
  <2>2. <<>> \in Seq(Places) /\ Len(<<>>) = 0
    OBVIOUS
  <2>3. samples' \in Seq(Places) /\ Len(samples') <= Window
    <3>1. CASE samples' = samples
      BY <1>0, <3>1 DEF CameraType
    <3>2. CASE samples' = <<>>
      BY <2>2, <3>2, WindowAssumption
    <3> QED BY <1>1, <3>1, <3>2 DEF Blind
  <2>4. CameraType' /\ PosesType' /\ HistoryType'
    BY <1>0, <1>1, <2>1, <2>3 DEF Blind, CameraType, PosesType, HistoryType
  <2> QED BY <2>1, <2>4 DEF Typed
<1>2. ASSUME NEW p \in Places, NEW steady \in BOOLEAN, Detected(p, steady) PROVE Typed'
  <2>1. samples' \in Seq(Places) /\ Len(samples') <= Window /\ samples' # <<>>
    BY <1>0, <1>2, PushKeepsPlaces DEF Detected, CameraType
  <2>2. PosesType'
    <3>1. Median(samples') \in Between
      BY <2>1, MedianIsBetween
    <3>2. Publish(poses, Median(samples')) \in Seq(Between)
          /\ Len(Publish(poses, Median(samples'))) <= Depth
      BY <1>0, <3>1, PublishKeepsTopic DEF PosesType
    <3> QED BY <1>2, <3>2 DEF Detected, PosesType
  <2>3. FlagsType' /\ since' \in 0 .. FlagHorizon
    <3>1. (steady /\ StableWindow(samples')) \in BOOLEAN
      BY DEF StableWindow
    <3> QED BY <1>2, <3>1, FlagsKeepTypes DEF Detected
  <2>4. TransformType'
    BY <1>0, <1>2, FramePassesKeepsTypes DEF Detected
  <2>5. ago' \in [Places -> 0 .. Horizon]
    BY <1>0, <1>2, Horizons DEF Detected, HistoryType
  <2>6. CameraType'
    BY <1>2, <2>1 DEF Detected, CameraType
  <2> QED BY <2>2, <2>3, <2>4, <2>5, <2>6 DEF Typed, HistoryType
<1>3. ASSUME DetectionAges PROVE Typed'
  BY <1>0, <1>3 DEF DetectionAges, topics, transform, history, Typed, CameraType, PosesType,
                    FlagsType, TransformType, HistoryType
<1> QED BY <1>1, <1>2, <1>3, BlindFrames DEF ProcessFrame

LEMMA HearsKeepsAges ==
  ASSUME left \in [Inputs -> 0 .. Timeout], NEW i \in Inputs, Hears(i)
  PROVE  left' \in [Inputs -> 0 .. Timeout]
  BY DepthAssumption DEF Hears

LEMMA TransformKeepsTypes ==
  ASSUME Typed, Transform
  PROVE  Typed'
<1>0. CameraType /\ PosesType /\ FlagsType /\ TransformType /\ HistoryType
  BY DEF Typed
<1>1. ASSUME HandlePose PROVE Typed'
  <2>1. /\ poses # <<>> /\ poses' = Tail(poses) /\ Hears("pose")
        /\ UNCHANGED <<camera, dets, stabs, detected, stable, history>>
    BY <1>1 DEF HandlePose
  <2>2. poses' \in Seq(Between) /\ Head(poses) \in Between /\ Len(poses') <= Depth
    BY <1>0, <2>1, TopicTaken, DepthAssumption DEF PosesType
  <2>3. base' \in Between \cup {None} /\ transformed' \in BOOLEAN /\ passed' \in BOOLEAN
    BY <1>0, <1>1, <2>2 DEF HandlePose, Pass, TransformType
  <2>4. left' \in [Inputs -> 0 .. Timeout]
    BY <1>0, <2>1, HearsKeepsAges DEF Inputs, TransformType
  <2>5. TransformType'
    BY <1>0, <2>1, <2>3, <2>4 DEF TransformType
  <2> QED BY <1>0, <2>1, <2>2, <2>5 DEF Typed, CameraType, PosesType, FlagsType, HistoryType,
                                        camera, history
<1>2. ASSUME HandleDetected PROVE Typed'
  <2>1. /\ dets # <<>> /\ dets' = Tail(dets) /\ detected' = Head(dets)
        /\ Hears("detected") /\ transformed' = (transformed /\ detected')
        /\ UNCHANGED <<camera, poses, stabs, stable, base, passed, history>>
    BY <1>2 DEF HandleDetected
  <2>2. dets' \in Seq(BOOLEAN) /\ detected' \in BOOLEAN /\ Len(dets') <= Depth
    BY <1>0, <2>1, TopicTaken, DepthAssumption DEF FlagsType
  <2>3. left' \in [Inputs -> 0 .. Timeout]
    BY <1>0, <2>1, HearsKeepsAges DEF Inputs, TransformType
  <2>4. transformed' \in BOOLEAN
    BY <2>1
  <2>5. TransformType'
    BY <1>0, <2>1, <2>2, <2>3, <2>4 DEF TransformType
  <2>6. FlagsType'
    BY <1>0, <2>1, <2>2 DEF FlagsType
  <2> QED BY <1>0, <2>1, <2>5, <2>6 DEF Typed, CameraType, PosesType, HistoryType, camera, history
<1>3. ASSUME HandleStable PROVE Typed'
  <2>1. /\ stabs # <<>> /\ stabs' = Tail(stabs) /\ stable' = Head(stabs)
        /\ Hears("stable") /\ transformed' = (transformed /\ stable')
        /\ UNCHANGED <<camera, poses, dets, detected, base, passed, history>>
    BY <1>3 DEF HandleStable
  <2>2. stabs' \in Seq(BOOLEAN) /\ stable' \in BOOLEAN /\ Len(stabs') <= Depth
    BY <1>0, <2>1, TopicTaken, DepthAssumption DEF FlagsType
  <2>3. left' \in [Inputs -> 0 .. Timeout]
    BY <1>0, <2>1, HearsKeepsAges DEF Inputs, TransformType
  <2>4. transformed' \in BOOLEAN
    BY <2>1
  <2>5. TransformType'
    BY <1>0, <2>1, <2>2, <2>3, <2>4 DEF TransformType
  <2>6. FlagsType'
    BY <1>0, <2>1, <2>2 DEF FlagsType
  <2> QED BY <1>0, <2>1, <2>5, <2>6 DEF Typed, CameraType, PosesType, HistoryType, camera, history
<1>4. ASSUME NEW i \in Inputs, InputAges(i) PROVE Typed'
  <2>1. /\ left' = [left EXCEPT ![i] = 0]
        /\ UNCHANGED <<camera, topics, detected, stable, transformed, base, passed, history>>
    BY <1>4 DEF InputAges
  <2>2. left' \in [Inputs -> 0 .. Timeout]
    BY <1>0, <2>1, DepthAssumption DEF TransformType
  <2>3. TransformType'
    BY <1>0, <2>1, <2>2 DEF TransformType
  <2> QED BY <1>0, <2>1, <2>3 DEF Typed, CameraType, PosesType, FlagsType, HistoryType,
                                  camera, topics, history
<1> QED BY <1>1, <1>2, <1>3, <1>4 DEF Transform

\* Type correctness: whatever the window holds, its median lies at a place or
\* in the middle between two, and a topic keeps Depth messages at most.
THEOREM PoseTypeCorrect == Spec => []TypeOK
<1>1. Init => TypeOK
  <2>1. <<>> \in Seq(Places) /\ Len(<<>>) = 0 /\ <<>> \in Seq(Between) /\ <<>> \in Seq(BOOLEAN)
    OBVIOUS
  <2>2. ASSUME Init PROVE CameraType /\ PosesType /\ FlagsType
    <3>1. 0 <= Window /\ 0 <= Depth
      BY WindowAssumption, DepthAssumption
    <3> QED BY <2>1, <2>2, <3>1 DEF Init, CameraType, PosesType, FlagsType
  <2>3. ASSUME Init PROVE TransformType /\ HistoryType
    <3>1. left \in [Inputs -> 0 .. Timeout]
      BY <2>3, DepthAssumption DEF Init
    <3>2. HistoryType
      BY <2>3, Horizons DEF Init, HistoryType
    <3> QED BY <2>3, <3>1, <3>2 DEF Init, TransformType
  <2> QED BY <2>2, <2>3, TypedMeansTypeOK DEF Typed
<1>2. TypeOK /\ [Next]_vars => TypeOK'
  <2>1. SUFFICES ASSUME Typed, [Next]_vars PROVE Typed'
    BY TypedMeansTypeOK, TypedMeansTypeOKPrimed
  <2>2. ASSUME UNCHANGED vars PROVE Typed'
    BY <2>1, <2>2 DEF vars, camera, topics, transform, history, Typed, CameraType,
                      PosesType, FlagsType, TransformType, HistoryType
  <2> QED BY <2>1, <2>2, FramesKeepTypes, TransformKeepsTypes DEF Next
<1> QED BY <1>1, <1>2, PTL DEF Spec

-----------------------------------------------------------------------------
(* The age of a pose that is reported valid.                               *)

\* SeenWithin of a history that is named.
Within(f, x, n) == \E p, q \in Places : f[p] <= n /\ f[q] <= n /\ p <= x /\ x <= q

\* One detection later everything was seen one detection longer ago at most.
LEMMA OneLater ==
  ASSUME NEW f \in [Places -> Nat], NEW g \in [Places -> Nat],
         \A q \in Places : g[q] <= f[q] + 1,
         NEW x, NEW n \in Int, NEW m \in Int, n + 1 <= m, Within(f, x, n)
  PROVE  Within(g, x, m)
<1>1. PICK p, q \in Places : f[p] <= n /\ f[q] <= n /\ p <= x /\ x <= q
  BY DEF Within
<1>2. g[p] <= f[p] + 1 /\ g[q] <= f[q] + 1
      /\ g[p] \in Nat /\ g[q] \in Nat /\ f[p] \in Nat /\ f[q] \in Nat
  BY <1>1
<1>3. g[p] <= m /\ g[q] <= m
  BY <1>1, <1>2
<1> QED BY <1>1, <1>3 DEF Within

LEMMA LongerAgo ==
  ASSUME NEW f \in [Places -> Nat],
         NEW x, NEW n \in Int, NEW m \in Int, n <= m, Within(f, x, n)
  PROVE  Within(f, x, m)
<1>1. PICK p, q \in Places : f[p] <= n /\ f[q] <= n /\ p <= x /\ x <= q
  BY DEF Within
<1>2. f[p] \in Nat /\ f[q] \in Nat
  BY <1>1
<1>3. f[p] <= m /\ f[q] <= m
  BY <1>1, <1>2
<1> QED BY <1>1, <1>3 DEF Within

\* The numbers of the model.
LEMMA Numbers ==
  ASSUME TypeOK
  PROVE  /\ ago \in [Places -> Nat] /\ since \in Nat
         /\ left["pose"] \in 0 .. Timeout /\ left["stable"] \in 0 .. Timeout
         /\ Window \in Nat \ {0} /\ Half \in Nat
         /\ Depth \in Nat \ {0} /\ Timeout \in Nat \ {0}
<1>1. Half \in Nat /\ Window \in Nat \ {0}
  BY WindowAssumption DEF Half
<1> QED BY <1>1, Horizons, DepthAssumption DEF TypeOK, Inputs

LEMMA Halves ==
  ASSUME NEW a \in Nat, NEW b \in Nat, a <= b
  PROVE  a \div 2 \in Nat /\ b \div 2 \in Nat /\ a \div 2 <= b \div 2
  OBVIOUS

LEMMA InitIsRecent == Init => RecentInv
<1> SUFFICES ASSUME Init PROVE RecentInv
  OBVIOUS
<1>1. Standing /\ BaseIsSeen /\ StableIsSeen
  BY DEF Init, Standing, BaseIsSeen, StableIsSeen
<1>2. DOMAIN samples = {} /\ DOMAIN poses = {} /\ DOMAIN stabs = {}
  BY DEF Init
<1> QED BY <1>1, <1>2 DEF RecentInv, SamplesAreSeen, PosesAreSeen, FlagsAreSeen

\* The flags after a frame, and the age of the stable flag that was heard.
LEMMA FlagsStaySeen ==
  ASSUME TypeOK, TypeOK', FlagsAreSeen, StableIsSeen, FramePasses,
         NEW d \in BOOLEAN, NEW s \in BOOLEAN, PublishFlags(d, s)
  PROVE  FlagsAreSeen' /\ StableIsSeen'
<1>0. stabs' = KeepLast(stabs, s, Depth)
  BY DEF PublishFlags, Publish
<1>1. since \in Nat /\ since' \in Nat /\ since' <= since + 1 /\ (s => since' = 0)
  <2>1. since' = IF s THEN 0 ELSE IF since < FlagHorizon THEN since + 1 ELSE since
    BY DEF PublishFlags
  <2>2. since \in Nat
    BY Numbers
  <2> QED BY <2>1, <2>2, Horizons
<1>2. \A i \in DOMAIN stabs' :
        \/ stabs'[i] = s
        \/ \E j \in DOMAIN stabs : stabs'[i] = stabs[j] /\ Len(stabs) - j + 1 = Len(stabs') - i
  <2>1. stabs \in Seq(BOOLEAN) /\ Len(stabs) <= Depth /\ Depth \in Nat \ {0}
    BY Numbers DEF TypeOK
  <2>2. \A i \in DOMAIN KeepLast(stabs, s, Depth) :
          \/ KeepLast(stabs, s, Depth)[i] = s
          \/ \E j \in DOMAIN stabs :
               /\ KeepLast(stabs, s, Depth)[i] = stabs[j]
               /\ Len(stabs) - j + 1 = Len(KeepLast(stabs, s, Depth)) - i
    <3> DEFINE Flags == BOOLEAN
    <3>1. stabs \in Seq(Flags) /\ Len(stabs) <= Depth /\ Depth \in Nat \ {0} /\ s \in Flags
      BY <2>1
    <3> HIDE DEF Flags
    <3> QED BY <3>1, KeepLastKeeps
  <2>3. SUFFICES ASSUME NEW i \in DOMAIN stabs'
                 PROVE  \/ stabs'[i] = s
                        \/ \E j \in DOMAIN stabs : /\ stabs'[i] = stabs[j]
                                                   /\ Len(stabs) - j + 1 = Len(stabs') - i
    OBVIOUS
  <2>4. i \in DOMAIN KeepLast(stabs, s, Depth)
    BY <1>0, <2>3, Zenon
  <2>5. CASE KeepLast(stabs, s, Depth)[i] = s
    BY <1>0, <2>5, Zenon
  <2>6. ASSUME NEW j \in DOMAIN stabs, KeepLast(stabs, s, Depth)[i] = stabs[j],
               Len(stabs) - j + 1 = Len(KeepLast(stabs, s, Depth)) - i
        PROVE  \E m \in DOMAIN stabs : stabs'[i] = stabs[m] /\ Len(stabs) - m + 1 = Len(stabs') - i
    BY <1>0, <2>6, Zenon
  <2> QED BY <2>2, <2>4, <2>5, <2>6, Zenon
<1>3. FlagsAreSeen'
  <2>1. SUFFICES ASSUME NEW i \in DOMAIN stabs', stabs'[i] PROVE since' <= Len(stabs') - i
    BY DEF FlagsAreSeen
  <2>2. Len(stabs') \in Nat /\ i \in 1 .. Len(stabs') /\ Len(stabs) \in Nat
    BY DEF TypeOK
  <2>3. CASE stabs'[i] = s
    BY <1>1, <2>1, <2>2, <2>3
  <2>4. ASSUME NEW j \in DOMAIN stabs, stabs'[i] = stabs[j], Len(stabs) - j + 1 = Len(stabs') - i
        PROVE  since' <= Len(stabs') - i
    <3>1. since <= Len(stabs) - j
      BY <2>1, <2>4 DEF FlagsAreSeen
    <3>2. j \in Nat
      <4>1. stabs \in Seq(BOOLEAN)
        BY DEF TypeOK
      <4> QED BY <2>4, <4>1
    <3>3. Len(stabs) - j + 1 = Len(stabs') - i
      BY <2>4
    <3> QED BY <1>1, <2>2, <3>1, <3>2, <3>3
  <2> QED BY <1>2, <2>3, <2>4
<1>4. StableIsSeen'
  <2>1. SUFFICES ASSUME stable', left'["stable"] > 0
                 PROVE  since' <= (Depth - 1) + Timeout - left'["stable"]
    BY DEF StableIsSeen
  <2>2. stable /\ left["stable"] > 0 /\ left'["stable"] = left["stable"] - 1
    BY <2>1, Numbers DEF FramePasses, Inputs
  <2>3. since <= (Depth - 1) + Timeout - left["stable"]
    BY <2>2 DEF StableIsSeen
  <2> QED BY <1>1, <2>2, <2>3, Numbers
<1> QED BY <1>3, <1>4

\* A frame without a pose: nothing is seen, and what was heard ages.
LEMMA BlindKeepsRecent ==
  ASSUME TypeOK, TypeOK', RecentInv, Blind
  PROVE  RecentInv'
<1>1. Standing'
  BY OthersKeepStanding DEF RecentInv, Blind, FramePasses
<1>2. FlagsAreSeen' /\ StableIsSeen'
  BY FlagsStaySeen DEF RecentInv, Blind
<1>3. SamplesAreSeen'
  <2>1. CASE samples' = samples
    BY <2>1 DEF RecentInv, SamplesAreSeen, Blind
  <2>2. CASE samples' = <<>>
    BY <2>2 DEF SamplesAreSeen
  <2> QED BY <2>1, <2>2 DEF Blind
<1>4. PosesAreSeen'
  BY DEF RecentInv, PosesAreSeen, SeenWithin, Blind
<1>5. BaseIsSeen'
  <2>1. SUFFICES ASSUME transformed', left'["pose"] > 0
                 PROVE  Within(ago', base', Half + (Depth - 1) + Timeout - left'["pose"])
    BY DEF BaseIsSeen, SeenWithin, Within
  <2>2. /\ transformed /\ base' = base /\ ago' = ago
        /\ left["pose"] > 0 /\ left'["pose"] = left["pose"] - 1
    BY <2>1, Numbers DEF Blind, FramePasses, Inputs
  <2>3. Within(ago, base, Half + (Depth - 1) + Timeout - left["pose"])
    BY <2>2 DEF RecentInv, BaseIsSeen, SeenWithin, Within
  <2> DEFINE n == Half + (Depth - 1) + Timeout - left["pose"]
             m == Half + (Depth - 1) + Timeout - left'["pose"]
  <2>4. n \in Int /\ m \in Int /\ n <= m
    BY <2>2, Numbers
  <2>5. Within(ago, base, n)
    BY <2>3
  <2> HIDE DEF n, m
  <2>6. Within(ago, base, m)
    BY <2>4, <2>5, LongerAgo, Numbers
  <2> QED BY <2>2, <2>6 DEF m
<1> QED BY <1>1, <1>2, <1>3, <1>4, <1>5 DEF RecentInv

\* A detection: its place is seen now, and its median follows the newer half.
LEMMA DetectedKeepsRecent ==
  ASSUME TypeOK, TypeOK', RecentInv, NEW p \in Places, NEW steady \in BOOLEAN, Detected(p, steady)
  PROVE  RecentInv'
<1>0. /\ FramePasses /\ samples' = KeepLast(samples, p, Window)
      /\ poses' = KeepLast(poses, Median(samples'), Depth)
      /\ PublishFlags(TRUE, steady /\ StableWindow(samples'))
  BY DEF Detected, Push, Publish
<1>1. /\ ago \in [Places -> Nat] /\ ago' \in [Places -> Nat]
      /\ ago'[p] = 0 /\ \A q \in Places : ago'[q] <= ago[q] + 1
  <2>1. ago \in [Places -> Nat]
    BY Numbers
  <2>2. ago' \in [Places -> Nat]
    BY <2>1 DEF Detected
  <2> QED BY <2>1, <2>2 DEF Detected
<1>2. Standing'
  BY <1>0, OthersKeepStanding DEF RecentInv, FramePasses
<1>3. FlagsAreSeen' /\ StableIsSeen'
  <2>1. (steady /\ StableWindow(samples')) \in BOOLEAN
    BY DEF StableWindow
  <2> QED BY <1>0, <2>1, FlagsStaySeen DEF RecentInv
<1>4. /\ samples' \in Seq(Places) /\ samples' # <<>> /\ Len(samples') <= Window
      /\ \A i \in DOMAIN samples' :
           \/ samples'[i] = p
           \/ \E j \in DOMAIN samples :
                samples'[i] = samples[j] /\ Len(samples) - j + 1 = Len(samples') - i
  <2>1. samples \in Seq(Places) /\ Len(samples) <= Window /\ Window \in Nat \ {0}
    BY Numbers DEF TypeOK
  <2> QED BY <1>0, <2>1, KeepLastKeeps
<1>5. SamplesAreSeen'
  <2>1. SUFFICES ASSUME NEW i \in DOMAIN samples' PROVE ago'[samples'[i]] <= Len(samples') - i
    BY DEF SamplesAreSeen
  <2>2. Len(samples') \in Nat /\ i \in 1 .. Len(samples')
    BY <1>4
  <2>3. CASE samples'[i] = p
    BY <1>1, <2>2, <2>3
  <2>4. ASSUME NEW j \in DOMAIN samples,
               samples'[i] = samples[j], Len(samples) - j + 1 = Len(samples') - i
        PROVE  ago'[samples'[i]] <= Len(samples') - i
    <3>1. ago[samples[j]] <= Len(samples) - j
      BY <2>4 DEF RecentInv, SamplesAreSeen
    <3>2. samples[j] \in Places /\ j \in Nat /\ Len(samples) \in Nat
      <4>1. samples \in Seq(Places)
        BY DEF TypeOK
      <4> QED BY <2>4, <4>1
    <3>3. ago'[samples[j]] <= ago[samples[j]] + 1 /\ ago[samples[j]] \in Nat /\ ago'[samples[j]] \in Nat
      BY <1>1, <3>2
    <3> QED BY <2>2, <2>4, <3>1, <3>2, <3>3
  <2> QED BY <1>4, <2>3, <2>4
<1>6. Within(ago', Median(samples'), Half)
  <2> DEFINE s == samples'
  <2>1. PICK i, j \in DOMAIN s :
          /\ Len(s) - i <= Len(s) \div 2 /\ Len(s) - j <= Len(s) \div 2
          /\ s[i] <= Median(s) /\ Median(s) <= s[j]
    BY <1>4, MedianFollows
  <2>2. ago'[s[i]] <= Len(s) - i /\ ago'[s[j]] <= Len(s) - j
    BY <1>5, <2>1 DEF SamplesAreSeen
  <2>3. s[i] \in Places /\ s[j] \in Places /\ i \in Nat /\ j \in Nat /\ Len(s) \in Nat
    BY <1>4, <2>1
  <2>4. Len(s) \div 2 <= Half /\ Len(s) \div 2 \in Nat /\ Half \in Nat
    <3>1. Len(s) <= Window /\ Window \in Nat
      BY <1>4, Numbers
    <3> HIDE DEF s
    <3> QED BY <2>3, <3>1, Halves DEF Half
  <2>5. ago'[s[i]] \in Nat /\ ago'[s[j]] \in Nat
    BY <1>1, <2>3
  <2> HIDE DEF s
  <2>6. ago'[s[i]] <= Half /\ ago'[s[j]] <= Half
    BY <2>1, <2>2, <2>3, <2>4, <2>5
  <2>7. Within(ago', Median(s), Half)
    BY <2>1, <2>3, <2>6 DEF Within
  <2> QED BY <2>7 DEF s
<1>7. PosesAreSeen'
  <2>1. SUFFICES ASSUME NEW i \in DOMAIN poses'
                 PROVE  Within(ago', poses'[i], Half + Len(poses') - i)
    BY DEF PosesAreSeen, SeenWithin, Within
  <2>2. \/ poses'[i] = Median(samples')
        \/ \E j \in DOMAIN poses : poses'[i] = poses[j] /\ Len(poses) - j + 1 = Len(poses') - i
    <3>1. poses \in Seq(Between) /\ Len(poses) <= Depth /\ Depth \in Nat \ {0}
      BY Numbers DEF TypeOK
    <3>2. Median(samples') \in Between
      BY <1>4, MedianIsBetween
    <3> QED BY <1>0, <2>1, <3>1, <3>2, KeepLastKeeps
  <2>3. Len(poses') \in Nat /\ i \in 1 .. Len(poses') /\ Half \in Nat
    <3>1. poses' \in Seq(Between)
      BY DEF TypeOK
    <3> QED BY <2>1, <3>1, Numbers
  <2>4. CASE poses'[i] = Median(samples')
    <3> DEFINE x == poses'[i]
               m == Half + Len(poses') - i
    <3>1. Within(ago', x, Half)
      BY <1>6, <2>4
    <3>2. m \in Int /\ Half \in Int /\ Half <= m
      BY <2>3
    <3> HIDE DEF x, m
    <3>3. Within(ago', x, m)
      BY <1>1, <3>1, <3>2, LongerAgo
    <3> QED BY <3>3 DEF x, m
  <2>5. ASSUME NEW j \in DOMAIN poses, poses'[i] = poses[j], Len(poses) - j + 1 = Len(poses') - i
        PROVE  Within(ago', poses'[i], Half + Len(poses') - i)
    <3> DEFINE x == poses[j]
               n == Half + Len(poses) - j
               m == Half + Len(poses') - i
    <3>1. Within(ago, x, n)
      BY <2>5 DEF RecentInv, PosesAreSeen, SeenWithin, Within
    <3>2. Len(poses) \in Nat /\ j \in Nat
      BY <2>5 DEF TypeOK
    <3>3. n \in Int /\ m \in Int /\ n + 1 <= m
      BY <2>3, <2>5, <3>2
    <3> HIDE DEF x, n, m
    <3>4. Within(ago', x, m)
      BY <1>1, <3>1, <3>3, OneLater
    <3> QED BY <2>5, <3>4 DEF x, m
  <2> QED BY <2>2, <2>4, <2>5
<1>8. BaseIsSeen'
  <2>1. SUFFICES ASSUME transformed', left'["pose"] > 0
                 PROVE  Within(ago', base', Half + (Depth - 1) + Timeout - left'["pose"])
    BY DEF BaseIsSeen, SeenWithin, Within
  <2>2. /\ transformed /\ base' = base
        /\ left["pose"] > 0 /\ left'["pose"] = left["pose"] - 1
    BY <1>0, <2>1, Numbers DEF FramePasses, Inputs
  <2> DEFINE n == Half + (Depth - 1) + Timeout - left["pose"]
             m == Half + (Depth - 1) + Timeout - left'["pose"]
  <2>3. Within(ago, base, n)
    BY <2>2 DEF RecentInv, BaseIsSeen, SeenWithin, Within
  <2>4. n \in Int /\ m \in Int /\ n + 1 <= m
    BY <2>2, Numbers
  <2> HIDE DEF n, m
  <2>5. Within(ago', base, m)
    BY <1>1, <2>3, <2>4, OneLater
  <2> QED BY <2>2, <2>5 DEF m
<1> QED BY <1>2, <1>3, <1>5, <1>7, <1>8 DEF RecentInv

\* Time without frames, and the ages.
LEMMA AgingKeepsRecent ==
  ASSUME TypeOK, RecentInv,
         UNCHANGED <<samples, topics, detected, stable, transformed, base, passed, history>>,
         left' = left \/ \E i \in Inputs : left' = [left EXCEPT ![i] = 0]
  PROVE  RecentInv'
<1>1. Standing'
  BY OthersKeepStanding DEF RecentInv
<1>2. SamplesAreSeen' /\ PosesAreSeen' /\ FlagsAreSeen'
  BY DEF RecentInv, SamplesAreSeen, PosesAreSeen, SeenWithin, FlagsAreSeen, topics, history
<1>3. /\ left'["pose"] > 0 => left'["pose"] = left["pose"]
      /\ left'["stable"] > 0 => left'["stable"] = left["stable"]
  BY DEF TypeOK, Inputs
<1>4. BaseIsSeen'
  BY <1>3 DEF RecentInv, BaseIsSeen, SeenWithin, history
<1>5. StableIsSeen'
  BY <1>3 DEF RecentInv, StableIsSeen, history
<1> QED BY <1>1, <1>2, <1>4, <1>5 DEF RecentInv

LEMMA HearingKeepsRecent ==
  ASSUME TypeOK, RecentInv, HandlePose \/ HandleDetected \/ HandleStable
  PROVE  RecentInv'
<1>0. Standing'
  BY TransformKeepsStanding DEF RecentInv
<1>1. ASSUME HandlePose PROVE RecentInv'
  <2>1. /\ poses # <<>> /\ poses' = Tail(poses) /\ left' = [left EXCEPT !["pose"] = Timeout]
        /\ UNCHANGED <<samples, stabs, stable, ago, since>>
    BY <1>1 DEF HandlePose, Hears, camera, history
  <2>2. /\ Len(poses') = Len(poses) - 1 /\ 1 \in DOMAIN poses /\ Head(poses) = poses[1]
        /\ \A i \in DOMAIN poses' : i + 1 \in DOMAIN poses /\ poses'[i] = poses[i + 1]
    BY <2>1, TopicTaken DEF TypeOK
  <2>3. SamplesAreSeen' /\ FlagsAreSeen'
    BY <2>1 DEF RecentInv, SamplesAreSeen, FlagsAreSeen
  <2>4. PosesAreSeen'
    <3>1. SUFFICES ASSUME NEW i \in DOMAIN poses'
                   PROVE  Within(ago, poses'[i], Half + Len(poses') - i)
      BY <2>1 DEF PosesAreSeen, SeenWithin, Within
    <3>2. Within(ago, poses[i + 1], Half + Len(poses) - (i + 1))
      BY <2>2, <3>1 DEF RecentInv, PosesAreSeen, SeenWithin, Within
    <3>3. Len(poses) \in Nat /\ i + 1 \in DOMAIN poses /\ i \in Int
      BY <2>1, <2>2, <3>1, TopicTaken DEF TypeOK
    <3>4. Half + Len(poses) - (i + 1) = Half + Len(poses') - i
      BY <2>2, <3>3, Numbers
    <3> QED BY <2>2, <3>1, <3>2, <3>4
  <2>5. StableIsSeen'
    BY <2>1 DEF RecentInv, StableIsSeen, TypeOK, Inputs
  <2>6. BaseIsSeen'
    <3>1. SUFFICES ASSUME transformed'
                   PROVE  Within(ago, base', Half + (Depth - 1) + Timeout - left'["pose"])
      BY <2>1 DEF BaseIsSeen, SeenWithin, Within
    <3>2. base' = poses[1]
      BY <1>1, <2>2, <3>1 DEF HandlePose, Pass, RecentInv, Standing
    <3>3. left'["pose"] = Timeout
      BY <2>1 DEF TypeOK, Inputs
    <3> DEFINE x == poses[1]
               n == Half + Len(poses) - 1
               m == Half + (Depth - 1) + Timeout - left'["pose"]
    <3>4. Within(ago, x, n)
      BY <2>2 DEF RecentInv, PosesAreSeen, SeenWithin, Within
    <3>5. Len(poses) \in Nat /\ Len(poses) <= Depth
      BY DEF TypeOK
    <3>6. n \in Int /\ m \in Int /\ n <= m
      BY <3>3, <3>5, Numbers
    <3> HIDE DEF x, n, m
    <3>7. Within(ago, x, m)
      BY <3>4, <3>6, LongerAgo, Numbers
    <3> QED BY <3>2, <3>7 DEF x, m
  <2> QED BY <1>0, <2>3, <2>4, <2>5, <2>6 DEF RecentInv
<1>2. ASSUME HandleDetected PROVE RecentInv'
  <2>1. /\ left' = [left EXCEPT !["detected"] = Timeout] /\ (transformed' => transformed)
        /\ UNCHANGED <<samples, poses, stabs, stable, base, ago, since>>
    BY <1>2 DEF HandleDetected, Hears, camera, history
  <2>2. left'["pose"] = left["pose"] /\ left'["stable"] = left["stable"]
    BY <2>1 DEF TypeOK, Inputs
  <2>3. SamplesAreSeen' /\ PosesAreSeen' /\ FlagsAreSeen'
    BY <2>1 DEF RecentInv, SamplesAreSeen, PosesAreSeen, SeenWithin, FlagsAreSeen
  <2>4. BaseIsSeen' /\ StableIsSeen'
    BY <2>1, <2>2 DEF RecentInv, BaseIsSeen, SeenWithin, StableIsSeen
  <2> QED BY <1>0, <2>3, <2>4 DEF RecentInv
<1>3. ASSUME HandleStable PROVE RecentInv'
  <2>1. /\ stabs # <<>> /\ stabs' = Tail(stabs) /\ stable' = Head(stabs)
        /\ left' = [left EXCEPT !["stable"] = Timeout] /\ (transformed' => transformed)
        /\ UNCHANGED <<samples, poses, base, ago, since>>
    BY <1>3 DEF HandleStable, Hears, camera, history
  <2>2. left'["pose"] = left["pose"] /\ left'["stable"] = Timeout
    BY <2>1 DEF TypeOK, Inputs
  <2>3. /\ Len(stabs') = Len(stabs) - 1 /\ 1 \in DOMAIN stabs /\ Head(stabs) = stabs[1]
        /\ \A i \in DOMAIN stabs' : i + 1 \in DOMAIN stabs /\ stabs'[i] = stabs[i + 1]
    <3>1. stabs \in Seq(BOOLEAN) /\ stabs # <<>>
      BY <2>1 DEF TypeOK
    <3> QED BY <2>1, <3>1, TopicTaken, Zenon
  <2>4. FlagsAreSeen'
    <3>1. SUFFICES ASSUME NEW i \in DOMAIN stabs', stabs'[i] PROVE since <= Len(stabs') - i
      BY <2>1 DEF FlagsAreSeen
    <3>2. since <= Len(stabs) - (i + 1) /\ i + 1 \in DOMAIN stabs
      BY <2>3, <3>1 DEF RecentInv, FlagsAreSeen
    <3>3. Len(stabs) \in Nat /\ i \in Int
      <4>1. DOMAIN stabs' = 1 .. Len(stabs') /\ Len(stabs') \in Nat
        BY <2>1 DEF TypeOK
      <4> QED BY <3>1, <4>1 DEF TypeOK
    <3> QED BY <2>3, <3>2, <3>3, Numbers
  <2>5. StableIsSeen'
    <3>1. SUFFICES ASSUME stable' PROVE since <= (Depth - 1) + Timeout - left'["stable"]
      BY <2>1 DEF StableIsSeen
    <3>2. since <= Len(stabs) - 1
      BY <2>1, <2>3, <3>1 DEF RecentInv, FlagsAreSeen
    <3>3. Len(stabs) \in Nat /\ Len(stabs) <= Depth
      BY DEF TypeOK
    <3> QED BY <2>2, <3>2, <3>3, Numbers
  <2>6. SamplesAreSeen' /\ PosesAreSeen'
    BY <2>1 DEF RecentInv, SamplesAreSeen, PosesAreSeen, SeenWithin
  <2>7. BaseIsSeen'
    BY <2>1, <2>2 DEF RecentInv, BaseIsSeen, SeenWithin
  <2> QED BY <1>0, <2>4, <2>5, <2>6, <2>7 DEF RecentInv
<1> QED BY <1>1, <1>2, <1>3

LEMMA NextKeepsRecent ==
  ASSUME TypeOK, TypeOK', RecentInv, [Next]_vars
  PROVE  RecentInv'
<1>1. ASSUME ProcessFrame PROVE RecentInv'
  <2>1. ASSUME ReadFails \/ NotDetected \/ GeometryRejected PROVE RecentInv'
    BY <2>1, BlindFrames, BlindKeepsRecent
  <2>2. ASSUME NEW p \in Places, NEW steady \in BOOLEAN, Detected(p, steady) PROVE RecentInv'
    BY <2>2, DetectedKeepsRecent
  <2> QED BY <1>1, <2>1, <2>2 DEF ProcessFrame
<1>2. ASSUME DetectionAges PROVE RecentInv'
  BY <1>2, AgingKeepsRecent DEF DetectionAges, transform
<1>3. ASSUME HandlePose \/ HandleDetected \/ HandleStable PROVE RecentInv'
  BY <1>3, HearingKeepsRecent
<1>4. ASSUME \E i \in Inputs : InputAges(i) PROVE RecentInv'
  BY <1>4, AgingKeepsRecent DEF InputAges, camera
<1>5. ASSUME UNCHANGED vars PROVE RecentInv'
  BY <1>5, AgingKeepsRecent DEF vars, camera, transform
<1> QED BY <1>1, <1>2, <1>3, <1>4, <1>5 DEF Next, Transform

\* Whatever the window, the topics and the transform node hold is as old as its
\* position and its remaining age tell, at most.
THEOREM RecentInvariant == Spec => []RecentInv
<1>1. Init => RecentInv
  BY InitIsRecent
<1>2. TypeOK /\ TypeOK' /\ RecentInv /\ [Next]_vars => RecentInv'
  BY NextKeepsRecent
<1> QED BY <1>1, <1>2, PoseTypeCorrect, PTL DEF Spec

\* A pose that is reported valid lies among the places where the object was seen
\* in the last Horizon detections, and one of the last FlagHorizon frames was
\* called stable: nothing is assumed of when messages are heard.
THEOREM ValidPoseIsRecentHolds == Spec => []ValidPoseIsRecent
<1>1. ASSUME TypeOK, RecentInv PROVE ValidPoseIsRecent
  <2>1. SUFFICES ASSUME Valid PROVE SeenWithin(base, Horizon - 1) /\ since < FlagHorizon
    BY DEF ValidPoseIsRecent
  <2>2. transformed /\ stable /\ left["pose"] > 0 /\ left["stable"] > 0
    BY <2>1 DEF Valid, Inputs
  <2>3. since <= (Depth - 1) + Timeout - left["stable"]
    BY <1>1, <2>2 DEF RecentInv, StableIsSeen
  <2>4. since < FlagHorizon
    BY <1>1, <2>2, <2>3, Numbers DEF FlagHorizon
  <2> DEFINE n == Half + (Depth - 1) + Timeout - left["pose"]
             m == Horizon - 1
  <2>5. Within(ago, base, n)
    BY <1>1, <2>2 DEF RecentInv, BaseIsSeen, SeenWithin, Within
  <2>6. n \in Int /\ m \in Int /\ n <= m
    BY <1>1, <2>2, Numbers DEF Horizon
  <2> HIDE DEF n, m
  <2>7. Within(ago, base, m)
    BY <1>1, <2>5, <2>6, LongerAgo, Numbers
  <2>8. SeenWithin(base, Horizon - 1)
    BY <2>7 DEF SeenWithin, Within, m
  <2> QED BY <2>4, <2>8
<1> QED BY <1>1, PoseTypeCorrect, RecentInvariant, PTL
=============================================================================
