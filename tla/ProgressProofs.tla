--------------------------- MODULE ProgressProofs ---------------------------
(* Proofs about Progress, for a scale of any length, any number of ranges   *)
(* and scopes, and both laws.                                               *)
EXTENDS Progress, FiniteSetTheorems, TLAPS

-----------------------------------------------------------------------------
(* Rounding down.                                                          *)

LEMMA DivBounds ==
    ASSUME NEW a \in Nat, NEW b \in Nat \ {0}
    PROVE  /\ a \div b \in Nat
           /\ b * (a \div b) <= a
           /\ a < b * (a \div b) + b
  OBVIOUS

LEMMA TimesMonotone ==
    ASSUME NEW a \in Nat, NEW b \in Nat, NEW c \in Nat, a <= b
    PROVE  c * a <= c * b
  OBVIOUS

LEMMA DivAtLeast ==
    ASSUME NEW a \in Nat, NEW b \in Nat \ {0}, NEW q \in Nat, b * q <= a
    PROVE  q <= a \div b
<1>1. PICK d \in Nat : d = a \div b BY DivBounds
<1>2. a < b * d + b BY DivBounds, <1>1
<1>3. ASSUME d + 1 <= q PROVE FALSE
  <2>1. b * (d + 1) <= b * q BY <1>3, TimesMonotone
  <2>2. b * (d + 1) = b * d + b OBVIOUS
  <2> QED BY <1>2, <2>1, <2>2
<1> QED BY <1>1, <1>3

LEMMA DivAtMost ==
    ASSUME NEW a \in Nat, NEW b \in Nat \ {0}, NEW c \in Nat, a <= b * c
    PROVE  a \div b <= c
<1>1. PICK d \in Nat : d = a \div b BY DivBounds
<1>2. b * d <= a BY DivBounds, <1>1
<1>3. ASSUME c + 1 <= d PROVE FALSE
  <2>1. b * (c + 1) <= b * d BY <1>3, TimesMonotone
  <2>2. b * (c + 1) = b * c + b OBVIOUS
  <2> QED BY <1>2, <2>1, <2>2
<1> QED BY <1>1, <1>3

-----------------------------------------------------------------------------
(* The two laws.                                                           *)

\* A local position is within the scope's portion.
LEMMA LocalBounds ==
    ASSUME NEW s \in ScopeType, NEW v \in Nat
    PROVE  localToGlobal(s, v) \in 0 .. s.portion
<1>1. /\ s.portion \in Nat /\ s.max \in Nat \ {0}
      /\ s.infinite \in BOOLEAN
  BY ProgressAssumption DEF ScopeType
<1>2. PICK p \in Nat, m \in Nat \ {0} : p = s.portion /\ m = s.max BY <1>1
<1>3. CASE s.infinite
  <2>1. p * v \in Nat /\ v + m \in Nat \ {0} OBVIOUS
  <2>2. p * v <= (v + m) * p BY TimesMonotone
  <2>3. (p * v) \div (v + m) \in 0 .. p BY <2>1, <2>2, DivBounds, DivAtMost
  <2> QED BY <1>2, <1>3, <2>3 DEF localToGlobal
<1>4. CASE ~s.infinite /\ v >= m BY <1>2, <1>4 DEF localToGlobal
<1>5. CASE ~s.infinite /\ ~(v >= m)
  <2>1. p * v \in Nat OBVIOUS
  <2>2. p * v <= p * m BY <1>5, TimesMonotone
  <2>3. p * v <= m * p BY <2>2
  <2>4. (p * v) \div m \in 0 .. p BY <2>1, <2>3, DivBounds, DivAtMost
  <2> QED BY <1>2, <1>5, <2>4 DEF localToGlobal
<1> QED BY <1>1, <1>2, <1>3, <1>4, <1>5

\* It starts at the scope's start.
LEMMA LocalStart ==
    ASSUME NEW s \in ScopeType
    PROVE  localToGlobal(s, 0) = 0
<1>1. /\ s.portion \in Nat /\ s.max \in Nat \ {0}
      /\ s.infinite \in BOOLEAN
  BY ProgressAssumption DEF ScopeType
<1>2. PICK p \in Nat, m \in Nat \ {0} : p = s.portion /\ m = s.max BY <1>1
<1>3. p * 0 = 0 /\ 0 + m = m OBVIOUS
<1>4. 0 \div m <= 0
  <2>1. 0 <= m * 0 OBVIOUS
  <2> QED BY <2>1, DivAtMost
<1>5. 0 \div m \in Nat BY DivBounds
<1>6. 0 \div m = 0 BY <1>4, <1>5
<1>7. (p * 0) \div (0 + m) = 0 /\ (p * 0) \div m = 0 BY <1>3, <1>6
<1>8. ~(0 >= m) OBVIOUS
<1>9. CASE s.infinite BY <1>2, <1>7, <1>9 DEF localToGlobal
<1>10. CASE ~s.infinite BY <1>2, <1>7, <1>8, <1>10 DEF localToGlobal
<1> QED BY <1>9, <1>10

\* It never goes back: a step of either law, past the maximum too, is a part
\* that is not negative.
LEMMA LocalMonotone ==
    ASSUME NEW s \in ScopeType, NEW v \in Nat, NEW w \in Nat, v <= w
    PROVE  localToGlobal(s, v) <= localToGlobal(s, w)
<1>1. /\ s.portion \in Nat /\ s.max \in Nat \ {0}
      /\ s.infinite \in BOOLEAN
  BY ProgressAssumption DEF ScopeType
<1>2. PICK p \in Nat, m \in Nat \ {0} : p = s.portion /\ m = s.max BY <1>1
<1>3. CASE s.infinite
  <2>1. p * v \in Nat /\ p * w \in Nat /\ v + m \in Nat \ {0} /\ w + m \in Nat \ {0}
    OBVIOUS
  <2>2. PICK q \in Nat : q = (p * v) \div (v + m) BY <2>1, DivBounds
  <2>3. (v + m) * q <= p * v BY <2>1, <2>2, DivBounds
  <2>4. q <= p
    <3>1. p * v <= (v + m) * p BY TimesMonotone
    <3> QED BY <2>1, <2>2, <3>1, DivAtMost
  <2>5. PICK d \in Nat : w = v + d
    <3>1. w - v \in Nat /\ w = v + (w - v) OBVIOUS
    <3> QED BY <3>1
  <2>6. d * q <= d * p BY <2>4, TimesMonotone
  <2>7. (w + m) * q = (v + m) * q + d * q BY <2>5
  <2>8. p * w = p * v + d * p BY <2>5
  <2>9. (w + m) * q <= p * w BY <2>3, <2>6, <2>7, <2>8
  <2>10. q <= (p * w) \div (w + m) BY <2>1, <2>9, DivAtLeast
  <2> QED BY <1>2, <1>3, <2>2, <2>10 DEF localToGlobal
<1>4. CASE ~s.infinite /\ w >= m
  <2>1. localToGlobal(s, w) = p BY <1>2, <1>4 DEF localToGlobal
  <2>2. localToGlobal(s, v) \in 0 .. p BY <1>2, LocalBounds
  <2> QED BY <2>1, <2>2
<1>5. CASE ~s.infinite /\ ~(w >= m)
  <2>1. p * v \in Nat /\ p * w \in Nat OBVIOUS
  <2>2. PICK q \in Nat : q = (p * v) \div m BY <2>1, DivBounds
  <2>3. m * q <= p * v BY <2>1, <2>2, DivBounds
  <2>4. p * v <= p * w BY TimesMonotone
  <2>5. m * q <= p * w BY <2>1, <2>3, <2>4
  <2>6. q <= (p * w) \div m BY <2>1, <2>5, DivAtLeast
  <2> QED BY <1>2, <1>5, <2>2, <2>6 DEF localToGlobal
<1> QED BY <1>1, <1>2, <1>3, <1>4, <1>5

-----------------------------------------------------------------------------
(* Places.                                                                 *)

LEMMA TakenAway ==
    ASSUME NEW S, IsFiniteSet(S), NEW P \in SUBSET S
    PROVE  /\ Cardinality(S \ P) \in Nat /\ Cardinality(P) \in Nat
           /\ Cardinality(S \ P) + Cardinality(P) = Cardinality(S)
<1>1. IsFiniteSet(P) /\ IsFiniteSet(S \ P) BY FS_Subset
<1>2. (S \ P) \cup P = S /\ (S \ P) \cap P = {} OBVIOUS
<1>3. Cardinality({}) = 0 BY FS_EmptySet
<1>4. Cardinality(S \ P) \in Nat /\ Cardinality(P) \in Nat BY <1>1, FS_CardinalityType
<1>5. Cardinality((S \ P) \cup P)
        = Cardinality(S \ P) + Cardinality(P) - Cardinality((S \ P) \cap P)
  BY <1>1, FS_Union
<1>6. Cardinality((S \ P) \cup P) = Cardinality(S) BY <1>2
<1>7. Cardinality((S \ P) \cap P) = 0 BY <1>2, <1>3
<1>8. Cardinality(S) = Cardinality(S \ P) + Cardinality(P) - 0 BY <1>5, <1>6, <1>7
<1> QED BY <1>4, <1>8

LEMMA PlacesCount ==
    ASSUME NEW a \in Int, NEW n \in Nat
    PROVE  Cardinality(a .. a + n - 1) = n
<1>1. Cardinality(a .. a + n - 1) = IF a > a + n - 1 THEN 0 ELSE (a + n - 1) - a + 1
  BY FS_Interval
<1> QED BY <1>1

-----------------------------------------------------------------------------
(* The invariant.                                                          *)

RangesApart == \A r, q \in Armed : r # q => RangePart(r) \cap RangePart(q) = {}
ScopesApart == \A s, t \in Active : s # t => ScopePart(s) \cap ScopePart(t) = {}
RangesOffScopes == \A r \in Armed, s \in Active : RangePart(r) \cap ScopePart(s) = {}

Apart == RangesApart /\ ScopesApart /\ RangesOffScopes

Objects ==
    /\ range \in [RangeSlots -> RangeType \cup {Nothing}]
    /\ scope \in [Scopes -> ScopeType \cup {Nothing}]
    /\ position \in Nat /\ dropped \in Nat

\* The root's scope is never closed; Start takes the whole scale out of it.
RootStays ==
    /\ scope[Root] \in ScopeType /\ scope[Root].active
    /\ scope[Root].start = 0 /\ scope[Root].portion = Whole
    /\ scope[Root].max = 1 /\ ~scope[Root].infinite

\* What is answered for is on the scale.
OnScale ==
    /\ \A r \in Armed : range[r].delta > 0 /\ range[r].start + range[r].delta <= Whole
    /\ \A s \in Active : scope[s].start + scope[s].portion <= Whole

Shape == Objects /\ RootStays /\ OnScale

ScaleInv == Shape /\ Apart /\ Conserved

LEMMA LiveObjects ==
    ASSUME Objects
    PROVE  /\ Live(range) = {r \in RangeSlots : range[r] # Nothing}
           /\ Live(scope) = {s \in Scopes : scope[s] # Nothing}
           /\ \A r \in Live(range) : range[r] \in RangeType
           /\ \A s \in Live(scope) : scope[s] \in ScopeType
           /\ \A r \in Armed : range[r] \in RangeType
           /\ Active \subseteq Scopes
           /\ \A s \in Active : scope[s] \in ScopeType
  BY DEF Objects, Live, Armed, Active, IsActive

LEMMA InAnswered ==
    \A p : p \in Answered <=> \/ \E r \in Armed : p \in RangePart(r)
                              \/ \E s \in Active : p \in ScopePart(s)
  BY DEF Answered

LEMMA AnsweredOnScale ==
    ASSUME Shape
    PROVE  /\ Answered \subseteq 0 .. Whole - 1
           /\ IsFiniteSet(Answered)
           /\ Cardinality(Answered) \in Nat
<1>1. ASSUME NEW r \in Armed, NEW p \in RangePart(r) PROVE p \in 0 .. Whole - 1
  <2>1. range[r] \in RangeType BY LiveObjects DEF Shape
  <2>2. range[r].start + range[r].delta <= Whole BY DEF Shape, OnScale
  <2>3. range[r].start \in Nat /\ range[r].delta \in Nat /\ Whole \in Nat
    BY <2>1, ProgressAssumption DEF RangeType
  <2> QED BY <2>2, <2>3 DEF RangePart
<1>2. ASSUME NEW s \in Active, NEW p \in ScopePart(s) PROVE p \in 0 .. Whole - 1
  <2>1. scope[s] \in ScopeType BY LiveObjects DEF Shape
  <2>2. scope[s].start + scope[s].portion <= Whole BY DEF Shape, OnScale
  <2>3. /\ scope[s].start \in Nat /\ scope[s].portion \in Nat /\ Whole \in Nat
        /\ scope[s].value \in Nat
    BY <2>1, ProgressAssumption DEF ScopeType
  <2>4. localToGlobal(scope[s], scope[s].value) \in Nat BY <2>1, <2>3, LocalBounds
  <2> QED BY <2>2, <2>3, <2>4 DEF ScopePart
<1>3. Answered \subseteq 0 .. Whole - 1 BY <1>1, <1>2, InAnswered
<1>4. IsFiniteSet(0 .. Whole - 1) BY FS_Interval, ProgressAssumption
<1>5. IsFiniteSet(Answered) BY <1>3, <1>4, FS_Subset
<1> QED BY <1>3, <1>5, FS_CardinalityType

\* What an armed range or an active scope answers for, counted.
LEMMA RangeAnswers ==
    ASSUME Shape, NEW r \in Armed
    PROVE  /\ RangePart(r) \in SUBSET Answered
           /\ range[r].delta \in Nat
           /\ Cardinality(RangePart(r)) = range[r].delta
<1>1. range[r] \in RangeType BY LiveObjects DEF Shape
<1>2. range[r].start \in Int /\ range[r].delta \in Nat
  BY <1>1, ProgressAssumption DEF RangeType
<1>3. Cardinality(RangePart(r)) = range[r].delta BY <1>2, PlacesCount DEF RangePart
<1> QED BY <1>2, <1>3, InAnswered

LEMMA ScopeAnswers ==
    ASSUME Shape, NEW s \in Active
    PROVE  /\ ScopePart(s) \in SUBSET Answered
           /\ Rest(scope[s]) \in Nat
           /\ Cardinality(ScopePart(s)) = Rest(scope[s])
<1>1. scope[s] \in ScopeType BY LiveObjects DEF Shape
<1>2. scope[s].start \in Nat /\ scope[s].portion \in Nat /\ scope[s].value \in Nat
  BY <1>1, ProgressAssumption DEF ScopeType
<1>3. PICK l \in 0 .. scope[s].portion : l = localToGlobal(scope[s], scope[s].value)
  BY <1>1, <1>2, LocalBounds
<1>4. PICK a \in Int, n \in Nat : a = scope[s].start + l /\ n = scope[s].portion - l
  BY <1>2
<1>5. Rest(scope[s]) = n BY <1>3, <1>4 DEF Rest
<1>6. ScopePart(s) = a .. a + n - 1
  <2>1. scope[s].start + scope[s].portion - 1 = a + n - 1 BY <1>2, <1>4
  <2> QED BY <1>3, <1>4, <2>1 DEF ScopePart
<1>7. Cardinality(ScopePart(s)) = n BY <1>6, PlacesCount
<1> QED BY <1>5, <1>7, InAnswered

\* What is handed over keeps the scale whole, ...
LEMMA HandedOver ==
    ASSUME Conserved, Answered' = Answered, UNCHANGED <<position, dropped>>
    PROVE  Conserved'
<1>1. Cardinality(Answered)' = Cardinality(Answered) OBVIOUS
<1> QED BY <1>1 DEF Conserved

\* ... and what no object answers for any more has to be on the indicator or
\* be dropped.
LEMMA GivenUp ==
    ASSUME Shape, Shape', Conserved, NEW P \in SUBSET Answered, Answered' = Answered \ P,
           position' + dropped' = position + dropped + Cardinality(P)
    PROVE  Conserved'
<1>1. IsFiniteSet(Answered) BY AnsweredOnScale
<1>2. PICK n \in Nat, k \in Nat, m \in Nat :
          /\ n = Cardinality(Answered) /\ k = Cardinality(P) /\ m = Cardinality(Answered \ P)
          /\ m + k = n
  BY <1>1, TakenAway, AnsweredOnScale
<1>3. Cardinality(Answered') = m BY <1>2
<1>4. /\ position \in Nat /\ dropped \in Nat /\ position' \in Nat /\ dropped' \in Nat
      /\ Whole \in Nat
  BY ProgressAssumption DEF Shape, Objects
<1>5. position + n + dropped = Whole BY <1>2 DEF Conserved
<1>6. position' + dropped' = position + dropped + k BY <1>2
<1>7. position' + m + dropped' = Whole BY <1>2, <1>4, <1>5, <1>6
<1> QED BY <1>3, <1>7 DEF Conserved

\* Increment never cuts the indicator off at the end of the scale.
LEMMA NeverCutOff ==
    ASSUME Shape, Conserved, NEW P \in SUBSET Answered
    PROVE  Incremented(Cardinality(P)) = position + Cardinality(P)
<1>1. IsFiniteSet(Answered) BY AnsweredOnScale
<1>2. PICK n \in Nat, k \in Nat, m \in Nat :
          /\ n = Cardinality(Answered) /\ k = Cardinality(P) /\ m = Cardinality(Answered \ P)
          /\ m + k = n
  BY <1>1, TakenAway, AnsweredOnScale
<1>3. position \in Nat /\ dropped \in Nat /\ Whole \in Nat
  BY ProgressAssumption DEF Shape, Objects
<1>4. position + n + dropped = Whole BY <1>2 DEF Conserved
<1>5. position + k <= Whole BY <1>2, <1>3, <1>4
<1> QED BY <1>2, <1>3, <1>5 DEF Incremented

-----------------------------------------------------------------------------
(* The first state.                                                        *)

LEMMA RootScopeType ==
    ASSUME NEW v \in {0, 1}
    PROVE  [parent |-> Nothing, start |-> 0, portion |-> Whole, max |-> 1, value |-> v,
            infinite |-> FALSE, active |-> TRUE] \in ScopeType
  BY ProgressAssumption DEF ScopeType, Scopes

LEMMA InitScale == Init => ScaleInv
<1> SUFFICES ASSUME Init PROVE ScaleInv OBVIOUS
<1>1. scope[Root] = [parent |-> Nothing, start |-> 0, portion |-> Whole, max |-> 1,
                     value |-> 0, infinite |-> FALSE, active |-> TRUE]
  BY DEF Init, Scopes
<1>2. scope[Root] \in ScopeType BY <1>1, RootScopeType
<1>3. Objects BY <1>2, ProgressAssumption DEF Init, Objects, Scopes
<1>4. Armed = {} BY DEF Init, Armed, IsActive
<1>5. Active = {Root}
  <2>1. \A s \in Scopes : s \in Active <=> s = Root
    BY <1>1, <1>2, ProgressAssumption DEF Init, Active, Live
  <2> QED BY <1>3, <2>1, LiveObjects DEF Scopes
<1>6. RootStays BY <1>1, <1>2 DEF RootStays
<1>7. OnScale BY <1>1, <1>4, <1>5, ProgressAssumption DEF OnScale
<1>8. Apart BY <1>4, <1>5 DEF Apart, RangesApart, ScopesApart, RangesOffScopes
<1>9. Shape BY <1>3, <1>6, <1>7 DEF Shape
<1>10. Rest(scope[Root]) = Whole BY <1>1, <1>2, LocalStart, ProgressAssumption DEF Rest
<1>11. Answered = ScopePart(Root) BY <1>4, <1>5, InAnswered
<1>12. Cardinality(Answered) = Whole BY <1>5, <1>9, <1>10, <1>11, ScopeAnswers
<1>13. position = 0 /\ dropped = 0 BY DEF Init
<1>14. Conserved BY <1>12, <1>13, ProgressAssumption DEF Conserved
<1> QED BY <1>8, <1>9, <1>14 DEF ScaleInv

-----------------------------------------------------------------------------
(* Ranges.                                                                 *)

\* The parts an operation does not touch.
LEMMA SameRangePart ==
    ASSUME NEW r, range'[r] = range[r]
    PROVE  RangePart(r)' = RangePart(r)
  BY DEF RangePart

LEMMA SameScopePart ==
    ASSUME NEW s, scope'[s] = scope[s]
    PROVE  ScopePart(s)' = ScopePart(s)
  BY DEF ScopePart, localToGlobal

LEMMA CloseRangeKeeps ==
    ASSUME ScaleInv, NEW r \in RangeSlots, CloseRange(r)
    PROVE  ScaleInv'
<1> USE DEF ScaleInv
<1>1. Shape /\ Objects BY DEF Shape
<1>2. r \in Live(range) /\ range' = [range EXCEPT ![r] = Nothing]
      /\ UNCHANGED <<scope, starts, dropped>>
  BY DEF CloseRange
<1>3. \A q \in RangeSlots : q # r => range'[q] = range[q] BY <1>1, <1>2 DEF Objects
<1>4. range'[r] = Nothing BY <1>1, <1>2 DEF Objects
<1>5. Armed' = Armed \ {r}
  <2>1. \A q \in RangeSlots : q \in Armed' <=> q \in Armed \ {r}
    BY <1>3, <1>4 DEF Armed, IsActive
  <2> QED BY <2>1 DEF Armed
<1>6. Active' = Active /\ \A s \in Active : ScopePart(s)' = ScopePart(s)
  BY <1>2, SameScopePart DEF Active, Live
<1>7. \A q \in Armed' : RangePart(q)' = RangePart(q)
  BY <1>3, <1>5, SameRangePart DEF Armed
<1>8. position' \in Nat
  <2>1. CASE r \in Armed
    <3>1. range[r].delta \in Nat BY <1>1, <2>1, RangeAnswers
    <3>2. position \in Nat BY <1>1 DEF Objects
    <3> QED BY <2>1, <3>1, <3>2, ProgressAssumption DEF CloseRange, Incremented, Armed
  <2>2. CASE r \notin Armed BY <1>1, <2>2 DEF CloseRange, Armed, Objects
  <2> QED BY <2>1, <2>2
<1>9. Shape'
  <2>1. Objects' BY <1>1, <1>2, <1>8 DEF Objects
  <2>2. RootStays' BY <1>1, <1>2 DEF Shape, RootStays
  <2>3. OnScale' BY <1>1, <1>2, <1>3, <1>5, <1>6 DEF Shape, OnScale, Armed
  <2> QED BY <2>1, <2>2, <2>3 DEF Shape
<1>10. Apart' BY <1>5, <1>6, <1>7 DEF Apart, RangesApart, ScopesApart, RangesOffScopes
<1>11. \A p : p \in Answered' <=> \/ \E q \in Armed' : p \in RangePart(q)'
                                 \/ \E s \in Active' : p \in ScopePart(s)'
  BY DEF Answered
<1>12. Conserved'
  <2>1. CASE r \in Armed
    <3>1. Answered' = Answered \ RangePart(r)
      BY <1>5, <1>6, <1>7, <1>11, <2>1, InAnswered DEF Apart, RangesApart, RangesOffScopes
    <3>2. RangePart(r) \in SUBSET Answered /\ Cardinality(RangePart(r)) = range[r].delta
      BY <1>1, <2>1, RangeAnswers
    <3>3. position' = Incremented(Cardinality(RangePart(r)))
      BY <2>1, <3>2 DEF CloseRange, Armed
    <3>4. position' = position + Cardinality(RangePart(r)) BY <1>1, <3>2, <3>3, NeverCutOff
    <3>5. IsFiniteSet(Answered) BY <1>1, AnsweredOnScale
    <3>6. Cardinality(RangePart(r)) \in Nat BY <3>2, <3>5, TakenAway
    <3>7. position' + dropped' = position + dropped + Cardinality(RangePart(r))
      BY <1>1, <1>2, <3>4, <3>6 DEF Objects
    <3> QED BY <1>1, <1>9, <3>1, <3>2, <3>7, GivenUp
  <2>2. CASE r \notin Armed
    <3>1. Answered' = Answered BY <1>5, <1>6, <1>7, <1>11, <2>2, InAnswered
    <3>2. position' = position BY <2>2 DEF CloseRange, Armed
    <3> QED BY <1>2, <3>1, <3>2, HandedOver
  <2> QED BY <2>1, <2>2
<1> QED BY <1>9, <1>10, <1>12

LEMMA CopyRangeKeeps ==
    ASSUME ScaleInv, NEW r \in RangeSlots, NEW copy \in RangeSlots, CopyRange(r, copy)
    PROVE  ScaleInv'
<1> USE DEF ScaleInv
<1>1. Shape /\ Objects BY DEF Shape
<1>2. /\ range[r] # Nothing /\ range[copy] = Nothing /\ r # copy
      /\ range' = [range EXCEPT ![copy] = range[r], ![r] = Used(@)]
      /\ UNCHANGED <<position, scope, starts, dropped>>
  BY DEF CopyRange, Live
<1>3. \A q \in RangeSlots : q \notin {r, copy} => range'[q] = range[q]
  BY <1>1, <1>2 DEF Objects
<1>4. range'[copy] = range[r] /\ range'[r] = Used(range[r]) BY <1>1, <1>2 DEF Objects
<1>5. range[r] \in RangeType /\ Used(range[r]) \in RangeType
  <2>1. range[r] \in RangeType BY <1>1, <1>2 DEF Objects
  <2> QED BY <2>1 DEF Used, RangeType
<1>6. Active' = Active /\ \A s \in Active : ScopePart(s)' = ScopePart(s)
  BY <1>2, SameScopePart DEF Active, Live
<1>7. copy \notin Armed /\ r \notin Armed'
  BY <1>2, <1>4, <1>5 DEF Armed, IsActive, Used, RangeType
<1>8. copy \in Armed' <=> r \in Armed BY <1>2, <1>4 DEF Armed, IsActive
<1>9. \A q \in RangeSlots \ {r, copy} : q \in Armed' <=> q \in Armed
  BY <1>3 DEF Armed, IsActive
<1>10. Armed \subseteq RangeSlots /\ Armed' \subseteq RangeSlots BY DEF Armed
<1>11. \A q \in RangeSlots \ {r, copy} : RangePart(q)' = RangePart(q)
  BY <1>3, SameRangePart
<1>12. RangePart(copy)' = RangePart(r) BY <1>4 DEF RangePart
<1>13. Shape'
  <2>1. Objects' BY <1>1, <1>2, <1>5 DEF Objects
  <2>2. RootStays' BY <1>1, <1>2 DEF Shape, RootStays
  <2>3. OnScale'
    BY <1>1, <1>2, <1>3, <1>4, <1>6, <1>7, <1>8, <1>9, <1>10 DEF Shape, OnScale
  <2> QED BY <2>1, <2>2, <2>3 DEF Shape
<1>14. Apart'
  <2>1. RangesApart'
    BY <1>7, <1>8, <1>9, <1>10, <1>11, <1>12 DEF Apart, RangesApart
  <2>2. ScopesApart' BY <1>6 DEF Apart, ScopesApart
  <2>3. RangesOffScopes'
    BY <1>6, <1>7, <1>8, <1>9, <1>10, <1>11, <1>12 DEF Apart, RangesOffScopes
  <2> QED BY <2>1, <2>2, <2>3 DEF Apart
<1>15. \A p : p \in Answered' <=> \/ \E q \in Armed' : p \in RangePart(q)'
                                 \/ \E s \in Active' : p \in ScopePart(s)'
  BY DEF Answered
<1>16. Answered' = Answered
  <2>1. \A p : p \in Answered' <=> p \in Answered
    BY <1>6, <1>7, <1>8, <1>9, <1>10, <1>11, <1>12, <1>15, InAnswered
  <2> QED BY <2>1
<1> QED BY <1>2, <1>13, <1>14, <1>16, HandedOver

LEMMA AssignRangeKeeps ==
    ASSUME ScaleInv, NEW r \in RangeSlots, NEW other \in RangeSlots, AssignRange(r, other)
    PROVE  ScaleInv'
<1> USE DEF ScaleInv
<1>1. Shape /\ Objects BY DEF Shape
<1>2. /\ range[r] # Nothing /\ range[other] # Nothing /\ r # other
      /\ range' = [range EXCEPT ![r] = range[other], ![other] = Used(@)]
      /\ UNCHANGED <<position, scope, starts>>
  BY DEF AssignRange, Live
<1>3. \A q \in RangeSlots : q \notin {r, other} => range'[q] = range[q]
  BY <1>1, <1>2 DEF Objects
<1>4. range'[r] = range[other] /\ range'[other] = Used(range[other]) BY <1>1, <1>2 DEF Objects
<1>5. range[other] \in RangeType /\ Used(range[other]) \in RangeType
  BY <1>1, <1>2 DEF Objects, Used, RangeType
<1>6. Active' = Active /\ \A s \in Active : ScopePart(s)' = ScopePart(s)
  BY <1>2, SameScopePart DEF Active, Live
<1>7. other \notin Armed' BY <1>4, <1>5 DEF Armed, IsActive, Used, RangeType
<1>8. r \in Armed' <=> other \in Armed BY <1>2, <1>4 DEF Armed, IsActive
<1>9. \A q \in RangeSlots \ {r, other} : q \in Armed' <=> q \in Armed
  BY <1>3 DEF Armed, IsActive
<1>10. Armed \subseteq RangeSlots /\ Armed' \subseteq RangeSlots BY DEF Armed
<1>11. \A q \in RangeSlots \ {r, other} : RangePart(q)' = RangePart(q)
  BY <1>3, SameRangePart
<1>12. RangePart(r)' = RangePart(other) BY <1>4 DEF RangePart
<1>13. dropped' \in Nat
  <2>1. CASE r \in Armed
    <3>1. range[r].delta \in Nat BY <1>1, <2>1, RangeAnswers
    <3> QED BY <1>1, <2>1, <3>1 DEF AssignRange, Armed, Objects
  <2>2. CASE r \notin Armed BY <1>1, <2>2 DEF AssignRange, Armed, Objects
  <2> QED BY <2>1, <2>2
<1>14. Shape'
  <2>1. Objects' BY <1>1, <1>2, <1>5, <1>13 DEF Objects
  <2>2. RootStays' BY <1>1, <1>2 DEF Shape, RootStays
  <2>3. OnScale'
    BY <1>1, <1>2, <1>3, <1>4, <1>6, <1>7, <1>8, <1>9, <1>10 DEF Shape, OnScale
  <2> QED BY <2>1, <2>2, <2>3 DEF Shape
<1>15. Apart'
  <2>1. RangesApart'
    BY <1>7, <1>8, <1>9, <1>10, <1>11, <1>12 DEF Apart, RangesApart
  <2>2. ScopesApart' BY <1>6 DEF Apart, ScopesApart
  <2>3. RangesOffScopes'
    BY <1>6, <1>7, <1>8, <1>9, <1>10, <1>11, <1>12 DEF Apart, RangesOffScopes
  <2> QED BY <2>1, <2>2, <2>3 DEF Apart
<1>16. \A p : p \in Answered' <=> \/ \E q \in Armed' : p \in RangePart(q)'
                                 \/ \E s \in Active' : p \in ScopePart(s)'
  BY DEF Answered
<1>17. Conserved'
  <2>1. CASE r \in Armed
    <3>1. Answered' = Answered \ RangePart(r)
      <4>1. \A p : p \in Answered' <=> p \in Answered \ RangePart(r)
        BY <1>2, <1>6, <1>7, <1>8, <1>9, <1>10, <1>11, <1>12, <1>16, <2>1, InAnswered
           DEF Apart, RangesApart, RangesOffScopes
      <4> QED BY <4>1
    <3>2. RangePart(r) \in SUBSET Answered /\ Cardinality(RangePart(r)) = range[r].delta
          /\ range[r].delta \in Nat
      BY <1>1, <2>1, RangeAnswers
    <3>3. dropped' = dropped + range[r].delta BY <2>1 DEF AssignRange, Armed
    <3>4. position' + dropped' = position + dropped + Cardinality(RangePart(r))
      BY <1>1, <1>2, <3>2, <3>3 DEF Objects
    <3> QED BY <1>1, <1>14, <3>1, <3>2, <3>4, GivenUp
  <2>2. CASE r \notin Armed
    <3>1. \A p : p \in Answered' <=> p \in Answered
      BY <1>2, <1>6, <1>7, <1>8, <1>9, <1>10, <1>11, <1>12, <1>16, <2>2, InAnswered
    <3>2. Answered' = Answered BY <3>1
    <3>3. dropped' = dropped BY <2>2 DEF AssignRange, Armed
    <3> QED BY <1>2, <3>2, <3>3, HandedOver
  <2> QED BY <2>1, <2>2
<1> QED BY <1>14, <1>15, <1>17

-----------------------------------------------------------------------------
(* Scopes.                                                                 *)

LEMMA CloseScopeKeeps ==
    ASSUME ScaleInv, NEW s \in ScopeSlots, CloseScope(s)
    PROVE  ScaleInv'
<1> USE DEF ScaleInv
<1>1. Shape /\ Objects BY DEF Shape
<1>2. /\ s \in Active /\ s # Root /\ s \in Scopes
      /\ scope' = [scope EXCEPT ![s].active = FALSE]
      /\ UNCHANGED <<range, starts, dropped>>
  BY DEF CloseScope, Scopes
<1>3. scope[s] \in ScopeType BY <1>1, <1>2, LiveObjects
<1>4. \A t \in Scopes : t # s => scope'[t] = scope[t] BY <1>1, <1>2 DEF Objects
<1>5. scope'[s] = [scope[s] EXCEPT !.active = FALSE] BY <1>1, <1>2 DEF Objects
<1>6. scope'[s] \in ScopeType /\ scope'[s].active = FALSE BY <1>3, <1>5 DEF ScopeType
<1>7. Objects'
  <2>1. range' \in [RangeSlots -> RangeType \cup {Nothing}] /\ dropped' \in Nat
    BY <1>1, <1>2 DEF Objects
  <2>2. scope' \in [Scopes -> ScopeType \cup {Nothing}]
    BY <1>1, <1>2, <1>4, <1>6 DEF Objects
  <2>3. Rest(scope[s]) \in Nat BY <1>1, <1>2, ScopeAnswers
  <2>4. position' \in Nat
    BY <1>1, <2>3, ProgressAssumption DEF CloseScope, Incremented, Objects
  <2> QED BY <2>1, <2>2, <2>4 DEF Objects
<1>8. Active' = Active \ {s}
  <2>1. \A t \in Scopes : t \in Active' <=> t \in Active \ {s}
    BY <1>1, <1>4, <1>6, <1>7 DEF Active, Live, Objects
  <2>2. Active \subseteq Scopes /\ Active' \subseteq Scopes
    BY <1>1, <1>7 DEF Active, Live, Objects
  <2> QED BY <2>1, <2>2
<1>9. Armed' = Armed /\ \A r \in Armed : RangePart(r)' = RangePart(r)
  BY <1>2, SameRangePart DEF Armed, IsActive
<1>10. \A t \in Active' : t \in Scopes /\ scope'[t] = scope[t] /\ ScopePart(t)' = ScopePart(t)
  BY <1>1, <1>4, <1>8, SameScopePart, LiveObjects
<1>11. Shape'
  <2>1. RootStays' BY <1>1, <1>2, <1>4 DEF Shape, RootStays, Scopes
  <2>2. OnScale' BY <1>1, <1>2, <1>8, <1>9, <1>10 DEF Shape, OnScale
  <2> QED BY <1>7, <2>1, <2>2 DEF Shape
<1>12. Apart' BY <1>8, <1>9, <1>10 DEF Apart, RangesApart, ScopesApart, RangesOffScopes
<1>13. \A p : p \in Answered' <=> \/ \E q \in Armed' : p \in RangePart(q)'
                                 \/ \E t \in Active' : p \in ScopePart(t)'
  BY DEF Answered
<1>14. Answered' = Answered \ ScopePart(s)
  <2>1. \A p : p \in Answered' <=> p \in Answered \ ScopePart(s)
    BY <1>2, <1>8, <1>9, <1>10, <1>13, InAnswered DEF Apart, ScopesApart, RangesOffScopes
  <2> QED BY <2>1
<1>15. /\ ScopePart(s) \in SUBSET Answered
       /\ Cardinality(ScopePart(s)) = Rest(scope[s]) /\ Rest(scope[s]) \in Nat
  BY <1>1, <1>2, ScopeAnswers
<1>16. Incremented(Rest(scope[s])) = position + Rest(scope[s])
  BY <1>1, <1>15, NeverCutOff
<1>17. position' = position + Rest(scope[s])
  BY <1>1, <1>15, <1>16 DEF CloseScope, Objects
<1>18. position' + dropped' = position + dropped + Cardinality(ScopePart(s))
  BY <1>1, <1>2, <1>15, <1>17 DEF Objects
<1>19. Conserved' BY <1>1, <1>11, <1>14, <1>15, <1>18, GivenUp
<1> QED BY <1>11, <1>12, <1>19

LEMMA DropScopeKeeps ==
    ASSUME ScaleInv, NEW s \in ScopeSlots, DropScope(s)
    PROVE  ScaleInv'
<1> USE DEF ScaleInv
<1>1. Shape /\ Objects BY DEF Shape
<1>2. /\ s \notin Active /\ s \in Scopes
      /\ scope' = [scope EXCEPT ![s] = Nothing]
      /\ UNCHANGED <<position, range, starts, dropped>>
  BY DEF DropScope, Scopes
<1>3. \A t \in Scopes : t # s => scope'[t] = scope[t] BY <1>1, <1>2 DEF Objects
<1>4. scope'[s] = Nothing BY <1>1, <1>2 DEF Objects
<1>5. Objects' BY <1>1, <1>2 DEF Objects
<1>6. Active' = Active
  <2>1. \A t \in Scopes : t \in Active' <=> t \in Active
    BY <1>1, <1>2, <1>3, <1>4, <1>5 DEF Active, Live, Objects
  <2>2. Active \subseteq Scopes /\ Active' \subseteq Scopes
    BY <1>1, <1>5 DEF Active, Live, Objects
  <2> QED BY <2>1, <2>2
<1>7. Armed' = Armed /\ \A r \in Armed : RangePart(r)' = RangePart(r)
  BY <1>2, SameRangePart DEF Armed, IsActive
<1>8. \A t \in Active : t \in Scopes /\ scope'[t] = scope[t] /\ ScopePart(t)' = ScopePart(t)
  BY <1>1, <1>2, <1>3, SameScopePart, LiveObjects
<1>9. Shape'
  <2>1. Root \in Active
    BY <1>1, ProgressAssumption DEF Shape, RootStays, Active, Live, Objects, Scopes
  <2>2. RootStays' BY <1>1, <1>8, <2>1 DEF Shape, RootStays
  <2>3. OnScale' BY <1>1, <1>2, <1>6, <1>7, <1>8 DEF Shape, OnScale
  <2> QED BY <1>5, <2>2, <2>3 DEF Shape
<1>10. Apart' BY <1>6, <1>7, <1>8 DEF Apart, RangesApart, ScopesApart, RangesOffScopes
<1>11. \A p : p \in Answered' <=> \/ \E q \in Armed' : p \in RangePart(q)'
                                 \/ \E t \in Active' : p \in ScopePart(t)'
  BY DEF Answered
<1>12. Answered' = Answered
  <2>1. \A p : p \in Answered' <=> p \in Answered BY <1>6, <1>7, <1>8, <1>11, InAnswered
  <2> QED BY <2>1
<1> QED BY <1>2, <1>9, <1>10, <1>12, HandedOver

LEMMA NewScopeKeeps ==
    ASSUME ScaleInv, NEW r \in RangeSlots, NEW s \in ScopeSlots, NEW max \in Maxes,
           NEW infinite \in Laws, NewScope(r, s, max, infinite)
    PROVE  ScaleInv'
<1> USE DEF ScaleInv
<1>1. Shape /\ Objects BY DEF Shape
<1> DEFINE made == [parent |-> range[r].parent, start |-> range[r].start,
                    portion |-> range[r].delta, max |-> max, value |-> 0,
                    infinite |-> infinite, active |-> IsActive(r)]
<1>2. /\ range[r] # Nothing /\ s # Root /\ s \in Scopes /\ scope[s] = Nothing
      /\ scope' = [scope EXCEPT ![s] = made]
      /\ range' = [range EXCEPT ![r] = Used(@)]
      /\ UNCHANGED <<position, starts, dropped>>
  BY DEF NewScope, Live, Scopes
<1>3. range[r] \in RangeType BY <1>1, <1>2 DEF Objects
<1>4. Used(range[r]) \in RangeType /\ Used(range[r]).wasUsed BY <1>3 DEF Used, RangeType
<1>5. made \in ScopeType
  <2>1. max \in Nat \ {0} /\ infinite \in BOOLEAN /\ 0 \in 0 .. MaxValue
    BY ProgressAssumption
  <2>2. IsActive(r) \in BOOLEAN BY DEF IsActive
  <2> QED BY <1>3, <2>1, <2>2 DEF ScopeType, RangeType
<1>6. scope'[s] = made BY <1>1, <1>2 DEF Objects
<1> HIDE DEF made
<1>7. range'[r] = Used(range[r]) /\ \A q \in RangeSlots : q # r => range'[q] = range[q]
  BY <1>1, <1>2 DEF Objects
<1>8. \A t \in Scopes : t # s => scope'[t] = scope[t] BY <1>1, <1>2 DEF Objects
<1>9. Objects' BY <1>1, <1>2, <1>4, <1>5 DEF Objects
<1>10. Armed' = Armed \ {r}
  <2>1. \A q \in RangeSlots : q \in Armed' <=> q \in Armed \ {r}
    BY <1>4, <1>7 DEF Armed, IsActive
  <2> QED BY <2>1 DEF Armed
<1>11. \A q \in Armed' : range'[q] = range[q] /\ RangePart(q)' = RangePart(q)
  BY <1>7, <1>10, SameRangePart DEF Armed
<1>12. s \notin Active BY <1>2 DEF Active, Live
<1>13. made.active = IsActive(r) BY DEF made
<1>14. s \in Active' <=> r \in Armed
  BY <1>2, <1>5, <1>6, <1>9, <1>13, ProgressAssumption DEF Active, Live, Objects, Armed
<1>15. Active \subseteq Scopes /\ Active' \subseteq Scopes
  BY <1>1, <1>9 DEF Active, Live, Objects
<1>16. \A t \in Scopes \ {s} : /\ t \in Active' <=> t \in Active
                               /\ scope'[t] = scope[t] /\ ScopePart(t)' = ScopePart(t)
  BY <1>1, <1>8, <1>9, SameScopePart DEF Active, Live, Objects
<1>17. ScopePart(s)' = RangePart(r)
  <2>1. localToGlobal(made, 0) = 0 BY <1>5, LocalStart
  <2>2. made.start = range[r].start /\ made.portion = range[r].delta /\ made.value = 0
    BY DEF made
  <2>3. ScopePart(s)' = made.start + localToGlobal(made, made.value)
                            .. made.start + made.portion - 1
    BY <1>6 DEF ScopePart, localToGlobal
  <2>4. range[r].start \in Nat BY <1>3 DEF RangeType
  <2>5. range[r].start + 0 = range[r].start BY <2>4
  <2> QED BY <2>1, <2>2, <2>3, <2>5 DEF RangePart
<1>18. Shape'
  <2>1. RootStays' BY <1>1, <1>2, <1>8 DEF Shape, RootStays, Scopes
  <2>2. made.start = range[r].start /\ made.portion = range[r].delta BY DEF made
  <2>3. OnScale'
    BY <1>1, <1>6, <1>10, <1>11, <1>14, <1>15, <1>16, <2>2 DEF Shape, OnScale
  <2> QED BY <1>9, <2>1, <2>3 DEF Shape
<1>19. Apart'
  <2>1. RangesApart' BY <1>10, <1>11 DEF Apart, RangesApart
  <2>2. ScopesApart'
    BY <1>12, <1>14, <1>15, <1>16, <1>17 DEF Apart, ScopesApart, RangesOffScopes
  <2>3. RangesOffScopes'
    BY <1>10, <1>11, <1>12, <1>14, <1>15, <1>16, <1>17
       DEF Apart, RangesApart, RangesOffScopes
  <2> QED BY <2>1, <2>2, <2>3 DEF Apart
<1>20. \A p : p \in Answered' <=> \/ \E q \in Armed' : p \in RangePart(q)'
                                 \/ \E t \in Active' : p \in ScopePart(t)'
  BY DEF Answered
<1>21. Answered' = Answered
  <2>1. \A p : p \in Answered' <=> p \in Answered
    BY <1>10, <1>11, <1>12, <1>14, <1>15, <1>16, <1>17, <1>20, InAnswered
  <2> QED BY <2>1
<1> QED BY <1>2, <1>18, <1>19, <1>21, HandedOver

-----------------------------------------------------------------------------
(* Handing out.                                                            *)

\* A scope's part, cut where the local position goes to.
LEMMA Cut ==
    ASSUME NEW a \in Nat, NEW p \in Nat, NEW from \in 0 .. p, NEW to \in 0 .. p, from <= to
    PROVE  \A x : /\ x \in a + from .. a + p - 1
                     <=> x \in a + from .. a + from + (to - from) - 1 \/ x \in a + to .. a + p - 1
                  /\ ~(x \in a + from .. a + from + (to - from) - 1 /\ x \in a + to .. a + p - 1)
  OBVIOUS

LEMMA NextKeeps ==
    ASSUME ScaleInv, NEW s \in ScopeSlots, NEW step \in Steps, NEW r \in RangeSlots,
           Next(s, step, r)
    PROVE  ScaleInv'
<1> USE DEF ScaleInv
<1>1. Shape /\ Objects BY DEF Shape
<1>2. /\ s \in Scopes /\ s # Root /\ scope[s] # Nothing /\ range[r] = Nothing
      /\ scope[s].value + step <= MaxValue
      /\ UNCHANGED <<position, starts, dropped>>
  BY DEF Next, Live, Scopes
<1>3. scope[s] \in ScopeType BY <1>1, <1>2 DEF Objects
<1>4. /\ scope[s].value \in Nat /\ scope[s].start \in Nat /\ scope[s].portion \in Nat
      /\ step \in Nat /\ scope[s].value + step \in 0 .. MaxValue
      /\ scope[s].start <= Whole /\ scope[s].portion <= Whole /\ Whole \in Nat
  BY <1>2, <1>3, ProgressAssumption DEF ScopeType
<1>5. PICK from \in 0 .. scope[s].portion : from = localToGlobal(scope[s], scope[s].value)
  BY <1>3, <1>4, LocalBounds
<1>6. PICK to \in 0 .. scope[s].portion : to = localToGlobal(scope[s], scope[s].value + step)
  BY <1>3, <1>4, LocalBounds
<1>7. from <= to BY <1>3, <1>4, <1>5, <1>6, LocalMonotone
<1>8. r \notin Armed BY <1>2 DEF Armed, IsActive
<1>9. EmptyRange \in RangeType /\ EmptyRange.parent = Nothing
  BY ProgressAssumption DEF EmptyRange, RangeType
<1>10. ASSUME range' = [range EXCEPT ![r] = EmptyRange], UNCHANGED scope PROVE ScaleInv'
  <2>1. range'[r] = EmptyRange /\ \A q \in RangeSlots : q # r => range'[q] = range[q]
    BY <1>1, <1>10 DEF Objects
  <2>2. Armed' = Armed
    <3>1. \A q \in RangeSlots : q \in Armed' <=> q \in Armed
      BY <1>8, <1>9, <2>1 DEF Armed, IsActive
    <3> QED BY <3>1 DEF Armed
  <2>3. \A q \in Armed : range'[q] = range[q] /\ RangePart(q)' = RangePart(q)
    BY <1>8, <2>1, SameRangePart DEF Armed
  <2>4. Active' = Active /\ \A t \in Active : ScopePart(t)' = ScopePart(t)
    BY <1>10, SameScopePart DEF Active, Live
  <2>5. Shape'
    <3>1. Objects' BY <1>1, <1>2, <1>9, <1>10 DEF Objects
    <3>2. RootStays' BY <1>1, <1>10 DEF Shape, RootStays
    <3>3. OnScale' BY <1>1, <1>10, <2>2, <2>3, <2>4 DEF Shape, OnScale
    <3> QED BY <3>1, <3>2, <3>3 DEF Shape
  <2>6. Apart' BY <2>2, <2>3, <2>4 DEF Apart, RangesApart, ScopesApart, RangesOffScopes
  <2>7. \A p : p \in Answered' <=> \/ \E q \in Armed' : p \in RangePart(q)'
                                  \/ \E t \in Active' : p \in ScopePart(t)'
    BY DEF Answered
  <2>8. Answered' = Answered
    <3>1. \A p : p \in Answered' <=> p \in Answered BY <2>2, <2>3, <2>4, <2>7, InAnswered
    <3> QED BY <3>1
  <2> QED BY <1>2, <2>5, <2>6, <2>8, HandedOver
<1>11. CASE ~scope[s].active BY <1>10, <1>11 DEF Next
<1>12. CASE scope[s].active
  <2>1. s \in Active BY <1>1, <1>2, <1>12, LiveObjects DEF Active
  <2>2. scope' = [scope EXCEPT ![s].value = @ + step] BY <1>12 DEF Next
  <2>3. scope'[s] = [scope[s] EXCEPT !.value = scope[s].value + step]
    BY <1>1, <1>2, <2>2 DEF Objects
  <2>4. /\ scope'[s] \in ScopeType /\ scope'[s].active
        /\ scope'[s].start = scope[s].start /\ scope'[s].portion = scope[s].portion
        /\ scope'[s].max = scope[s].max /\ scope'[s].infinite = scope[s].infinite
        /\ scope'[s].value = scope[s].value + step
    BY <1>3, <1>4, <1>12, <2>3 DEF ScopeType
  <2>5. \A t \in Scopes : t # s => scope'[t] = scope[t] BY <1>1, <1>2, <2>2 DEF Objects
  <2>6. scope' \in [Scopes -> ScopeType \cup {Nothing}]
    BY <1>1, <2>2, <2>4, <2>5 DEF Objects
  <2>7. Active' = Active
    <3>1. \A t \in Scopes : t \in Active' <=> t \in Active
      BY <1>1, <1>2, <2>1, <2>4, <2>5, <2>6, ProgressAssumption DEF Active, Live, Objects
    <3>2. Active \subseteq Scopes /\ Active' \subseteq Scopes
      BY <1>1, <2>6 DEF Active, Live, Objects
    <3> QED BY <3>1, <3>2
  <2>8. \A t \in Active : t # s => scope'[t] = scope[t] /\ ScopePart(t)' = ScopePart(t)
    BY <1>1, <2>5, SameScopePart, LiveObjects
  <2>9. ScopePart(s) = scope[s].start + from .. scope[s].start + scope[s].portion - 1
    BY <1>5 DEF ScopePart
  <2>10. ScopePart(s)' = scope[s].start + to .. scope[s].start + scope[s].portion - 1
    <3>1. localToGlobal(scope'[s], scope'[s].value) = to
      BY <1>6, <2>4 DEF localToGlobal
    <3>2. ScopePart(s)' = scope'[s].start + localToGlobal(scope'[s], scope'[s].value)
                              .. scope'[s].start + scope'[s].portion - 1
      BY DEF ScopePart, localToGlobal
    <3> QED BY <2>4, <3>1, <3>2
  <2>11. scope[s].start + scope[s].portion <= Whole BY <1>1, <2>1 DEF Shape, OnScale
  <2>12. RootStays' BY <1>1, <1>2, <2>5 DEF Shape, RootStays, Scopes
  <2>13. CASE to > from
    <3> DEFINE given == Part(s, from, to)
    <3>1. range' = [range EXCEPT ![r] = given]
      BY <1>5, <1>6, <1>12, <2>13 DEF Next, IsPart
    <3>2. /\ given \in RangeType /\ given.parent = s /\ ~given.wasUsed
          /\ given.start = scope[s].start + from /\ given.delta = to - from
      BY <1>2, <1>4, <2>11, <2>13 DEF Part, RangeType
    <3>3. range'[r] = given BY <1>1, <3>1 DEF Objects
    <3> HIDE DEF given
    <3>4. \A q \in RangeSlots : q # r => range'[q] = range[q] BY <1>1, <3>1 DEF Objects
    <3>5. r \in Armed' BY <1>2, <3>2, <3>3, ProgressAssumption DEF Armed, IsActive
    <3>6. Armed' = Armed \cup {r}
      <4>1. \A q \in RangeSlots : q \in Armed' <=> q \in Armed \cup {r}
        BY <3>4, <3>5 DEF Armed, IsActive
      <4> QED BY <4>1 DEF Armed
    <3>7. \A q \in Armed : q # r /\ range'[q] = range[q] /\ RangePart(q)' = RangePart(q)
      BY <1>8, <3>4, SameRangePart DEF Armed
    <3>8. RangePart(r)'
            = scope[s].start + from .. scope[s].start + from + (to - from) - 1
      BY <3>2, <3>3 DEF RangePart
    <3>9. \A x : /\ x \in ScopePart(s) <=> x \in RangePart(r)' \/ x \in ScopePart(s)'
                 /\ ~(x \in RangePart(r)' /\ x \in ScopePart(s)')
      <4>1. PICK a \in Nat, p \in Nat : a = scope[s].start /\ p = scope[s].portion BY <1>4
      <4>2. from \in 0 .. p /\ to \in 0 .. p BY <4>1
      <4>3. /\ ScopePart(s) = a + from .. a + p - 1
            /\ ScopePart(s)' = a + to .. a + p - 1
            /\ RangePart(r)' = a + from .. a + from + (to - from) - 1
        BY <2>9, <2>10, <3>8, <4>1
      <4>4. \A x : /\ x \in a + from .. a + p - 1
                      <=> x \in a + from .. a + from + (to - from) - 1 \/ x \in a + to .. a + p - 1
                   /\ ~(x \in a + from .. a + from + (to - from) - 1 /\ x \in a + to .. a + p - 1)
        BY <1>7, <4>2, Cut
      <4> QED BY <4>3, <4>4
    <3>10. Shape'
      <4>1. Objects' BY <1>1, <1>2, <2>6, <3>1, <3>2 DEF Objects
      <4>2. given.delta > 0 /\ given.start + given.delta <= Whole
        BY <1>4, <2>11, <2>13, <3>2
      <4>3. OnScale' BY <1>1, <2>1, <2>4, <2>7, <2>8, <3>3, <3>6, <3>7, <4>2 DEF Shape, OnScale
      <4> QED BY <2>12, <4>1, <4>3 DEF Shape
    <3>11. Apart'
      <4>1. RangesApart'
        BY <2>1, <3>6, <3>7, <3>9 DEF Apart, RangesApart, RangesOffScopes
      <4>2. ScopesApart' BY <2>1, <2>7, <2>8, <3>9 DEF Apart, ScopesApart
      <4>3. RangesOffScopes'
        BY <2>1, <2>7, <2>8, <3>6, <3>7, <3>9 DEF Apart, ScopesApart, RangesOffScopes
      <4> QED BY <4>1, <4>2, <4>3 DEF Apart
    <3>12. \A p : p \in Answered' <=> \/ \E q \in Armed' : p \in RangePart(q)'
                                     \/ \E t \in Active' : p \in ScopePart(t)'
      BY DEF Answered
    <3>13. Answered' = Answered
      <4>1. \A p : p \in Answered' <=> p \in Answered
        BY <2>1, <2>7, <2>8, <3>6, <3>7, <3>9, <3>12, InAnswered
      <4> QED BY <4>1
    <3> QED BY <1>2, <3>10, <3>11, <3>13, HandedOver
  <2>14. CASE ~(to > from)
    <3>1. from = to BY <1>7, <2>14
    <3>2. range' = [range EXCEPT ![r] = EmptyRange]
      BY <1>5, <1>6, <1>12, <2>14 DEF Next, IsPart
    <3>3. range'[r] = EmptyRange /\ \A q \in RangeSlots : q # r => range'[q] = range[q]
      BY <1>1, <3>2 DEF Objects
    <3>4. Armed' = Armed
      <4>1. \A q \in RangeSlots : q \in Armed' <=> q \in Armed
        BY <1>8, <1>9, <3>3 DEF Armed, IsActive
      <4> QED BY <4>1 DEF Armed
    <3>5. \A q \in Armed : range'[q] = range[q] /\ RangePart(q)' = RangePart(q)
      BY <1>8, <3>3, SameRangePart DEF Armed
    <3>6. ScopePart(s)' = ScopePart(s) BY <2>9, <2>10, <3>1
    <3>7. Shape'
      <4>1. Objects' BY <1>1, <1>2, <1>9, <2>6, <3>2 DEF Objects
      <4>2. OnScale' BY <1>1, <2>1, <2>4, <2>7, <2>8, <3>4, <3>5 DEF Shape, OnScale
      <4> QED BY <2>12, <4>1, <4>2 DEF Shape
    <3>8. Apart'
      BY <2>7, <2>8, <3>4, <3>5, <3>6 DEF Apart, RangesApart, ScopesApart, RangesOffScopes
    <3>9. \A p : p \in Answered' <=> \/ \E q \in Armed' : p \in RangePart(q)'
                                    \/ \E t \in Active' : p \in ScopePart(t)'
      BY DEF Answered
    <3>10. Answered' = Answered
      <4>1. \A p : p \in Answered' <=> p \in Answered
        BY <2>7, <2>8, <3>4, <3>5, <3>6, <3>9, InAnswered
      <4> QED BY <4>1
    <3> QED BY <1>2, <3>7, <3>8, <3>10, HandedOver
  <2> QED BY <1>4, <1>5, <1>6, <2>13, <2>14
<1> QED BY <1>11, <1>12

\* Start hands the whole scale out again, when nothing else answers for any
\* of it.
LEMMA StartKeeps ==
    ASSUME ScaleInv, NEW r \in RangeSlots, Start(r)
    PROVE  ScaleInv'
<1> USE DEF ScaleInv
<1>1. Shape /\ Objects BY DEF Shape
<1>2. /\ Armed = {} /\ Active = {Root} /\ range[r] = Nothing
      /\ position' = 0 /\ dropped' = 0
      /\ scope' = [scope EXCEPT ![Root].value = 1]
      /\ range' = [range EXCEPT ![r] = Part(Root, 0, localToGlobal(scope[Root], 1))]
  BY DEF Start
<1>3. /\ scope[Root] \in ScopeType /\ scope[Root].active /\ Root \in Scopes
      /\ scope[Root].start = 0 /\ scope[Root].portion = Whole
      /\ scope[Root].max = 1 /\ ~scope[Root].infinite
  BY <1>1 DEF Shape, RootStays, Scopes
<1>4. localToGlobal(scope[Root], 1) = Whole BY <1>3 DEF localToGlobal
<1>5. Whole \in Nat \ {0} /\ 1 \in 0 .. MaxValue BY ProgressAssumption
<1> DEFINE given == Part(Root, 0, Whole)
<1>6. /\ given \in RangeType /\ given.parent = Root /\ ~given.wasUsed
      /\ given.start = 0 /\ given.delta = Whole
  BY <1>3, <1>5 DEF Part, RangeType
<1>7. range' = [range EXCEPT ![r] = given] BY <1>2, <1>4
<1> HIDE DEF given
<1>8. range'[r] = given /\ \A q \in RangeSlots : q # r => range'[q] = range[q]
  BY <1>1, <1>7 DEF Objects
<1>9. scope'[Root] = [scope[Root] EXCEPT !.value = 1] BY <1>1, <1>2, <1>3 DEF Objects
<1>10. /\ scope'[Root] \in ScopeType /\ scope'[Root].active
       /\ scope'[Root].start = 0 /\ scope'[Root].portion = Whole
       /\ scope'[Root].max = 1 /\ ~scope'[Root].infinite /\ scope'[Root].value = 1
  BY <1>3, <1>5, <1>9 DEF ScopeType
<1>11. \A t \in Scopes : t # Root => scope'[t] = scope[t] BY <1>1, <1>2 DEF Objects
<1>12. Objects'
  <2>1. scope' \in [Scopes -> ScopeType \cup {Nothing}] BY <1>1, <1>2, <1>10, <1>11 DEF Objects
  <2>2. range' \in [RangeSlots -> RangeType \cup {Nothing}] BY <1>1, <1>6, <1>7 DEF Objects
  <2> QED BY <1>2, <2>1, <2>2 DEF Objects
<1>13. Armed' = {r}
  <2>1. \A q \in RangeSlots : q \in Armed' <=> q = r
    BY <1>2, <1>3, <1>6, <1>8, ProgressAssumption DEF Armed, IsActive
  <2> QED BY <2>1 DEF Armed
<1>14. Active' = {Root}
  <2>1. \A t \in Scopes : t \in Active' <=> t = Root
    BY <1>1, <1>2, <1>3, <1>10, <1>11, <1>12, ProgressAssumption DEF Active, Live, Objects
  <2>2. Active' \subseteq Scopes BY <1>12 DEF Active, Live, Objects
  <2> QED BY <1>3, <2>1, <2>2
<1>15. RangePart(r)' = 0 .. 0 + Whole - 1 BY <1>6, <1>8 DEF RangePart
<1>16. ScopePart(Root)' = {}
  <2>1. ScopePart(Root)' = scope'[Root].start + localToGlobal(scope'[Root], scope'[Root].value)
                               .. scope'[Root].start + scope'[Root].portion - 1
    BY DEF ScopePart, localToGlobal
  <2>2. localToGlobal(scope'[Root], scope'[Root].value) = Whole
    BY <1>10 DEF localToGlobal
  <2>3. ScopePart(Root)' = 0 + Whole .. 0 + Whole - 1 BY <1>10, <2>1, <2>2
  <2> QED BY <1>5, <2>3
<1>17. Shape'
  <2>1. RootStays' BY <1>10 DEF RootStays
  <2>2. OnScale' BY <1>5, <1>6, <1>8, <1>10, <1>13, <1>14 DEF OnScale
  <2> QED BY <1>12, <2>1, <2>2 DEF Shape
<1>18. Apart'
  BY <1>13, <1>14, <1>16 DEF Apart, RangesApart, ScopesApart, RangesOffScopes
<1>19. \A p : p \in Answered' <=> \/ \E q \in Armed' : p \in RangePart(q)'
                                 \/ \E t \in Active' : p \in ScopePart(t)'
  BY DEF Answered
<1>20. Answered' = 0 .. 0 + Whole - 1
  <2>1. \A p : p \in Answered' <=> p \in 0 .. 0 + Whole - 1
    BY <1>13, <1>14, <1>15, <1>16, <1>19
  <2> QED BY <2>1
<1>21. Cardinality(0 .. 0 + Whole - 1) = Whole BY <1>5, PlacesCount
<1>22. Conserved'
  <2>1. Cardinality(Answered)' = Whole BY <1>20, <1>21
  <2> QED BY <1>2, <1>5, <2>1 DEF Conserved
<1> QED BY <1>17, <1>18, <1>22

-----------------------------------------------------------------------------

LEMMA OperationKeeps == ASSUME ScaleInv, [Operation]_vars PROVE ScaleInv'
<1>1. CASE UNCHANGED vars
  BY <1>1 DEF vars, ScaleInv, Shape, Objects, RootStays, OnScale, Apart, RangesApart,
     ScopesApart, RangesOffScopes, Conserved, Answered, Armed, Active, IsActive, Live,
     RangePart, ScopePart, localToGlobal
<1>2. ASSUME NEW r \in RangeSlots, Start(r) \/ CloseRange(r) PROVE ScaleInv'
  BY <1>2, StartKeeps, CloseRangeKeeps
<1>3. ASSUME NEW s \in ScopeSlots, NEW step \in Steps, NEW r \in RangeSlots, Next(s, step, r)
      PROVE  ScaleInv'
  BY <1>3, NextKeeps
<1>4. ASSUME NEW r \in RangeSlots, NEW other \in RangeSlots,
             CopyRange(r, other) \/ AssignRange(r, other)
      PROVE  ScaleInv'
  BY <1>4, CopyRangeKeeps, AssignRangeKeeps
<1>5. ASSUME NEW r \in RangeSlots, NEW s \in ScopeSlots, NEW max \in Maxes,
             NEW infinite \in Laws, NewScope(r, s, max, infinite)
      PROVE  ScaleInv'
  BY <1>5, NewScopeKeeps
<1>6. ASSUME NEW s \in ScopeSlots, CloseScope(s) \/ DropScope(s) PROVE ScaleInv'
  BY <1>6, CloseScopeKeeps, DropScopeKeeps
<1> QED BY <1>1, <1>2, <1>3, <1>4, <1>5, <1>6 DEF Operation

LEMMA ScaleKept == Spec => []ScaleInv
  BY InitScale, OperationKeeps, PTL DEF Spec

\* The scale is conserved, for any length of it and any nesting of scopes: the
\* length of every range and the rest of every scope reaches the indicator
\* once, or is known to have been assigned over.
THEOREM ScaleConserved == Spec => []Conserved
<1>1. ScaleInv => Conserved BY DEF ScaleInv
<1> QED BY <1>1, ScaleKept, PTL

\* No two ranges or scopes ever answer for the same part of the scale.
THEOREM ScaleParted == Spec => []PartsApart
<1>1. ScaleInv => PartsApart
  <2> SUFFICES ASSUME ScaleInv PROVE PartsApart OBVIOUS
  <2>1. Shape /\ Objects /\ Conserved BY DEF ScaleInv, Shape
  <2>2. position \in 0 .. Whole /\ dropped \in 0 .. Whole
    <3>1. Cardinality(Answered) \in Nat BY <2>1, AnsweredOnScale
    <3> QED BY <2>1, <3>1, ProgressAssumption DEF Objects, Conserved
  <2>3. \A r \in Armed : range[r].delta > 0 BY <2>1 DEF Shape, OnScale
  <2>4. TypeOK BY <2>1, <2>2, <2>3, LiveObjects DEF TypeOK
  <2> QED BY <2>4 DEF ScaleInv, Apart, RangesApart, ScopesApart, RangesOffScopes, PartsApart
<1> QED BY <1>1, ScaleKept, PTL

=============================================================================
